----------------------------- MODULE JobsProofs -----------------------------
(***************************************************************************)
(* Proofs about the job manager, for any number of jobs, ids, stores,      *)
(* goroutines and calls.                                                   *)
(*                                                                         *)
(* EntryInv is inductive by itself: who owns an entry.  JobInv, on top of  *)
(* it, says which entry is whose job's.  The channels, the callbacks, the  *)
(* watchers and the closed manager each have an invariant of their own,    *)
(* inductive relative to those two.                                        *)
(*                                                                         *)
(* The hypotheses, which the theorems name:                                *)
(*   UniformPrograms  a program adds one-shot jobs or keep-alive jobs, not *)
(*                    both.  With both, the theorems are false: the pool   *)
(*                    gives one entry to two jobs (MCJobsRecycle.cfg).     *)
(*   DeletesWork      store.Delete does what it says.  The manager drops   *)
(*                    its error and goes on to recycle the entry.          *)
(*   GetsAll          store.GetAll does, for Close alone: after an error   *)
(*                    nothing is evicted.                                  *)
(* The in-memory store never fails.  Of ids nothing is assumed: any job    *)
(* may be added under any id that the store in use does not track.         *)
(***************************************************************************)
EXTENDS Jobs, FiniteSetTheorems, TLAPS

UniformPrograms ==
  \A P \in Programs : (\A o \in P : o.keep) \/ (\A o \in P : ~o.keep)

DeletesWork == "delete" \notin Faulty

GetsAll == "getall" \notin Faulty

-----------------------------------------------------------------------------
(* Entries.                                                                *)

(* The two kinds of programs.                                              *)
OneShots == \A o \in program : ~o.keep
Streams == \A o \in program : o.keep

Working == {"deliver", "recycle", "remove"}

(* A number that no Add has used yet.                                      *)
Unborn(n) ==
  n > counter \/ \E t \in Threads : op[t].at = "adding" /\ op[t].n = n

(* Which locals of its operation a goroutine uses.                         *)
Shape ==
  /\ \A t \in Threads :
       /\ op[t].at \notin {"cancel", "close"} => op[t].left = {}
       /\ op[t].at \in Working => op[t].n # 0
       /\ op[t].at = "adding" => op[t].n \in 1..counter
  /\ \A w \in Watchers :
       /\ op[w].at \in {"idle", "deliver", "recycle"}
       /\ watch[w] # "done" => op[w].at = "idle"
       /\ Unborn(w[2]) => watch[w] = "none"

Holds(t, e) == (op[t].at \in Working /\ op[t].n = e) \/ e \in op[t].left

(* NextID gives every number once, and the entry that Add would allocate   *)
(* for it does not exist yet.                                              *)
Numbers ==
  /\ \A t, u \in Threads :
       op[t].at = "adding" /\ op[u].at = "adding" /\ op[t].n = op[u].n => t = u
  /\ \A n \in Jobs : Unborn(n) =>
       /\ pool[n] = 0
       /\ \A s \in Stores, i \in Ids : stores[s][i] # n
       /\ \A t \in Threads : ~Holds(t, n)

(* t will hand e back to the pool.                                         *)
Owns(t, e) ==
  \/ op[t].at \in {"deliver", "recycle"} /\ op[t].n = e /\ ~ent[e].keep
  \/ op[t].at = "remove" /\ op[t].n = e
  \/ e \in op[t].left

(* EntryExclusive without cardinalities.                                   *)
Exclusive(e) ==
  /\ pool[e] <= 1
  /\ \A s, r \in Stores, i, k \in Ids :
       stores[s][i] = e /\ stores[r][k] = e => s = r /\ i = k
  /\ \A s \in Stores, i \in Ids : stores[s][i] = e => pool[e] = 0
  /\ \A t \in Threads : Owns(t, e) =>
       /\ pool[e] = 0
       /\ \A s \in Stores, i \in Ids : stores[s][i] # e
       /\ \A u \in Threads : Owns(u, e) => u = t

OneOwner == \A e \in Jobs : Exclusive(e)

Used(e) ==
  \/ pool[e] > 0
  \/ \E s \in Stores, i \in Ids : stores[s][i] = e
  \/ \E t \in Threads : Holds(t, e)

(* Recycle reads keepAlive after the lock was released: it must find what  *)
(* Take found, although the entry may have changed hands in between.       *)
Kept ==
  /\ OneShots \/ Streams
  /\ OneShots => \A e \in Jobs : ~ent[e].keep
  /\ Streams => \A e \in Jobs : Used(e) => ent[e].keep

(* The inductive invariant of the entries.                                 *)
EntryInv == TypeOK /\ Shape /\ Numbers /\ OneOwner /\ Kept

-----------------------------------------------------------------------------
(* Jobs.                                                                   *)

(* An entry carries the callback and the channel of its own job or none,   *)
(* a job has one entry, and a one-shot job whose Resolve is on its way no  *)
(* longer has its channel in its entry.                                    *)
Fields ==
  /\ \A e \in Jobs : ent[e].cb \in {0, ent[e].job} /\ ent[e].ch \in {0, ent[e].job}
  /\ \A e, f \in Jobs : ent[e].job = ent[f].job /\ ent[e].job # 0 => e = f
  /\ \A n \in Jobs : Unborn(n) => n \notin added /\ \A e \in Jobs : ent[e].job # n
  /\ \A t \in Threads :
       op[t].at \in {"deliver", "recycle"} /\ ~ent[op[t].n].keep => ent[op[t].n].ch = 0
  /\ \A j \in added : opt[j] \in program

(* What a store tracks was accepted.                                       *)
Tracked ==
  \A s \in Stores, i \in Ids : stores[s][i] # 0 => ent[stores[s][i]].job \in added

(* The inductive invariant of the jobs, relative to EntryInv.              *)
JobInv == Fields /\ Tracked

(* Channels: whoever has one in its hands, in an entry or on its way in a  *)
(* Resolve, has it alone and open.                                         *)
Open == [buf |-> <<>>, closes |-> 0]

ChannelsOpen ==
  /\ \A j \in Jobs : chan[j].closes <= 1
  /\ \A n \in Jobs : Unborn(n) => chan[n] = Open
  /\ \A e \in Jobs : ent[e].ch # 0 => chan[ent[e].ch] = Open
  /\ \A t \in Threads : op[t].at = "deliver" /\ op[t].ch # 0 =>
       /\ chan[op[t].ch] = Open
       /\ op[t].ch \in added
       /\ \A e \in Jobs : ent[e].ch # op[t].ch
       /\ \A u \in Threads : op[u].at = "deliver" /\ op[u].ch = op[t].ch => u = t

(* Callbacks: t has yet to call, or to drop, the callback of entry e.      *)
Busy(t, e) ==
  \/ op[t].at \in {"deliver", "remove"} /\ op[t].n = e
  \/ e \in op[t].left

Active(e) ==
  \/ \E s \in Stores, i \in Ids : stores[s][i] = e
  \/ \E t \in Threads : Busy(t, e)

(* The job of entry e still waits for its result, with its callback.       *)
Waits(e) ==
  /\ ent[e].job \in added /\ ent[e].job \notin removed
  /\ calls[ent[e].job] = <<>>
  /\ ent[e].cb = IF opt[ent[e].job].cb THEN ent[e].job ELSE 0

Accounted(j) ==
  \/ \E e \in Jobs : Active(e) /\ ent[e].job = j
  \/ calls[j] # <<>>
  \/ j \in removed

Settled == OneShots =>
  /\ \A e \in Jobs : Active(e) => Waits(e)
  /\ \A t \in Threads : op[t].at = "deliver" => op[t].cb = ent[op[t].n].cb
  /\ \A j \in added : opt[j].cb => Accounted(j)
  /\ \A j \in Jobs : Len(calls[j]) <= 1 /\ (j \in removed => calls[j] = <<>>)
  /\ \A n \in Jobs : Unborn(n) => calls[n] = <<>> /\ n \notin removed

(* Watchers: an entry has the stop functions of its own job's watchers, an  *)
(* armed one is within reach of whoever ends its job, and the watchers of a *)
(* one-shot job in a store have not been stopped.                           *)
InStore(e) == \E s \in Stores, i \in Ids : stores[s][i] = e

Reached(w, e) == ent[e].stop[w[1]] = w[2] /\ Active(e) /\ pool[e] = 0

StopFields == \A e \in Jobs, k \in Kinds : ent[e].stop[k] \in {0, ent[e].job}

Running ==
  \A e \in Jobs, k \in Kinds : InStore(e) /\ ent[e].stop[k] # 0 /\ ~ent[e].keep =>
    watch[<<k, ent[e].stop[k]>>] # "stopped"

Timers ==
  /\ StopFields /\ Running
  /\ \A w \in Watchers : watch[w] = "armed" => \E e \in Jobs : Reached(w, e)

(* Close: nothing is tracked in the store in use once the manager is       *)
(* closed, nor in a store that SetStore has not installed yet.             *)
StoresClosed ==
  /\ \A s \in Stores : s > cur => \A i \in Ids : stores[s][i] = 0
  /\ closed => \A i \in Ids : stores[cur][i] = 0

-----------------------------------------------------------------------------
(* What the operators return.                                              *)

(* The bounds are numbers.                                                  *)
LEMMA Bounds == MaxJobs \in Nat /\ MaxOps \in Nat /\ MaxSwaps \in Nat
BY JobsAssumption

(* A number that is not 0, which is nil, names a job and its entry.         *)
LEMMA JobNames ==
  /\ \A j : j \in Jobs <=> j \in 0..MaxJobs /\ j # 0
  /\ Jobs \subseteq Nat
BY Bounds DEF Jobs

(* The goroutines of AfterFunc are not callers, and know their job.         *)
LEMMA ThreadNames ==
  /\ Procs \cap Watchers = {} /\ Threads = Procs \cup Watchers
  /\ \A k \in Kinds, j \in Jobs : <<k, j>> \in Watchers
  /\ \A w \in Watchers : w[1] \in Kinds /\ w[2] \in Jobs /\ w = <<w[1], w[2]>>
BY JobsAssumption DEF Watchers, Threads, Jobs

(* What the functions of a watcher have captured is an id.                  *)
LEMMA IdNames == ASSUME TypeOK PROVE \A w \in Watchers : under[w[2]] \in Ids
BY ThreadNames DEF TypeOK

(* What a program adds its jobs with are options.                           *)
LEMMA OptionNames ==
  ASSUME program \in Programs, NEW o \in program PROVE o \in Options
BY JobsAssumption

(* The records the actions write, and the fields that are read back.        *)
LEMMA RecordTypes ==
  /\ Idle \in Operations /\ Idle.left = {} /\ Idle.at = "idle"
  /\ Blank \in Entries /\ NoOptions \in Options /\ ~Blank.keep
  /\ \A n \in Jobs, o \in Options :
       Filled(n, o) \in Entries /\ Filled(n, o).keep = o.keep
  /\ \A at \in {"cancel", "close"}, err \in Errs, left \in SUBSET Jobs :
       /\ Pending(at, err, left) \in Operations
       /\ Pending(at, err, left).left = left
       /\ Pending(at, err, left).at \in {at, "idle"}
       /\ Pending(at, err, left).at = "idle" => left = {}
<1> USE Bounds DEF Operations, Entries, Idle, Blank, Options, NoOptions, Places, Errs, Kinds
<1>1. Idle \in Operations /\ Idle.left = {} /\ Idle.at = "idle"
  OBVIOUS
<1>2. Blank \in Entries /\ NoOptions \in Options /\ ~Blank.keep
  OBVIOUS
<1>3. ASSUME NEW n \in Jobs, NEW o \in Options
      PROVE  Filled(n, o) \in Entries /\ Filled(n, o).keep = o.keep
  BY JobNames DEF Filled
<1>4. ASSUME NEW at \in {"cancel", "close"}, NEW err \in Errs, NEW left \in SUBSET Jobs
      PROVE  /\ Pending(at, err, left) \in Operations
             /\ Pending(at, err, left).left = left
             /\ Pending(at, err, left).at \in {at, "idle"}
             /\ Pending(at, err, left).at = "idle" => left = {}
  <2>1. CASE at = "cancel" /\ left = {}
    BY <2>1 DEF Pending
  <2>2. CASE ~(at = "cancel" /\ left = {})
    <3>1. Pending(at, err, left) =
            [at |-> at, n |-> 0, ch |-> 0, cb |-> 0, err |-> err, left |-> left]
      BY <2>2 DEF Pending
    <3> QED BY <3>1
  <2> QED BY <2>1, <2>2
<1> QED BY <1>1, <1>2, <1>3, <1>4

(* store.Delete, when it works.                                             *)
LEMMA DeleteExact ==
  ASSUME DeletesWork, TypeOK, NEW S \in SUBSET Ids, Delete(S)
  PROVE  /\ stores' \in [Stores -> [Ids -> 0..MaxJobs]]
         /\ \A s \in Stores, i \in Ids :
              stores'[s][i] = IF s = cur /\ i \in S THEN 0 ELSE stores[s][i]
<1>1. stores' = [stores EXCEPT ![cur] = [i \in Ids |-> IF i \in S THEN 0 ELSE @[i]]]
  BY DEF Delete, DeletesWork
<1>2. stores \in [Stores -> [Ids -> 0..MaxJobs]] /\ cur \in Stores
  BY DEF TypeOK
<1>3. [i \in Ids |-> IF i \in S THEN 0 ELSE stores[cur][i]] \in [Ids -> 0..MaxJobs]
  BY <1>2, Bounds
<1> QED BY <1>1, <1>2, <1>3

(* Types of what stopping, closing, calling, clearing and recycling leave.  *)
LEMMA OperatorTypes ==
  ASSUME TypeOK
  PROVE  /\ \A e : Stopped(e) \in [Watchers -> WatchStates]
         /\ \A e : \A w \in Watchers :
              \/ Stopped(e)[w] = watch[w]
              \/ watch[w] = "armed" /\ Stopped(e)[w] = "stopped"
         /\ \A j : Close0(j) \in [Jobs -> Channels]
         /\ \A j, err : err \in Errs => Called(j, err) \in [Jobs -> Seq(Errs)]
         /\ \A e \in Jobs : Cleared(e) \in [Jobs -> Entries]
         /\ \A e \in Jobs : Put(e) \in [Jobs -> Nat]
<1>1. \A e : /\ Stopped(e) \in [Watchers -> WatchStates]
             /\ \A w \in Watchers :
                  \/ Stopped(e)[w] = watch[w]
                  \/ watch[w] = "armed" /\ Stopped(e)[w] = "stopped"
  BY DEF Stopped, TypeOK, WatchStates
<1>2. \A j : Close0(j) \in [Jobs -> Channels]
  <2>1. \A c \in Channels : [c EXCEPT !.closes = @ + 1] \in Channels
    BY DEF Channels
  <2> QED BY <2>1 DEF Close0, TypeOK
<1>3. \A j, err : err \in Errs => Called(j, err) \in [Jobs -> Seq(Errs)]
  BY DEF Called, TypeOK
<1>4. \A e \in Jobs : Cleared(e) \in [Jobs -> Entries]
  <2> TAKE e \in Jobs
  <2>1. ent[e].keep \in BOOLEAN
    BY DEF TypeOK, Entries
  <2>2. \A b \in BOOLEAN : [Blank EXCEPT !.keep = b] \in Entries
    BY Bounds DEF Blank, Entries, Kinds
  <2> QED BY <2>1, <2>2 DEF Cleared, TypeOK
<1>5. \A e \in Jobs : Put(e) \in [Jobs -> Nat]
  BY DEF Put, TypeOK
<1> QED BY <1>1, <1>2, <1>3, <1>4, <1>5

(* A goroutine outside the manager.                                         *)
LEMMA IdleFields ==
  /\ Idle.at = "idle" /\ Idle.left = {} /\ Idle.n = 0 /\ Idle.ch = 0 /\ Idle.cb = 0
  /\ Idle.err = "nil"
BY DEF Idle

(* The locked section of ResolveContext keeps the types.                    *)
LEMMA TakeType ==
  ASSUME DeletesWork, TypeOK, NEW t \in Threads, NEW id \in Ids, NEW err \in Errs,
         Take(t, id, err)
  PROVE  /\ stores' \in [Stores -> [Ids -> 0..MaxJobs]]
         /\ ent' \in [Jobs -> Entries]
         /\ op' \in [Threads -> Operations]
         /\ stores[cur][id] \in Jobs
<1> DEFINE e == stores[cur][id]
<1>1. e \in Jobs
  BY JobNames DEF Take, TypeOK
<1>2. stores' \in [Stores -> [Ids -> 0..MaxJobs]]
  <2>1. CASE ent[e].keep
    BY <2>1 DEF Take, TypeOK
  <2>2. CASE ~ent[e].keep
    BY <2>2, DeleteExact DEF Take
  <2> QED BY <2>1, <2>2
<1>3. ent' \in [Jobs -> Entries]
  <2>1. \A f \in Entries : [f EXCEPT !.ch = 0] \in Entries
    BY Bounds DEF Entries
  <2>2. ent' = [ent EXCEPT ![e] = [ent[e] EXCEPT !.ch = 0]]
    BY DEF Take
  <2> HIDE DEF e
  <2> QED BY <1>1, <2>1, <2>2 DEF TypeOK
<1>4. op' \in [Threads -> Operations]
  <2>1. ent[e].ch \in 0..MaxJobs /\ ent[e].cb \in 0..MaxJobs
    BY <1>1 DEF TypeOK, Entries
  <2>2. [at |-> "deliver", n |-> e, ch |-> ent[e].ch, cb |-> ent[e].cb,
         err |-> err, left |-> {}] \in Operations
    BY <1>1, <2>1, JobNames DEF Operations, Places
  <2>3. op' = [op EXCEPT ![t] =
          [at |-> "deliver", n |-> e, ch |-> ent[e].ch, cb |-> ent[e].cb,
           err |-> err, left |-> {}]]
    BY DEF Take
  <2> HIDE DEF e
  <2> QED BY <2>2, <2>3 DEF TypeOK
<1> QED BY <1>1, <1>2, <1>3, <1>4

(* The locked section of CancelAllContext keeps the types.                  *)
LEMMA EvictType ==
  ASSUME DeletesWork, TypeOK, NEW p \in Threads, NEW at \in {"cancel", "close"},
         NEW err \in Errs, Evict(p, at, err)
  PROVE  /\ stores' \in [Stores -> [Ids -> 0..MaxJobs]]
         /\ op' \in [Threads -> Operations]
<1>1. PICK found \in {Stored} \cup (IF "getall" \in Faulty THEN {{}} ELSE {}) :
        /\ Delete(found)
        /\ op' = [op EXCEPT ![p] = Pending(at, err, {stores[cur][i] : i \in found})]
  BY DEF Evict
<1>2. found \in SUBSET Stored /\ found \in SUBSET Ids
  BY DEF Stored
<1>3. stores' \in [Stores -> [Ids -> 0..MaxJobs]]
  BY <1>1, <1>2, DeleteExact
<1>4. {stores[cur][i] : i \in found} \in SUBSET Jobs
  BY <1>2, JobNames DEF Stored, TypeOK
<1>5. op' \in [Threads -> Operations]
  BY <1>1, <1>4, RecordTypes DEF TypeOK
<1> QED BY <1>3, <1>5

(* Every step keeps the types; the pool is not asked for what it lacks.     *)
LEMMA TypeStep ==
  ASSUME DeletesWork, TypeOK, Shape, [Next]_vars
  PROVE  TypeOK'
<1> USE DEF history, control
<1>0. Procs \subseteq Threads /\ Watchers \subseteq Threads
  BY DEF Threads
<1>a. /\ op \in [Threads -> Operations] /\ stores \in [Stores -> [Ids -> 0..MaxJobs]]
      /\ ent \in [Jobs -> Entries] /\ watch \in [Watchers -> WatchStates]
      /\ pool \in [Jobs -> Nat] /\ cur \in Stores
  BY DEF TypeOK
<1>1. CASE SetStore
  <2>1. cur' \in Stores /\ ops' \in 0..MaxOps
    BY <1>1, Bounds DEF SetStore, Stores, TypeOK
  <2> QED BY <1>1, <2>1 DEF SetStore, TypeOK
<1>2. ASSUME NEW p \in Procs, NextID(p) PROVE TypeOK'
  <2>1. counter' \in 0..MaxJobs
    BY <1>2, Bounds DEF NextID, TypeOK
  <2>2. [op[p] EXCEPT !.at = "adding", !.n = counter + 1] \in Operations
    <3>1. counter + 1 \in 0..MaxJobs
      BY <1>2, <2>1 DEF NextID
    <3>2. op[p] \in Operations
      BY <1>0, <1>a
    <3> HIDE DEF history, control
    <3> QED BY <3>1, <3>2 DEF Operations, Places
  <2>3. op' \in [Threads -> Operations]
    BY <1>0, <1>2, <1>a, <2>2 DEF NextID
  <2> QED BY <1>2, <2>1, <2>3 DEF NextID, TypeOK
<1>3. ASSUME NEW p \in Procs, NEW id \in Ids, AddRefused(p, id) PROVE TypeOK'
  <2>1. op' \in [Threads -> Operations]
    BY <1>3, <1>a, RecordTypes DEF AddRefused
  <2> QED BY <1>3, <2>1 DEF AddRefused, TypeOK
<1>4. ASSUME NEW p \in Procs, NEW id \in Ids, NEW o \in program, NEW e \in Jobs,
             Add(p, id, o, e)
      PROVE  TypeOK'
  <2> DEFINE n == op[p].n
  <2>1. n \in Jobs /\ o \in Options
    <3>1. n \in 1..counter /\ counter \in 0..MaxJobs
      BY <1>0, <1>4 DEF Add, Admitted, Shape, TypeOK
    <3>2. n \in Jobs
      BY <3>1, Bounds DEF Jobs
    <3> QED BY <3>1, <3>2, JobNames, OptionNames DEF TypeOK
  <2>2. op' \in [Threads -> Operations]
    BY <1>4, <1>a, RecordTypes DEF Add, Admitted
  <2>3. pool' \in [Jobs -> Nat]
    <3>1. e = n \/ pool[e] > 0
      BY <1>4 DEF Add, Available
    <3> QED BY <1>4, <1>a, <3>1 DEF Add
  <2>4. ent' \in [Jobs -> Entries] /\ opt' \in [Jobs -> Options] /\ added' \subseteq Jobs
    BY <1>4, <2>1, RecordTypes DEF Add, TypeOK
  <2>5. watch' \in [Watchers -> WatchStates]
    BY <1>4, <1>a DEF Add, WatchStates
  <2>6. stores' \in [Stores -> [Ids -> 0..MaxJobs]]
    <3>1. stores' = [stores EXCEPT ![cur] = [stores[cur] EXCEPT ![id] = e]]
      BY <1>4 DEF Add
    <3>2. [stores[cur] EXCEPT ![id] = e] \in [Ids -> 0..MaxJobs]
      BY <1>a, JobNames
    <3> QED BY <1>a, <3>1, <3>2
  <2> QED BY <1>4, <2>2, <2>3, <2>4, <2>5, <2>6 DEF Add, TypeOK
<1>5. ASSUME NEW p \in Procs, NEW id \in Ids, NEW o \in program, NEW e \in Jobs,
             NEW late \in SUBSET o.watch, AddFailed(p, id, o, e, late)
      PROVE  TypeOK'
  <2> DEFINE n == op[p].n
  <2>1. n \in Jobs /\ o \in Options
    <3>1. n \in 1..counter /\ counter \in 0..MaxJobs
      BY <1>0, <1>5 DEF AddFailed, Admitted, Shape, TypeOK
    <3> QED BY <3>1, Bounds, OptionNames DEF Jobs, TypeOK
  <2>2. op' \in [Threads -> Operations]
    BY <1>5, <1>a, RecordTypes DEF AddFailed, Admitted
  <2>3. pool' \in [Jobs -> Nat]
    BY <1>5, <1>a, OperatorTypes DEF AddFailed
  <2>4. ent' \in [Jobs -> Entries]
    BY <1>5, <1>a, <2>1, RecordTypes DEF AddFailed
  <2>5. watch' \in [Watchers -> WatchStates]
    BY <1>5, <1>a DEF AddFailed, WatchStates
  <2> QED BY <1>5, <2>2, <2>3, <2>4, <2>5 DEF AddFailed, TypeOK
<1>6. ASSUME NEW p \in Procs, NEW id \in Ids, Resolve(p, id) PROVE TypeOK'
  <2>1. Take(p, id, "nil") /\ "nil" \in Errs
    BY <1>6 DEF Resolve, Errs
  <2>2. ops' \in 0..MaxOps
    BY <1>6, Bounds DEF Resolve, Begin, TypeOK
  <2>3. /\ stores' \in [Stores -> [Ids -> 0..MaxJobs]]
        /\ ent' \in [Jobs -> Entries] /\ op' \in [Threads -> Operations]
    BY <1>0, <2>1, TakeType
  <2> QED BY <1>6, <2>2, <2>3 DEF Resolve, TypeOK
<1>7. ASSUME NEW p \in Procs, NEW id \in Ids, Remove(p, id) PROVE TypeOK'
  <2> DEFINE e == stores[cur][id]
  <2>1. e \in 0..MaxJobs
    BY <1>a
  <2>2. stores' \in [Stores -> [Ids -> 0..MaxJobs]]
    BY <1>7, DeleteExact DEF Remove
  <2>3. [Idle EXCEPT !.at = "remove", !.n = e] \in Operations
    <3> HIDE DEF e
    <3> QED BY <2>1, RecordTypes DEF Operations, Places
  <2>4. op' \in [Threads -> Operations]
    BY <1>7, <1>a, <2>3 DEF Remove
  <2>5. ops' \in 0..MaxOps
    BY <1>7, Bounds DEF Remove, Begin, TypeOK
  <2> QED BY <1>7, <2>2, <2>4, <2>5 DEF Remove, TypeOK
<1>8. ASSUME NEW p \in Procs, RemoveFinish(p) PROVE TypeOK'
  <2>1. op[p].n \in Jobs
    BY <1>0, <1>8, <1>a, JobNames DEF RemoveFinish, Shape, Working, Operations
  <2>2. ent[op[p].n].job \in 0..MaxJobs
    BY <1>a, <2>1 DEF Entries
  <2>3. /\ watch' \in [Watchers -> WatchStates] /\ chan' \in [Jobs -> Channels]
        /\ ent' \in [Jobs -> Entries] /\ pool' \in [Jobs -> Nat]
    BY <1>8, <2>1, OperatorTypes DEF RemoveFinish
  <2>4. op' \in [Threads -> Operations]
    BY <1>8, <1>a, RecordTypes DEF RemoveFinish
  <2> QED BY <1>8, <2>2, <2>3, <2>4 DEF RemoveFinish, TypeOK
<1>9. ASSUME NEW p \in Procs, CancelAll(p) PROVE TypeOK'
  <2>1. stores' \in [Stores -> [Ids -> 0..MaxJobs]] /\ op' \in [Threads -> Operations]
    BY <1>0, <1>9, EvictType DEF CancelAll, Errs
  <2>2. ops' \in 0..MaxOps
    BY <1>9, Bounds DEF CancelAll, Begin, TypeOK
  <2> QED BY <1>9, <2>1, <2>2 DEF CancelAll, TypeOK
<1>10. ASSUME NEW p \in Procs, Close(p) PROVE TypeOK'
  <2>1. stores' \in [Stores -> [Ids -> 0..MaxJobs]] /\ op' \in [Threads -> Operations]
    BY <1>0, <1>10, EvictType DEF Close, Errs
  <2>2. ops' \in 0..MaxOps
    BY <1>10, Bounds DEF Close, Begin, TypeOK
  <2> QED BY <1>10, <2>1, <2>2 DEF Close, TypeOK
<1>11. ASSUME NEW p \in Procs, CloseMark(p) PROVE TypeOK'
  <2>1. CASE closed /\ op' = [op EXCEPT ![p] = Idle] /\ UNCHANGED stores
    BY <1>11, <1>a, <2>1, RecordTypes DEF CloseMark, TypeOK
  <2>2. CASE ~closed /\ Evict(p, "cancel", "closed")
    <3>1. stores' \in [Stores -> [Ids -> 0..MaxJobs]] /\ op' \in [Threads -> Operations]
      BY <1>0, <2>2, EvictType DEF Errs
    <3> QED BY <1>11, <3>1 DEF CloseMark, TypeOK
  <2> QED BY <1>11, <2>1, <2>2 DEF CloseMark
<1>12. ASSUME NEW p \in Procs, NEW e \in Jobs, ClosePending(p, e) PROVE TypeOK'
  <2>1. op[p].err \in Errs /\ op[p].left \ {e} \in SUBSET Jobs
    BY <1>0, <1>a DEF Operations
  <2>2. Pending(op[p].at, op[p].err, op[p].left \ {e}) \in Operations
    BY <1>12, <2>1, RecordTypes DEF ClosePending
  <2>3. op' \in [Threads -> Operations]
    BY <1>12, <1>a, <2>2 DEF ClosePending
  <2>4. /\ watch' \in [Watchers -> WatchStates] /\ chan' \in [Jobs -> Channels]
        /\ ent' \in [Jobs -> Entries] /\ pool' \in [Jobs -> Nat]
        /\ calls' \in [Jobs -> Seq(Errs)]
    BY <1>12, <2>1, OperatorTypes DEF ClosePending
  <2> QED BY <1>12, <2>3, <2>4 DEF ClosePending, TypeOK
<1>13. ASSUME NEW w \in Watchers, Fire(w) PROVE TypeOK'
  <2>1. watch' \in [Watchers -> WatchStates]
    BY <1>13, <1>a DEF Fire, WatchStates
  <2> QED BY <1>13, <2>1 DEF Fire, TypeOK
<1>14. ASSUME NEW w \in Watchers, FiredResolve(w) PROVE TypeOK'
  <2>1. watch' \in [Watchers -> WatchStates]
    BY <1>14, <1>a DEF FiredResolve, WatchStates
  <2>2. /\ stores' \in [Stores -> [Ids -> 0..MaxJobs]]
        /\ ent' \in [Jobs -> Entries]
        /\ op' \in [Threads -> Operations]
    <3>1. under[w[2]] \in Ids
      BY IdNames
    <3>2. CASE Take(w, under[w[2]], IF w[1] = "timer" THEN "timeout" ELSE "cancelled")
      <4>1. (IF w[1] = "timer" THEN "timeout" ELSE "cancelled") \in Errs
        BY DEF Errs
      <4> QED BY <1>0, <3>1, <3>2, <4>1, TakeType
    <3>3. CASE UNCHANGED <<stores, ent, op>>
      BY <1>a, <3>3
    <3> QED BY <1>14, <3>2, <3>3 DEF FiredResolve
  <2> QED BY <1>14, <2>1, <2>2 DEF FiredResolve, TypeOK
<1>15. ASSUME NEW t \in Threads, Deliver(t) PROVE TypeOK'
  <2>1. op[t] \in Operations /\ op[t].err \in Errs
    BY <1>a DEF Operations
  <2>2. [op[t] EXCEPT !.at = "recycle"] \in Operations
    BY <2>1 DEF Operations, Places
  <2>3. \A c \in Channels :
          [buf |-> Append(c.buf, op[t].err), closes |-> c.closes + 1] \in Channels
    BY <2>1 DEF Channels
  <2>4. chan' \in [Jobs -> Channels]
    BY <1>15, <2>3 DEF Deliver, TypeOK
  <2>5. op' \in [Threads -> Operations]
    BY <1>15, <1>a, <2>2 DEF Deliver
  <2>6. watch' \in [Watchers -> WatchStates] /\ calls' \in [Jobs -> Seq(Errs)]
    BY <1>15, <2>1, OperatorTypes DEF Deliver
  <2> QED BY <1>15, <2>4, <2>5, <2>6 DEF Deliver, TypeOK
<1>16. ASSUME NEW t \in Threads, Recycle(t) PROVE TypeOK'
  <2>1. op[t].n \in Jobs
    BY <1>16, <1>a, JobNames DEF Recycle, Shape, Working, Operations
  <2>2. \A c \in 0..MaxJobs : [Blank EXCEPT !.ch = c] \in Entries
    <3>1. \A b \in Entries, c \in 0..MaxJobs : [b EXCEPT !.ch = c] \in Entries
      BY DEF Entries
    <3> QED BY <3>1, RecordTypes
  <2>3. ent[op[t].n].ch \in 0..MaxJobs
    BY <1>a, <2>1 DEF Entries
  <2>4. ent' \in [Jobs -> Entries] /\ pool' \in [Jobs -> Nat]
    BY <1>16, <1>a, <2>1, <2>2, <2>3, OperatorTypes DEF Recycle
  <2>5. op' \in [Threads -> Operations]
    BY <1>16, <1>a, RecordTypes DEF Recycle
  <2> QED BY <1>16, <2>4, <2>5 DEF Recycle, TypeOK
<1>17. ASSUME NEW w \in Waiters, NEW id \in Ids, WaitFor(w, id) PROVE TypeOK'
  <2>1. stores[cur][id] \in Jobs
    BY <1>17, <1>a, JobNames DEF WaitFor
  <2>2. ent[stores[cur][id]].ch \in 0..MaxJobs
    BY <1>a, <2>1 DEF Entries
  <2>3. wait' \in [Waiters -> 0..MaxJobs]
    BY <1>17, <2>2 DEF WaitFor, TypeOK
  <2> QED BY <1>17, <2>3 DEF WaitFor, TypeOK
<1>18. ASSUME NEW w \in Waiters, WaitReceive(w) PROVE TypeOK'
  <2>1. \A c \in Channels : c.buf # <<>> => [c EXCEPT !.buf = Tail(@)] \in Channels
    <3> SUFFICES ASSUME NEW c \in Channels, c.buf # <<>>
                 PROVE  [c EXCEPT !.buf = Tail(@)] \in Channels
      OBVIOUS
    <3>1. c.buf \in Seq(Errs)
      BY DEF Channels
    <3>2. Tail(c.buf) \in Seq(Errs)
      BY <3>1
    <3> QED BY <3>2 DEF Channels
  <2>2. chan' \in [Jobs -> Channels]
    <3>1. wait[w] \in Jobs /\ chan \in [Jobs -> Channels]
      BY <1>18, JobNames DEF WaitReceive, TypeOK
    <3>2. CASE chan[wait[w]].buf # <<>> /\ chan' = [chan EXCEPT ![wait[w]].buf = Tail(@)]
      BY <2>1, <3>1, <3>2
    <3>3. CASE UNCHANGED chan
      BY <3>1, <3>3
    <3> QED BY <1>18, <3>2, <3>3 DEF WaitReceive
  <2>3. wait' \in [Waiters -> 0..MaxJobs]
    BY <1>18, Bounds DEF WaitReceive, TypeOK
  <2> QED BY <1>18, <2>2, <2>3 DEF WaitReceive, TypeOK
<1>19. ASSUME NEW w \in Waiters, WaitCancelled(w) PROVE TypeOK'
  <2>1. wait' \in [Waiters -> 0..MaxJobs]
    BY <1>19, Bounds DEF WaitCancelled, TypeOK
  <2> QED BY <1>19, <2>1 DEF WaitCancelled, TypeOK
<1>20. CASE UNCHANGED vars
  BY <1>20 DEF vars, TypeOK
<1> QED BY <1>1, <1>2, <1>3, <1>4, <1>5, <1>6, <1>7, <1>8, <1>9, <1>10, <1>11, <1>12,
           <1>13, <1>14, <1>15, <1>16, <1>17, <1>18, <1>19, <1>20 DEF Next

-----------------------------------------------------------------------------
(* What the actions do, variable by variable.                              *)

(* AddContext that is accepted (jobs.go:250-322).                           *)
LEMMA AddEffect ==
  ASSUME TypeOK, Shape, NEW p \in Procs, NEW id \in Ids, NEW o \in program, NEW e \in Jobs,
         Add(p, id, o, e)
  PROVE  LET n == op[p].n IN
         /\ op[p].at = "adding" /\ n \in Jobs /\ n <= counter /\ o \in Options
         /\ ~closed /\ stores[cur][id] = 0
         /\ e = n \/ pool[e] > 0
         /\ \A s \in Stores, i \in Ids :
              stores'[s][i] = IF s = cur /\ i = id THEN e ELSE stores[s][i]
         /\ pool'[e] = IF e = n THEN pool[e] ELSE pool[e] - 1
         /\ \A f \in Jobs : f # e => pool'[f] = pool[f]
         /\ ent'[e] = Filled(n, o)
         /\ \A f \in Jobs : f # e => ent'[f] = ent[f]
         /\ \A t \in Threads : op'[t] = IF t = p THEN Idle ELSE op[t]
         /\ \A w \in Watchers : watch'[w] =
              IF w[2] = n /\ w[1] \in o.watch THEN "armed" ELSE watch[w]
         /\ \A j \in Jobs : opt'[j] = IF j = n THEN o ELSE opt[j]
         /\ added' = added \cup {n}
         /\ UNCHANGED <<counter, closed, cur, program, chan, wait, ops, calls, removed>>
<1> DEFINE n == op[p].n
<1>1. /\ op[p].at = "adding" /\ n \in 1..counter /\ counter \in 0..MaxJobs
      /\ stores[cur][id] = 0 /\ ~closed
  BY DEF Add, Admitted, Shape, Threads, TypeOK
<1>2. n \in Jobs /\ n <= counter /\ o \in Options
  <2>1. n \in Jobs /\ n \in Nat /\ n <= counter
    BY <1>1, Bounds DEF Jobs
  <2>2. o \in Options
    BY OptionNames DEF TypeOK
  <2> QED BY <2>1, <2>2
<1>3. \A s \in Stores, i \in Ids :
        stores'[s][i] = IF s = cur /\ i = id THEN e ELSE stores[s][i]
  BY <1>2 DEF Add, TypeOK
<1>4. e = n \/ pool[e] > 0
  BY DEF Add, Available
<1>5. /\ pool'[e] = IF e = n THEN pool[e] ELSE pool[e] - 1
      /\ \A f \in Jobs : f # e => pool'[f] = pool[f]
  BY DEF Add, TypeOK
<1>6. ent'[e] = Filled(n, o) /\ \A f \in Jobs : f # e => ent'[f] = ent[f]
  BY DEF Add, TypeOK
<1>7. \A t \in Threads : op'[t] = IF t = p THEN Idle ELSE op[t]
  BY DEF Add, Admitted, TypeOK
<1>8. /\ \A w \in Watchers : watch'[w] =
           IF w[2] = n /\ w[1] \in o.watch THEN "armed" ELSE watch[w]
      /\ \A j \in Jobs : opt'[j] = IF j = n THEN o ELSE opt[j]
      /\ added' = added \cup {n}
      /\ UNCHANGED <<counter, closed, cur, program, chan, wait, ops, calls, removed>>
  BY DEF Add, TypeOK
<1> QED BY <1>1, <1>2, <1>3, <1>4, <1>5, <1>6, <1>7, <1>8

(* AddContext that store.Add refuses (jobs.go:306-318).                     *)
LEMMA AddFailedEffect ==
  ASSUME TypeOK, Shape, NEW p \in Procs, NEW id \in Ids, NEW o \in program, NEW e \in Jobs,
         NEW late \in SUBSET o.watch, AddFailed(p, id, o, e, late)
  PROVE  LET n == op[p].n IN
         /\ op[p].at = "adding" /\ n \in Jobs /\ n <= counter /\ o \in Options
         /\ e = n \/ pool[e] > 0
         /\ pool'[e] = IF e = n THEN pool[e] + 1 ELSE pool[e]
         /\ \A f \in Jobs : f # e => pool'[f] = pool[f]
         /\ ent'[e] = Filled(n, o)
         /\ \A f \in Jobs : f # e => ent'[f] = ent[f]
         /\ \A t \in Threads : op'[t] = IF t = p THEN Idle ELSE op[t]
         /\ \A w \in Watchers : w[2] # n => watch'[w] = watch[w]
         /\ \A w \in Watchers : watch'[w] # watch[w] => watch'[w] \in {"fired", "stopped"}
         /\ UNCHANGED <<history, counter, closed, cur, program, stores, chan, wait, ops>>
<1> DEFINE n == op[p].n
<1>1. op[p].at = "adding" /\ n \in 1..counter /\ counter \in 0..MaxJobs
  BY DEF AddFailed, Admitted, Shape, Threads, TypeOK
<1>2. n \in Jobs /\ n <= counter /\ o \in Options
  BY <1>1, Bounds, OptionNames DEF Jobs, TypeOK
<1>3. e = n \/ pool[e] > 0
  BY DEF AddFailed, Available
<1>4. /\ pool'[e] = IF e = n THEN pool[e] + 1 ELSE pool[e]
      /\ \A f \in Jobs : f # e => pool'[f] = pool[f]
  BY DEF AddFailed, Put, TypeOK
<1>5. ent'[e] = Filled(n, o) /\ \A f \in Jobs : f # e => ent'[f] = ent[f]
  BY DEF AddFailed, TypeOK
<1>6. \A t \in Threads : op'[t] = IF t = p THEN Idle ELSE op[t]
  BY DEF AddFailed, Admitted, TypeOK
<1>7. /\ \A w \in Watchers : w[2] # n => watch'[w] = watch[w]
      /\ \A w \in Watchers : watch'[w] # watch[w] => watch'[w] \in {"fired", "stopped"}
      /\ UNCHANGED <<history, counter, closed, cur, program, stores, chan, wait, ops>>
  BY DEF AddFailed, TypeOK
<1> QED BY <1>1, <1>2, <1>3, <1>4, <1>5, <1>6, <1>7

(* The locked section of ResolveContext (jobs.go:343-375).                  *)
LEMMA TakeEffect ==
  ASSUME DeletesWork, TypeOK, NEW t \in Threads, NEW id \in Ids, NEW err \in Errs,
         Take(t, id, err)
  PROVE  LET e == stores[cur][id] IN
         /\ e \in Jobs /\ ~closed
         /\ \A s \in Stores, i \in Ids :
              stores'[s][i] =
                IF ~ent[e].keep /\ s = cur /\ i = id THEN 0 ELSE stores[s][i]
         /\ \A f \in Jobs : ent'[f] = IF f = e THEN [ent[f] EXCEPT !.ch = 0] ELSE ent[f]
         /\ \A u \in Threads : op'[u] =
              IF u = t
              THEN [at |-> "deliver", n |-> e, ch |-> ent[e].ch, cb |-> ent[e].cb,
                    err |-> err, left |-> {}]
              ELSE op[u]
<1> DEFINE e == stores[cur][id]
<1>1. e \in Jobs /\ ~closed
  BY TakeType DEF Take
<1>2. \A s \in Stores, i \in Ids :
        stores'[s][i] = IF ~ent[e].keep /\ s = cur /\ i = id THEN 0 ELSE stores[s][i]
  <2>1. CASE ent[e].keep
    BY <2>1 DEF Take
  <2>2. CASE ~ent[e].keep
    BY <2>2, DeleteExact DEF Take
  <2> QED BY <2>1, <2>2
<1>3. \A f \in Jobs : ent'[f] = IF f = e THEN [ent[f] EXCEPT !.ch = 0] ELSE ent[f]
  BY DEF Take, TypeOK
<1>4. \A u \in Threads : op'[u] =
        IF u = t
        THEN [at |-> "deliver", n |-> e, ch |-> ent[e].ch, cb |-> ent[e].cb,
              err |-> err, left |-> {}]
        ELSE op[u]
  BY DEF Take, TypeOK
<1> QED BY <1>1, <1>2, <1>3, <1>4

(* The locked section of RemoveContext.                                     *)
LEMMA RemoveEffect ==
  ASSUME DeletesWork, TypeOK, NEW p \in Procs, NEW id \in Ids, Remove(p, id)
  PROVE  LET e == stores[cur][id] IN
         /\ e \in Jobs /\ op[p].at = "idle" /\ op[p].left = {}
         /\ \A s \in Stores, i \in Ids :
              stores'[s][i] = IF s = cur /\ i = id THEN 0 ELSE stores[s][i]
         /\ \A u \in Threads : u # p => op'[u] = op[u]
         /\ op'[p].at = "remove" /\ op'[p].n = e /\ op'[p].left = {}
         /\ UNCHANGED <<history, control, ent, pool, watch, chan, wait>>
<1> DEFINE e == stores[cur][id]
<1>1. e \in Jobs /\ op[p].at = "idle" /\ op[p].left = {}
  BY JobNames DEF Remove, Begin, Idle, TypeOK
<1>2. \A s \in Stores, i \in Ids :
        stores'[s][i] = IF s = cur /\ i = id THEN 0 ELSE stores[s][i]
  BY DeleteExact DEF Remove
<1>3. /\ \A u \in Threads : u # p => op'[u] = op[u]
      /\ op'[p] = [Idle EXCEPT !.at = "remove", !.n = e]
  BY DEF Remove, TypeOK, Threads
<1>4. op'[p].at = "remove" /\ op'[p].n = e /\ op'[p].left = {}
  BY <1>3 DEF Idle
<1> QED BY <1>1, <1>2, <1>3, <1>4 DEF Remove

(* What clearing an entry leaves of it.                                     *)
LEMMA ClearedFields ==
  ASSUME TypeOK, NEW e \in Jobs, ent' = Cleared(e)
  PROVE  /\ \A f \in Jobs : f # e => ent'[f] = ent[f]
         /\ ent'[e].job = 0 /\ ent'[e].cb = 0 /\ ent'[e].ch = 0
         /\ ent'[e].keep = ent[e].keep
         /\ \A k \in Kinds : ent'[e].stop[k] = 0
<1>1. \A f \in Jobs : f # e => ent'[f] = ent[f]
  BY DEF Cleared, TypeOK
<1>2. ent'[e] = [Blank EXCEPT !.keep = ent[e].keep]
  BY DEF Cleared, TypeOK
<1>3. ent[e].keep \in BOOLEAN
  BY DEF TypeOK, Entries
<1>4. \A b \in BOOLEAN : /\ [Blank EXCEPT !.keep = b].keep = b
                         /\ [Blank EXCEPT !.keep = b].job = 0
                         /\ [Blank EXCEPT !.keep = b].cb = 0
                         /\ [Blank EXCEPT !.keep = b].ch = 0
                         /\ \A k \in Kinds : [Blank EXCEPT !.keep = b].stop[k] = 0
  BY DEF Blank
<1> QED BY <1>1, <1>2, <1>3, <1>4

(* RemoveContext after it has unlocked.                                     *)
LEMMA RemoveFinishEffect ==
  ASSUME TypeOK, Shape, NEW p \in Procs, RemoveFinish(p)
  PROVE  LET e == op[p].n IN
         /\ e \in Jobs /\ op[p].at = "remove" /\ op[p].left = {}
         /\ watch' = Stopped(e) /\ chan' = Close0(ent[e].ch)
         /\ \A f \in Jobs : f # e => ent'[f] = ent[f] /\ pool'[f] = pool[f]
         /\ pool'[e] = pool[e] + 1
         /\ ent'[e].job = 0 /\ ent'[e].cb = 0 /\ ent'[e].ch = 0
         /\ ent'[e].keep = ent[e].keep
         /\ \A k \in Kinds : ent'[e].stop[k] = 0
         /\ removed' = removed \cup {ent[e].job}
         /\ \A t \in Threads : op'[t] = IF t = p THEN Idle ELSE op[t]
         /\ UNCHANGED <<control, stores, wait, ops, opt, added, calls>>
<1> DEFINE e == op[p].n
<1>1. e \in Jobs /\ op[p].at = "remove" /\ op[p].left = {}
  BY JobNames DEF RemoveFinish, Shape, Working, TypeOK, Threads, Operations
<1>2. /\ \A f \in Jobs : f # e => ent'[f] = ent[f]
      /\ ent'[e].job = 0 /\ ent'[e].cb = 0 /\ ent'[e].ch = 0
      /\ ent'[e].keep = ent[e].keep
      /\ \A k \in Kinds : ent'[e].stop[k] = 0
  BY <1>1, ClearedFields DEF RemoveFinish
<1>3. pool'[e] = pool[e] + 1 /\ \A f \in Jobs : f # e => pool'[f] = pool[f]
  BY <1>1 DEF RemoveFinish, Put, TypeOK
<1>4. \A t \in Threads : op'[t] = IF t = p THEN Idle ELSE op[t]
  BY DEF RemoveFinish, TypeOK
<1> QED BY <1>1, <1>2, <1>3, <1>4 DEF RemoveFinish

(* The locked section of CancelAllContext and of Close.                     *)
LEMMA EvictEffect ==
  ASSUME DeletesWork, TypeOK, NEW p \in Threads, NEW at \in {"cancel", "close"},
         NEW err \in Errs, Evict(p, at, err)
  PROVE  \E found \in SUBSET Stored :
         /\ "getall" \notin Faulty => found = Stored
         /\ \A s \in Stores, i \in Ids :
              stores'[s][i] = IF s = cur /\ i \in found THEN 0 ELSE stores[s][i]
         /\ \A u \in Threads : u # p => op'[u] = op[u]
         /\ op'[p].at \in {"idle", "cancel", "close"} /\ op'[p].err \in {"nil", err}
         /\ op'[p].at = "idle" => op'[p].left = {}
         /\ op'[p].left \in SUBSET Jobs
         /\ \A e \in Jobs : e \in op'[p].left <=> \E i \in found : stores[cur][i] = e
<1>1. PICK found \in {Stored} \cup (IF "getall" \in Faulty THEN {{}} ELSE {}) :
        /\ Delete(found)
        /\ op' = [op EXCEPT ![p] = Pending(at, err, {stores[cur][i] : i \in found})]
  BY DEF Evict
<1>2. found \in SUBSET Stored /\ found \in SUBSET Ids /\ ("getall" \notin Faulty => found = Stored)
  BY DEF Stored
<1>3. \A s \in Stores, i \in Ids :
        stores'[s][i] = IF s = cur /\ i \in found THEN 0 ELSE stores[s][i]
  BY <1>1, <1>2, DeleteExact
<1> DEFINE left == {stores[cur][i] : i \in found}
<1>4. left \in SUBSET Jobs
  BY <1>2, JobNames DEF Stored, TypeOK
<1>5. op'[p] = Pending(at, err, left) /\ \A u \in Threads : u # p => op'[u] = op[u]
  BY <1>1 DEF TypeOK
<1>6. Pending(at, err, left).err \in {"nil", err}
  BY DEF Pending, Idle
<1>7. /\ Pending(at, err, left).left = left
      /\ Pending(at, err, left).at \in {at, "idle"}
      /\ Pending(at, err, left).at = "idle" => left = {}
  <2> HIDE DEF left
  <2> QED BY <1>4, RecordTypes
<1>8. \A e : e \in left <=> \E i \in found : stores[cur][i] = e
  OBVIOUS
<1> HIDE DEF left
<1>9. /\ op'[p].at \in {"idle", "cancel", "close"} /\ op'[p].err \in {"nil", err}
      /\ op'[p].at = "idle" => op'[p].left = {}
      /\ op'[p].left = left
  BY <1>5, <1>6, <1>7
<1> WITNESS found \in SUBSET Stored
<1> QED BY <1>2, <1>3, <1>4, <1>5, <1>8, <1>9

(* One iteration of closePending.                                           *)
LEMMA ClosePendingEffect ==
  ASSUME TypeOK, NEW p \in Procs, NEW e \in Jobs, ClosePending(p, e)
  PROVE  /\ op[p].at \in {"cancel", "close"} /\ e \in op[p].left /\ op[p].err \in Errs
         /\ watch' = Stopped(e) /\ chan' = Close0(ent[e].ch)
         /\ calls' = Called(ent[e].cb, op[p].err)
         /\ \A f \in Jobs : f # e => ent'[f] = ent[f] /\ pool'[f] = pool[f]
         /\ pool'[e] = pool[e] + 1
         /\ ent'[e].job = 0 /\ ent'[e].cb = 0 /\ ent'[e].ch = 0
         /\ ent'[e].keep = ent[e].keep
         /\ \A k \in Kinds : ent'[e].stop[k] = 0
         /\ \A t \in Threads : t # p => op'[t] = op[t]
         /\ op'[p].at \in {"idle", "cancel", "close"}
         /\ op'[p].left = op[p].left \ {e}
         /\ op'[p].at = "idle" => op'[p].left = {}
         /\ op'[p].err \in {"nil", op[p].err}
         /\ UNCHANGED <<control, stores, wait, ops, opt, added, removed>>
<1>1. op[p].at \in {"cancel", "close"} /\ e \in op[p].left
  BY DEF ClosePending
<1>2. op[p].err \in Errs /\ op[p].left \in SUBSET Jobs
  BY DEF TypeOK, Operations, Threads
<1>3. /\ \A f \in Jobs : f # e => ent'[f] = ent[f]
      /\ ent'[e].job = 0 /\ ent'[e].cb = 0 /\ ent'[e].ch = 0
      /\ ent'[e].keep = ent[e].keep
      /\ \A k \in Kinds : ent'[e].stop[k] = 0
  BY <1>1, ClearedFields DEF ClosePending
<1>4. pool'[e] = pool[e] + 1 /\ \A f \in Jobs : f # e => pool'[f] = pool[f]
  BY <1>1 DEF ClosePending, Put, TypeOK
<1>5. /\ \A t \in Threads : t # p => op'[t] = op[t]
      /\ op'[p] = Pending(op[p].at, op[p].err, op[p].left \ {e})
  BY DEF ClosePending, TypeOK, Threads
<1>6. op[p].left \ {e} \in SUBSET Jobs
  BY <1>2
<1>7. /\ op'[p].at \in {"idle", "cancel", "close"}
      /\ op'[p].left = op[p].left \ {e}
      /\ op'[p].at = "idle" => op'[p].left = {}
  BY <1>1, <1>2, <1>5, <1>6, RecordTypes
<1>8. op'[p].err \in {"nil", op[p].err}
  BY <1>5, IdleFields DEF Pending
<1> QED BY <1>1, <1>2, <1>3, <1>4, <1>5, <1>7, <1>8 DEF ClosePending

(* ResolveContext from its unlock to the call of the callback.              *)
LEMMA DeliverEffect ==
  ASSUME TypeOK, Shape, NEW t \in Threads, Deliver(t)
  PROVE  /\ op[t].at = "deliver" /\ op[t].n \in Jobs /\ op[t].left = {}
         /\ watch' = Stopped(op[t].n) /\ calls' = Called(op[t].cb, op[t].err)
         /\ \A u \in Threads : u # t => op'[u] = op[u]
         /\ op'[t].at = "recycle" /\ op'[t].n = op[t].n /\ op'[t].left = {}
         /\ UNCHANGED <<control, stores, ent, pool, wait, ops, opt, added, removed>>
<1>1. op[t] \in Operations /\ op[t].at = "deliver"
  BY DEF Deliver, TypeOK
<1>2. op[t].n \in Jobs /\ op[t].left = {}
  BY <1>1, JobNames DEF Shape, Working, Operations
<1>3. (\A u \in Threads : u # t => op'[u] = op[u]) /\ op'[t] = [op[t] EXCEPT !.at = "recycle"]
  BY DEF Deliver, TypeOK
<1>4. op'[t].at = "recycle" /\ op'[t].n = op[t].n /\ op'[t].left = {}
  BY <1>1, <1>2, <1>3 DEF Operations
<1> QED BY <1>1, <1>2, <1>3, <1>4 DEF Deliver

(* The end of ResolveContext: the entry goes back to the pool.              *)
LEMMA RecycleEffect ==
  ASSUME TypeOK, Shape, NEW t \in Threads, Recycle(t)
  PROVE  LET e == op[t].n IN
         /\ op[t].at = "recycle" /\ e \in Jobs /\ op[t].left = {}
         /\ \A f \in Jobs : f # e \/ ent[e].keep => ent'[f] = ent[f] /\ pool'[f] = pool[f]
         /\ ~ent[e].keep =>
              /\ pool'[e] = pool[e] + 1
              /\ ent'[e].job = 0 /\ ent'[e].cb = 0
              /\ ent'[e].ch = ent[e].ch /\ ent'[e].keep = ent[e].keep
              /\ \A k \in Kinds : ent'[e].stop[k] = 0
         /\ \A u \in Threads : op'[u] = IF u = t THEN Idle ELSE op[u]
         /\ UNCHANGED <<history, control, stores, watch, chan, wait, ops>>
<1> DEFINE e == op[t].n
<1>1. op[t] \in Operations /\ op[t].at = "recycle"
  BY DEF Recycle, TypeOK
<1>2. e \in Jobs /\ op[t].left = {}
  BY <1>1, JobNames DEF Shape, Working, Operations
<1>3. \A f \in Jobs : f # e \/ ent[e].keep => ent'[f] = ent[f] /\ pool'[f] = pool[f]
  BY DEF Recycle, Put, TypeOK
<1>4. ~ent[e].keep =>
        /\ pool'[e] = pool[e] + 1
        /\ ent'[e].job = 0 /\ ent'[e].cb = 0
        /\ ent'[e].ch = ent[e].ch /\ ent'[e].keep = ent[e].keep
        /\ \A k \in Kinds : ent'[e].stop[k] = 0
  <2> SUFFICES ASSUME ~ent[e].keep
               PROVE  /\ pool'[e] = pool[e] + 1
                      /\ ent'[e].job = 0 /\ ent'[e].cb = 0
                      /\ ent'[e].ch = ent[e].ch /\ ent'[e].keep = ent[e].keep
                      /\ \A k \in Kinds : ent'[e].stop[k] = 0
    OBVIOUS
  <2>1. ent' = [ent EXCEPT ![e] = [Blank EXCEPT !.ch = ent[e].ch]]
    BY DEF Recycle
  <2>2. ent'[e] = [Blank EXCEPT !.ch = ent[e].ch]
    BY <1>2, <2>1 DEF TypeOK
  <2>3. /\ ent'[e].job = 0 /\ ent'[e].cb = 0 /\ ent'[e].ch = ent[e].ch
        /\ ent'[e].keep = FALSE /\ \A k \in Kinds : ent'[e].stop[k] = 0
    BY <2>2 DEF Blank
  <2>4. pool'[e] = pool[e] + 1
    BY <1>2 DEF Recycle, Put, TypeOK
  <2>5. ent[e].keep \in BOOLEAN
    BY <1>2 DEF TypeOK, Entries
  <2> QED BY <2>3, <2>4, <2>5
<1>5. \A u \in Threads : op'[u] = IF u = t THEN Idle ELSE op[u]
  BY DEF Recycle, TypeOK
<1> QED BY <1>1, <1>2, <1>3, <1>4, <1>5 DEF Recycle

(* NextID gives the next number.                                            *)
LEMMA NextIDEffect ==
  ASSUME TypeOK, NEW p \in Procs, NextID(p)
  PROVE  /\ op[p] = Idle /\ counter' = counter + 1 /\ counter' \in Jobs
         /\ \A t \in Threads : t # p => op'[t] = op[t]
         /\ op'[p].at = "adding" /\ op'[p].n = counter + 1 /\ op'[p].left = {}
         /\ UNCHANGED <<history, closed, cur, stores, ent, pool, watch, chan, wait,
                        program, ops>>
<1>1. counter' \in Jobs
  BY Bounds DEF NextID, Jobs, TypeOK
<1>2. \A t \in Threads : t # p => op'[t] = op[t]
  BY DEF NextID, TypeOK
<1>3. op'[p] = [Idle EXCEPT !.at = "adding", !.n = counter + 1]
  BY DEF NextID, TypeOK, Threads
<1>4. op'[p].at = "adding" /\ op'[p].n = counter + 1 /\ op'[p].left = {}
  BY <1>3 DEF Idle
<1> QED BY <1>1, <1>2, <1>4 DEF NextID

(* The Resolve of a timer or of a context.                                  *)
LEMMA FiredResolveEffect ==
  ASSUME DeletesWork, TypeOK, NEW w \in Watchers, FiredResolve(w)
  PROVE  LET id == under[w[2]]
             err == IF w[1] = "timer" THEN "timeout" ELSE "cancelled"
         IN
         /\ id \in Ids /\ err \in Errs /\ watch[w] = "fired"
         /\ \A v \in Watchers : watch'[v] = IF v = w THEN "done" ELSE watch[v]
         /\ Take(w, id, err) \/ UNCHANGED <<stores, ent, op>>
         /\ UNCHANGED <<history, control, pool, chan, wait, ops>>
<1>1. under[w[2]] \in Ids
  BY IdNames
<1> QED BY <1>1 DEF FiredResolve, TypeOK, Errs

-----------------------------------------------------------------------------
(* The steps, grouped by what they do to entries and jobs.                 *)

WatchKept ==
  \A w \in Watchers : watch[w] \in {"none", "done"} => watch'[w] = watch[w]

(* Watchers fire and resolve, and none is armed or stopped.                *)
Fires ==
  \A w \in Watchers : watch'[w] # watch[w] => watch'[w] \in {"fired", "done"}

(* Timers that fire, WaitFor, SetStore, a watcher that finds nothing.      *)
Quiet ==
  /\ UNCHANGED <<counter, program, stores, ent, pool, op, history>>
  /\ WatchKept /\ Fires
  /\ \A j \in Jobs : /\ chan'[j].closes = chan[j].closes
                     /\ chan[j].buf = <<>> => chan'[j] = chan[j]

(* An Add that is refused, and a Close of a manager that is closed.        *)
Ended(p) ==
  /\ op[p].at \in {"adding", "close"} /\ op[p].left = {}
  /\ \A t \in Threads : op'[t] = IF t = p THEN Idle ELSE op[t]
  /\ UNCHANGED <<counter, program, stores, ent, pool, watch, chan, history>>

(* The locked section of a Resolve that finds its job.                     *)
Taken(t, id, err) ==
  /\ Take(t, id, err)
  /\ op[t].at = "idle" /\ op[t].left = {}
  /\ UNCHANGED <<counter, program, pool, chan, history>>
  /\ WatchKept /\ Fires
  /\ t \in Watchers => watch'[t] = "done" /\ watch[t] = "fired"

(* The locked sections of CancelAll and Close.                             *)
Evicted(p, at, err) ==
  /\ Evict(p, at, err)
  /\ op[p].at \in {"idle", "close"} /\ op[p].left = {}
  /\ UNCHANGED <<counter, program, ent, pool, watch, chan, history>>

(* The locked section of a Resolve that finds its job, for any caller.      *)
LEMMA TakenEffect ==
  ASSUME DeletesWork, TypeOK, NEW t \in Threads, NEW id \in Ids, NEW err \in Errs,
         Taken(t, id, err)
  PROVE  LET e == stores[cur][id] IN
         /\ e \in Jobs /\ op[t].at = "idle" /\ op[t].left = {}
         /\ \A s \in Stores, i \in Ids :
              stores'[s][i] =
                IF ~ent[e].keep /\ s = cur /\ i = id THEN 0 ELSE stores[s][i]
         /\ \A f \in Jobs :
              /\ ent'[f].job = ent[f].job /\ ent'[f].cb = ent[f].cb
              /\ ent'[f].keep = ent[f].keep /\ ent'[f].stop = ent[f].stop
              /\ ent'[f].ch = IF f = e THEN 0 ELSE ent[f].ch
         /\ \A u \in Threads : u # t => op'[u] = op[u]
         /\ op'[t].at = "deliver" /\ op'[t].n = e /\ op'[t].ch = ent[e].ch
         /\ op'[t].cb = ent[e].cb /\ op'[t].err = err /\ op'[t].left = {}
         /\ UNCHANGED <<counter, program, pool, chan, history>>
<1> DEFINE e == stores[cur][id]
<1>1. Take(t, id, err)
  BY DEF Taken
<1>2. /\ e \in Jobs
      /\ \A s \in Stores, i \in Ids :
           stores'[s][i] =
             IF ~ent[e].keep /\ s = cur /\ i = id THEN 0 ELSE stores[s][i]
      /\ \A f \in Jobs : ent'[f] = IF f = e THEN [ent[f] EXCEPT !.ch = 0] ELSE ent[f]
      /\ \A u \in Threads : op'[u] =
           IF u = t
           THEN [at |-> "deliver", n |-> e, ch |-> ent[e].ch, cb |-> ent[e].cb,
                 err |-> err, left |-> {}]
           ELSE op[u]
  BY <1>1, TakeEffect
<1> HIDE DEF e
<1>3. \A f \in Entries :
        /\ [f EXCEPT !.ch = 0].job = f.job /\ [f EXCEPT !.ch = 0].cb = f.cb
        /\ [f EXCEPT !.ch = 0].keep = f.keep /\ [f EXCEPT !.ch = 0].ch = 0
        /\ [f EXCEPT !.ch = 0].stop = f.stop
  BY DEF Entries
<1>4. \A f \in Jobs :
        /\ ent'[f].job = ent[f].job /\ ent'[f].cb = ent[f].cb
        /\ ent'[f].keep = ent[f].keep /\ ent'[f].stop = ent[f].stop
        /\ ent'[f].ch = IF f = e THEN 0 ELSE ent[f].ch
  <2>1. \A f \in Jobs : ent[f] \in Entries
    BY DEF TypeOK
  <2>2. \A f \in Jobs : ent'[f] = IF f = e THEN [ent[f] EXCEPT !.ch = 0] ELSE ent[f]
    BY <1>2
  <2> QED BY <1>3, <2>1, <2>2
<1>5. op'[t] = [at |-> "deliver", n |-> e, ch |-> ent[e].ch, cb |-> ent[e].cb,
                err |-> err, left |-> {}]
  BY <1>2
<1>6. /\ op'[t].at = "deliver" /\ op'[t].n = e /\ op'[t].ch = ent[e].ch
      /\ op'[t].cb = ent[e].cb /\ op'[t].err = err /\ op'[t].left = {}
  BY <1>5
<1>7. /\ op[t].at = "idle" /\ op[t].left = {}
      /\ UNCHANGED <<counter, program, pool, chan, history>>
  BY DEF Taken
<1> QED BY <1>2, <1>4, <1>6, <1>7 DEF e

(* The locked sections of CancelAll and Close, for any caller.              *)
LEMMA EvictedEffect ==
  ASSUME DeletesWork, TypeOK, NEW p \in Procs, NEW at \in {"cancel", "close"},
         NEW err \in {"custom", "closed"}, Evicted(p, at, err)
  PROVE  /\ op[p].at \in {"idle", "close"} /\ op[p].left = {}
         /\ UNCHANGED <<counter, program, ent, pool, watch, chan, history>>
         /\ \A t \in Threads : t # p => op'[t] = op[t]
         /\ op'[p].at \in {"idle", "cancel", "close"}
         /\ op'[p].at = "idle" => op'[p].left = {}
         /\ op'[p].err \in {"nil", err} /\ op'[p].left \in SUBSET Jobs
         /\ \E found \in SUBSET Stored :
              /\ \A s \in Stores, i \in Ids :
                   stores'[s][i] = IF s = cur /\ i \in found THEN 0 ELSE stores[s][i]
              /\ \A e \in Jobs : e \in op'[p].left <=> \E i \in found : stores[cur][i] = e
<1>1. Evict(p, at, err) /\ err \in Errs /\ p \in Threads
  BY DEF Evicted, Errs, Threads
<1> QED BY <1>1, EvictEffect DEF Evicted

(* Stopping the watchers of an entry stops armed ones only.                 *)
LEMMA StoppedKept == \A e : watch' = Stopped(e) => WatchKept
BY DEF Stopped, WatchKept

(* The kinds of step there are, as far as the proofs tell them apart.       *)
LEMMA StepCases ==
  ASSUME DeletesWork, TypeOK, Shape, [Next]_vars
  PROVE  \/ Quiet
         \/ \E p \in Procs :
              \/ NextID(p) \/ Ended(p) \/ RemoveFinish(p)
              \/ \E id \in Ids, o \in program, e \in Jobs :
                   Add(p, id, o, e) \/ \E late \in SUBSET o.watch : AddFailed(p, id, o, e, late)
              \/ \E id \in Ids : Remove(p, id)
              \/ \E at \in {"cancel", "close"}, err \in {"custom", "closed"} :
                   Evicted(p, at, err)
              \/ \E e \in Jobs : ClosePending(p, e)
         \/ \E t \in Threads :
              \/ Deliver(t) \/ Recycle(t)
              \/ \E id \in Ids, err \in Errs : Taken(t, id, err)
<1> DEFINE Goal ==
         \/ Quiet
         \/ \E p \in Procs :
              \/ NextID(p) \/ Ended(p) \/ RemoveFinish(p)
              \/ \E id \in Ids, o \in program, e \in Jobs :
                   Add(p, id, o, e) \/ \E late \in SUBSET o.watch : AddFailed(p, id, o, e, late)
              \/ \E id \in Ids : Remove(p, id)
              \/ \E at \in {"cancel", "close"}, err \in {"custom", "closed"} :
                   Evicted(p, at, err)
              \/ \E e \in Jobs : ClosePending(p, e)
         \/ \E t \in Threads :
              \/ Deliver(t) \/ Recycle(t)
              \/ \E id \in Ids, err \in Errs : Taken(t, id, err)
<1> USE DEF history, control
<1>1. ASSUME UNCHANGED <<counter, program, stores, ent, pool, op, history, watch, chan>>
      PROVE  Quiet
  BY <1>1 DEF Quiet, WatchKept, Fires
<1>2. ASSUME NEW p \in Procs, NEW id \in Ids, AddRefused(p, id) PROVE Ended(p)
  BY <1>2 DEF AddRefused, Ended, Shape, TypeOK, Threads
<1>3. ASSUME NEW p \in Procs, NEW id \in Ids, Resolve(p, id) PROVE Taken(p, id, "nil")
  BY <1>3, IdleFields, ThreadNames DEF Resolve, Begin, Taken, WatchKept, Fires
<1>4. ASSUME NEW w \in Watchers, Fire(w) PROVE Quiet
  BY <1>4 DEF Fire, Quiet, WatchKept, Fires, TypeOK
<1>5. ASSUME NEW w \in Watchers, FiredResolve(w)
      PROVE  Quiet \/ \E id \in Ids, err \in Errs : Taken(w, id, err)
  <2> DEFINE id == under[w[2]]
             err == IF w[1] = "timer" THEN "timeout" ELSE "cancelled"
  <2>1. /\ id \in Ids /\ err \in Errs /\ watch[w] = "fired"
        /\ \A v \in Watchers : watch'[v] = IF v = w THEN "done" ELSE watch[v]
        /\ Take(w, id, err) \/ UNCHANGED <<stores, ent, op>>
        /\ UNCHANGED <<history, control, pool, chan, wait, ops>>
    BY <1>5, FiredResolveEffect
  <2>2. WatchKept /\ Fires
    BY <2>1 DEF WatchKept, Fires
  <2>3. CASE Take(w, id, err)
    <3>1. op[w].at = "idle" /\ op[w].left = {}
      BY <2>1 DEF Shape, Threads
    <3>2. Taken(w, id, err)
      BY <2>1, <2>2, <2>3, <3>1 DEF Taken
    <3> QED BY <2>1, <3>2
  <2>4. CASE UNCHANGED <<stores, ent, op>>
    BY <2>1, <2>2, <2>4 DEF Quiet
  <2> QED BY <2>1, <2>3, <2>4
<1>6. ASSUME NEW p \in Procs, CancelAll(p) \/ Close(p)
      PROVE  \E at \in {"cancel", "close"}, err \in {"custom", "closed"} : Evicted(p, at, err)
  BY <1>6, IdleFields DEF CancelAll, Close, Begin, Evicted
<1>7. ASSUME NEW p \in Procs, CloseMark(p)
      PROVE  \/ Ended(p)
             \/ \E at \in {"cancel", "close"}, err \in {"custom", "closed"} : Evicted(p, at, err)
  <2>1. CASE op' = [op EXCEPT ![p] = Idle] /\ UNCHANGED stores
    BY <1>7, <2>1 DEF CloseMark, Ended, TypeOK
  <2>2. CASE Evict(p, "cancel", "closed")
    BY <1>7, <2>2 DEF CloseMark, Evicted
  <2> QED BY <1>7, <2>1, <2>2 DEF CloseMark
<1>8. ASSUME NEW w \in Waiters, WaitReceive(w) PROVE Quiet
  <2>1. chan \in [Jobs -> Channels]
    BY DEF TypeOK
  <2>2. CASE chan[wait[w]].buf # <<>> /\ chan' = [chan EXCEPT ![wait[w]].buf = Tail(@)]
    <3>1. \A c \in Channels : [c EXCEPT !.buf = Tail(@)].closes = c.closes
      BY DEF Channels
    <3> QED BY <1>8, <2>1, <2>2, <3>1 DEF WaitReceive, Quiet, WatchKept, Fires
  <2>3. CASE UNCHANGED chan
    BY <1>1, <1>8, <2>3 DEF WaitReceive
  <2> QED BY <1>8, <2>2, <2>3 DEF WaitReceive
<1>9. ASSUME \/ SetStore \/ UNCHANGED vars
             \/ \E w \in Waiters : WaitCancelled(w) \/ \E id \in Ids : WaitFor(w, id)
      PROVE  Quiet
  BY <1>1, <1>9 DEF SetStore, WaitCancelled, WaitFor, vars
<1>10. ASSUME NEW p \in Procs, \/ NextID(p) \/ (\E id \in Ids : AddRefused(p, id))
              \/ RemoveFinish(p) \/ CancelAll(p) \/ Close(p) \/ CloseMark(p)
       PROVE  Goal
  BY <1>10, <1>2, <1>6, <1>7
<1>11. ASSUME NEW p \in Procs, NEW id \in Ids, NEW o \in program, NEW e \in Jobs,
              Add(p, id, o, e) \/ \E late \in SUBSET o.watch : AddFailed(p, id, o, e, late)
       PROVE  Goal
  BY <1>11
<1>12. ASSUME NEW p \in Procs, NEW e \in Jobs, ClosePending(p, e) PROVE Goal
  BY <1>12
<1>13. ASSUME NEW p \in Procs, NEW id \in Ids, Resolve(p, id) \/ Remove(p, id) PROVE Goal
  BY <1>13, <1>3 DEF Threads, Errs
<1>14. ASSUME NEW w \in Watchers, Fire(w) \/ FiredResolve(w) PROVE Goal
  BY <1>14, <1>4, <1>5 DEF Threads
<1>15. ASSUME NEW t \in Threads, Deliver(t) \/ Recycle(t) PROVE Goal
  BY <1>15
<1>16. Quiet => Goal
  OBVIOUS
<1> HIDE DEF Goal
<1>17. Goal
  BY <1>8, <1>9, <1>10, <1>11, <1>12, <1>13, <1>14, <1>15, <1>16 DEF Next
<1> QED BY <1>17 DEF Goal

(* A number that was used stays used.                                       *)
LEMMA UnbornStep ==
  ASSUME DeletesWork, TypeOK, Shape, [Next]_vars
  PROVE  \A n \in Jobs : Unborn(n)' => Unborn(n)
<1> SUFFICES ASSUME NEW n \in Jobs, Unborn(n)' PROVE Unborn(n)
  OBVIOUS
<1> USE DEF history, control
<1>0. Procs \subseteq Threads
  BY DEF Threads
<1>1. ASSUME NEW p \in Procs, NextID(p) PROVE Unborn(n)
  <2>1. counter \in Nat /\ n \in Nat
    BY JobNames, Bounds DEF TypeOK
  <2>2. /\ counter' = counter + 1
        /\ \A t \in Threads : t # p => op'[t] = op[t]
        /\ op'[p].n = counter + 1
    BY <1>1, NextIDEffect
  <2> QED BY <2>1, <2>2 DEF Unborn
<1>2. ASSUME counter' = counter, \A t \in Threads : op'[t].at = "adding" => op'[t] = op[t]
      PROVE  Unborn(n)
  BY <1>2 DEF Unborn
<1>3. ASSUME NEW p \in Procs, Ended(p) PROVE Unborn(n)
  BY <1>3, <1>2, IdleFields DEF Ended
<1>4. ASSUME NEW p \in Procs, NEW id \in Ids, NEW o \in program, NEW e \in Jobs,
             Add(p, id, o, e)
      PROVE  Unborn(n)
  BY <1>4, <1>2, AddEffect, IdleFields
<1>5. ASSUME NEW p \in Procs, NEW id \in Ids, NEW o \in program, NEW e \in Jobs,
             NEW late \in SUBSET o.watch, AddFailed(p, id, o, e, late)
      PROVE  Unborn(n)
  BY <1>5, <1>2, AddFailedEffect, IdleFields
<1>6. ASSUME NEW t \in Threads, NEW id \in Ids, NEW err \in Errs, Taken(t, id, err)
      PROVE  Unborn(n)
  <2>1. /\ \A u \in Threads : u # t => op'[u] = op[u]
        /\ op'[t].at = "deliver" /\ counter' = counter
    BY <1>6, TakenEffect
  <2> QED BY <2>1, <1>2
<1>7. ASSUME NEW p \in Procs, NEW id \in Ids, Remove(p, id) PROVE Unborn(n)
  BY <1>7, <1>2, RemoveEffect
<1>8. ASSUME NEW p \in Procs, RemoveFinish(p) PROVE Unborn(n)
  BY <1>8, <1>2, RemoveFinishEffect, IdleFields
<1>9. ASSUME NEW p \in Procs, NEW at \in {"cancel", "close"}, NEW err \in {"custom", "closed"},
             Evicted(p, at, err)
      PROVE  Unborn(n)
  BY <1>9, <1>2, EvictedEffect
<1>10. ASSUME NEW p \in Procs, NEW e \in Jobs, ClosePending(p, e) PROVE Unborn(n)
  BY <1>10, <1>2, ClosePendingEffect
<1>11. ASSUME NEW t \in Threads, Deliver(t) PROVE Unborn(n)
  BY <1>11, <1>2, DeliverEffect
<1>12. ASSUME NEW t \in Threads, Recycle(t) PROVE Unborn(n)
  BY <1>12, <1>2, RecycleEffect, IdleFields
<1>13. CASE Quiet
  BY <1>13, <1>2 DEF Quiet
<1> QED BY StepCases, <1>1, <1>3, <1>4, <1>5, <1>6, <1>7, <1>8, <1>9, <1>10, <1>11, <1>12, <1>13

(* Every step keeps Shape.                                                  *)
LEMMA ShapeStep ==
  ASSUME DeletesWork, TypeOK, Shape, Numbers, [Next]_vars
  PROVE  Shape'
<1> USE DEF history, control
<1>0. /\ Procs \subseteq Threads /\ Watchers \subseteq Threads
      /\ \A w \in Watchers : w \notin Procs /\ w[2] \in Jobs
  BY ThreadNames
<1>a. counter \in Nat /\ op \in [Threads -> Operations]
  BY Bounds DEF TypeOK
<1>u. \A n \in Jobs : Unborn(n)' => Unborn(n)
  BY UnbornStep
<1> DEFINE Left(t) ==
      /\ op'[t].at \notin {"cancel", "close"} => op'[t].left = {}
      /\ op'[t].at \in Working => op'[t].n # 0
      /\ op'[t].at = "adding" => op'[t].n \in 1..counter'
<1>1. ASSUME counter' = counter, WatchKept, UNCHANGED op
      PROVE  Shape'
  BY <1>1, <1>0, <1>u DEF Shape, WatchKept
<1>2. ASSUME NEW t \in Threads, \A u \in Threads : u # t => op'[u] = op[u],
             counter' = counter, Left(t), WatchKept,
             t \in Watchers => op'[t].at \in {"idle", "deliver", "recycle"}
                               /\ (watch'[t] # "done" => op'[t].at = "idle")
      PROVE  Shape'
  <2>1. \A u \in Threads : Left(u)
    BY <1>2 DEF Shape
  <2>2. \A w \in Watchers :
          /\ op'[w].at \in {"idle", "deliver", "recycle"}
          /\ watch'[w] # "done" => op'[w].at = "idle"
    BY <1>2, <1>0 DEF Shape, WatchKept
  <2>3. \A w \in Watchers : Unborn(w[2])' => watch'[w] = "none"
    BY <1>2, <1>0, <1>u DEF Shape, WatchKept
  <2> QED BY <2>1, <2>2, <2>3 DEF Shape
<1> HIDE DEF Left
<1>3. ASSUME NEW p \in Procs, NextID(p) PROVE Shape'
  <2>1. WatchKept
    BY <1>3, NextIDEffect DEF WatchKept
  <2>2. \A t \in Threads : op[t].at = "adding" => op[t].n \in 1..(counter + 1)
    BY <1>a DEF Shape
  <2>3. \A t \in Threads :
          /\ op'[t].at \notin {"cancel", "close"} => op'[t].left = {}
          /\ op'[t].at \in Working => op'[t].n # 0
          /\ op'[t].at = "adding" => op'[t].n \in 1..counter'
    BY <1>3, <1>a, <2>2, NextIDEffect DEF Shape, Working
  <2>4. \A w \in Watchers :
          /\ op'[w].at \in {"idle", "deliver", "recycle"}
          /\ watch'[w] # "done" => op'[w].at = "idle"
          /\ Unborn(w[2])' => watch'[w] = "none"
    BY <1>3, <1>0, <1>u, NextIDEffect DEF Shape
  <2> QED BY <2>3, <2>4 DEF Shape
<1>4. ASSUME NEW p \in Procs, Ended(p) PROVE Shape'
  BY <1>4, <1>2, <1>0, IdleFields DEF Ended, WatchKept, Left, Working
<1>5. ASSUME NEW p \in Procs, UNCHANGED counter,
             \A t \in Threads : op'[t] = IF t = p THEN Idle ELSE op[t],
             op[p].at = "adding",
             \A w \in Watchers : w[2] # op[p].n => watch'[w] = watch[w],
             \A w \in Watchers : watch'[w] # watch[w] => watch'[w] # "done"
      PROVE  Shape'
  <2>1. \A t \in Threads : Left(t)
    BY <1>5, IdleFields DEF Shape, Left, Working
  <2>2. \A w \in Watchers : w[2] = op[p].n => watch[w] = "none"
    BY <1>5, <1>0 DEF Shape, Unborn
  <2>3. \A n \in Jobs : n = op[p].n => ~Unborn(n)'
    <3>1. op[p].n \in 1..counter /\ counter \in 0..MaxJobs /\ p \in Threads
      BY <1>5, <1>0 DEF Shape, TypeOK
    <3>2. \A t \in Threads : ~(op'[t].at = "adding" /\ op'[t].n = op[p].n)
      BY <1>5, <3>1, IdleFields DEF Numbers
    <3>3. op[p].n \in Jobs /\ ~(op[p].n > counter)
      BY <3>1, Bounds DEF Jobs
    <3> QED BY <1>5, <3>2, <3>3 DEF Unborn
  <2>4. \A w \in Watchers :
          /\ op'[w].at \in {"idle", "deliver", "recycle"}
          /\ watch'[w] # "done" => op'[w].at = "idle"
    BY <1>5, <1>0, <2>2 DEF Shape
  <2>5. \A w \in Watchers : Unborn(w[2])' => watch'[w] = "none"
    <3> TAKE w \in Watchers
    <3>1. w[2] \in Jobs
      BY <1>0
    <3>2. CASE w[2] = op[p].n
      BY <2>3, <3>1, <3>2
    <3>3. CASE w[2] # op[p].n
      <4>1. Unborn(w[2])' => watch[w] = "none"
        BY <1>u, <3>1 DEF Shape
      <4> QED BY <1>5, <3>3, <4>1
    <3> QED BY <3>2, <3>3
  <2> QED BY <2>1, <2>4, <2>5 DEF Shape, Left
<1>6. ASSUME NEW p \in Procs, NEW id \in Ids, NEW o \in program, NEW e \in Jobs,
             Add(p, id, o, e) PROVE Shape'
  BY <1>6, <1>5, AddEffect
<1>7. ASSUME NEW p \in Procs, NEW id \in Ids, NEW o \in program, NEW e \in Jobs,
             NEW late \in SUBSET o.watch, AddFailed(p, id, o, e, late)
      PROVE  Shape'
  BY <1>7, <1>5, AddFailedEffect
<1>8. ASSUME NEW t \in Threads, NEW id \in Ids, NEW err \in Errs, Taken(t, id, err)
      PROVE  Shape'
  <2>1. /\ \A u \in Threads : u # t => op'[u] = op[u]
        /\ op'[t].at = "deliver" /\ op'[t].n # 0 /\ op'[t].left = {}
    BY <1>8, TakenEffect, JobNames
  <2>2. counter' = counter /\ WatchKept /\ (t \in Watchers => watch'[t] = "done")
    BY <1>8 DEF Taken
  <2> QED BY <1>2, <2>1, <2>2 DEF Left
<1>9. ASSUME NEW p \in Procs, NEW id \in Ids, Remove(p, id) PROVE Shape'
  <2>1. /\ \A u \in Threads : u # p => op'[u] = op[u]
        /\ op'[p].at = "remove" /\ op'[p].n # 0 /\ op'[p].left = {}
        /\ counter' = counter /\ WatchKept
    BY <1>9, RemoveEffect, JobNames DEF WatchKept
  <2> QED BY <1>0, <1>2, <2>1 DEF Left
<1>10. ASSUME NEW p \in Procs, RemoveFinish(p) PROVE Shape'
  <2>1. WatchKept
    BY <1>10, RemoveFinishEffect, StoppedKept
  <2>2. counter' = counter /\ \A u \in Threads : op'[u] = IF u = p THEN Idle ELSE op[u]
    BY <1>10, RemoveFinishEffect
  <2> QED BY <1>0, <1>2, <2>1, <2>2, IdleFields DEF Left, Working
<1>11. ASSUME NEW p \in Procs, NEW at \in {"cancel", "close"}, NEW err \in {"custom", "closed"},
              Evicted(p, at, err)
       PROVE  Shape'
  <2>1. WatchKept
    BY <1>11, EvictedEffect DEF WatchKept
  <2> QED BY <1>11, <2>1, <1>0, <1>2, EvictedEffect DEF Left, Working
<1>12. ASSUME NEW p \in Procs, NEW e \in Jobs, ClosePending(p, e) PROVE Shape'
  <2>1. WatchKept
    BY <1>12, ClosePendingEffect, StoppedKept
  <2>2. /\ counter' = counter /\ \A t \in Threads : t # p => op'[t] = op[t]
        /\ op'[p].at \in {"idle", "cancel", "close"}
        /\ op'[p].at = "idle" => op'[p].left = {}
    BY <1>12, ClosePendingEffect
  <2>3. Left(p)
    BY <2>2 DEF Left, Working
  <2> QED BY <1>0, <1>2, <2>1, <2>2, <2>3
<1>13. ASSUME NEW t \in Threads, Deliver(t) PROVE Shape'
  <2>1. WatchKept
    BY <1>13, DeliverEffect, StoppedKept
  <2>2. t \in Watchers => watch[t] = "done"
    BY <1>13, DeliverEffect DEF Shape
  <2>3. /\ counter' = counter /\ \A u \in Threads : u # t => op'[u] = op[u]
        /\ op'[t].at = "recycle" /\ op'[t].n # 0 /\ op'[t].left = {}
    BY <1>13, DeliverEffect, JobNames
  <2> QED BY <1>2, <2>1, <2>2, <2>3 DEF Left, WatchKept
<1>14. ASSUME NEW t \in Threads, Recycle(t) PROVE Shape'
  <2>1. /\ counter' = counter /\ WatchKept
        /\ \A u \in Threads : op'[u] = IF u = t THEN Idle ELSE op[u]
    BY <1>14, RecycleEffect DEF WatchKept
  <2>2. op'[t].at = "idle" /\ op'[t].left = {}
    BY <2>1, IdleFields
  <2>3. Left(t)
    BY <2>2 DEF Left, Working
  <2>4. \A u \in Threads : u # t => op'[u] = op[u]
    BY <2>1
  <2> QED BY <1>2, <2>1, <2>2, <2>3, <2>4
<1>15. CASE Quiet
  BY <1>15, <1>1 DEF Quiet
<1> QED BY StepCases, <1>3, <1>4, <1>6, <1>7, <1>8, <1>9, <1>10, <1>11, <1>12, <1>13, <1>14, <1>15

(* Every step keeps Numbers.                                                *)
LEMMA NumbersStep ==
  ASSUME DeletesWork, TypeOK, Shape, Numbers, [Next]_vars
  PROVE  Numbers'
<1> USE DEF history, control
<1>0. Procs \subseteq Threads
  BY DEF Threads
<1>u. \A n \in Jobs : Unborn(n)' => Unborn(n)
  BY UnbornStep
<1>b. \A n \in Jobs : Unborn(n) =>
        /\ pool[n] = 0
        /\ \A s \in Stores, i \in Ids : stores[s][i] # n
        /\ \A t \in Threads : ~Holds(t, n)
  BY DEF Numbers
<1>n. \A n \in Jobs : n # 0
  BY JobNames
<1> DEFINE Adding ==
      \A t, u \in Threads :
        op'[t].at = "adding" /\ op'[u].at = "adding" /\ op'[t].n = op'[u].n => t = u
<1>1. ASSUME \A t \in Threads : op'[t].at = "adding" => op'[t] = op[t]
      PROVE  Adding
  BY <1>1 DEF Numbers
<1> HIDE DEF Adding
<1>2. ASSUME Adding,
             \A n \in Jobs : Unborn(n)' =>
               /\ pool'[n] = 0
               /\ \A s \in Stores, i \in Ids : stores'[s][i] # n
               /\ \A t \in Threads : ~Holds(t, n)'
      PROVE  Numbers'
  BY <1>2 DEF Numbers, Adding
<1>3. ASSUME NEW p \in Procs, NextID(p) PROVE Numbers'
  <2>1. /\ counter' = counter + 1 /\ op'[p].at = "adding" /\ op'[p].n = counter + 1
        /\ op'[p].left = {} /\ \A t \in Threads : t # p => op'[t] = op[t]
        /\ UNCHANGED <<pool, stores>> /\ counter \in Nat
    BY <1>3, NextIDEffect, Bounds DEF TypeOK
  <2>2. \A t \in Threads : op[t].at = "adding" => op[t].n \in 1..counter
    BY DEF Shape
  <2>3. Adding
    BY <2>1, <2>2 DEF Adding, Numbers
  <2>4. \A t \in Threads, n \in Jobs : Holds(t, n)' => Holds(t, n)
    BY <2>1 DEF Holds, Working
  <2> QED BY <1>u, <1>b, <2>1, <2>3, <2>4, <1>2
<1>4. ASSUME NEW p \in Procs, Ended(p) PROVE Numbers'
  <2>1. \A t \in Threads, n \in Jobs : Holds(t, n)' => Holds(t, n)
    BY <1>4, IdleFields DEF Ended, Holds, Working
  <2>2. Adding
    BY <1>1, <1>4, IdleFields DEF Ended
  <2>3. UNCHANGED <<pool, stores>>
    BY <1>4 DEF Ended
  <2> QED BY <1>u, <1>b, <2>1, <2>2, <2>3, <1>2
<1>5. ASSUME NEW p \in Procs, NEW e \in Jobs, NEW n \in Jobs, n = op[p].n, op[p].at = "adding",
             e = n \/ pool[e] > 0, counter' = counter, n <= counter,
             \A f \in Jobs : f # e => pool'[f] = pool[f],
             \A s \in Stores, i \in Ids : stores'[s][i] \in {stores[s][i], e},
             \A t \in Threads : op'[t] = IF t = p THEN Idle ELSE op[t]
      PROVE  Numbers'
  <2>1. ~Unborn(n)'
    <3>1. \A t \in Threads : ~(op'[t].at = "adding" /\ op'[t].n = n)
      BY <1>0, <1>5, IdleFields DEF Numbers
    <3>2. n \in Nat /\ counter \in Nat
      BY Bounds, JobNames DEF TypeOK
    <3>3. ~(n > counter')
      BY <1>5, <3>2
    <3> QED BY <3>1, <3>3 DEF Unborn
  <2>2. pool[n] = 0 /\ (e # n => ~Unborn(e))
    <3>1. Unborn(n)
      BY <1>0, <1>5 DEF Unborn
    <3> QED BY <1>5, <1>b, <3>1
  <2>3. ~Unborn(e)'
    BY <1>u, <2>1, <2>2
  <2>4. \A t \in Threads, f \in Jobs : Holds(t, f)' => Holds(t, f)
    BY <1>5, IdleFields DEF Holds, Working
  <2>5. Adding
    BY <1>1, <1>5, IdleFields
  <2> QED BY <1>u, <1>b, <1>5, <2>3, <2>4, <2>5, <1>2
<1>6. ASSUME NEW p \in Procs, NEW id \in Ids, NEW o \in program, NEW e \in Jobs,
             Add(p, id, o, e) PROVE Numbers'
  <2> DEFINE n == op[p].n
  <2>1. /\ n \in Jobs /\ op[p].at = "adding" /\ (e = n \/ pool[e] > 0)
        /\ counter' = counter /\ n <= counter
        /\ \A f \in Jobs : f # e => pool'[f] = pool[f]
        /\ \A s \in Stores, i \in Ids : stores'[s][i] \in {stores[s][i], e}
        /\ \A t \in Threads : op'[t] = IF t = p THEN Idle ELSE op[t]
    BY <1>6, AddEffect
  <2>2. n = op[p].n
    OBVIOUS
  <2> HIDE DEF n
  <2> QED BY <2>1, <2>2, <1>5
<1>7. ASSUME NEW p \in Procs, NEW id \in Ids, NEW o \in program, NEW e \in Jobs,
             NEW late \in SUBSET o.watch, AddFailed(p, id, o, e, late)
      PROVE  Numbers'
  <2> DEFINE n == op[p].n
  <2>1. /\ n \in Jobs /\ op[p].at = "adding" /\ (e = n \/ pool[e] > 0)
        /\ counter' = counter /\ n <= counter
        /\ \A f \in Jobs : f # e => pool'[f] = pool[f]
        /\ UNCHANGED stores
        /\ \A t \in Threads : op'[t] = IF t = p THEN Idle ELSE op[t]
    BY <1>7, AddFailedEffect
  <2>2. n = op[p].n
    OBVIOUS
  <2> HIDE DEF n
  <2> QED BY <2>1, <2>2, <1>5
<1>8. ASSUME \A t \in Threads : op'[t].at = "adding" => op'[t] = op[t],
             \A n \in Jobs : pool'[n] # pool[n] => \E t \in Threads : Holds(t, n),
             \A s \in Stores, i \in Ids : stores'[s][i] \in {stores[s][i], 0},
             \A t \in Threads, n \in Jobs : Holds(t, n)' =>
                Holds(t, n) \/ \E s \in Stores, i \in Ids : stores[s][i] = n
      PROVE  Numbers'
  <2>1. Adding
    BY <1>1, <1>8
  <2>2. ASSUME NEW n \in Jobs, Unborn(n)'
        PROVE  /\ pool'[n] = 0
               /\ \A s \in Stores, i \in Ids : stores'[s][i] # n
               /\ \A t \in Threads : ~Holds(t, n)'
    <3>1. /\ pool[n] = 0 /\ n # 0
          /\ \A s \in Stores, i \in Ids : stores[s][i] # n
          /\ \A t \in Threads : ~Holds(t, n)
      BY <1>u, <1>b, <1>n, <2>2
    <3> QED BY <1>8, <3>1
  <2> QED BY <2>1, <2>2, <1>2
<1>9. ASSUME NEW t \in Threads, NEW id \in Ids, NEW err \in Errs, Taken(t, id, err)
      PROVE  Numbers'
  <2>1. \A u \in Threads, n \in Jobs : Holds(u, n)' =>
          Holds(u, n) \/ \E s \in Stores, i \in Ids : stores[s][i] = n
    <3>1. /\ \A u \in Threads : u # t => op'[u] = op[u]
          /\ op'[t].n = stores[cur][id] /\ op'[t].left = {} /\ cur \in Stores
      BY <1>9, TakenEffect DEF TypeOK
    <3> QED BY <3>1 DEF Holds
  <2>2. \A u \in Threads : op'[u].at = "adding" => op'[u] = op[u]
    BY <1>9, TakenEffect
  <2>3. pool' = pool /\ \A s \in Stores, i \in Ids : stores'[s][i] \in {stores[s][i], 0}
    BY <1>9, TakenEffect
  <2> QED BY <1>8, <2>1, <2>2, <2>3
<1>10. ASSUME NEW p \in Procs, NEW id \in Ids, Remove(p, id) PROVE Numbers'
  <2>1. \A u \in Threads, n \in Jobs : Holds(u, n)' =>
          Holds(u, n) \/ \E s \in Stores, i \in Ids : stores[s][i] = n
    <3>1. /\ \A u \in Threads : u # p => op'[u] = op[u]
          /\ op'[p].n = stores[cur][id] /\ op'[p].left = {} /\ cur \in Stores
      BY <1>10, RemoveEffect DEF TypeOK
    <3> QED BY <3>1 DEF Holds
  <2>2. \A u \in Threads : op'[u].at = "adding" => op'[u] = op[u]
    BY <1>10, RemoveEffect
  <2>3. pool' = pool /\ \A s \in Stores, i \in Ids : stores'[s][i] \in {stores[s][i], 0}
    BY <1>10, RemoveEffect
  <2> QED BY <1>8, <2>1, <2>2, <2>3
<1>11. ASSUME NEW p \in Procs, RemoveFinish(p) PROVE Numbers'
  <2>1. \A u \in Threads, n \in Jobs : Holds(u, n)' => Holds(u, n)
    BY <1>11, RemoveFinishEffect, IdleFields DEF Holds, Working
  <2>2. \A u \in Threads : op'[u].at = "adding" => op'[u] = op[u]
    BY <1>11, RemoveFinishEffect, IdleFields
  <2>3. /\ stores' = stores /\ \A n \in Jobs : pool'[n] # pool[n] => n = op[p].n
        /\ Holds(p, op[p].n)
    BY <1>11, RemoveFinishEffect DEF Holds, Working
  <2> QED BY <1>0, <1>8, <2>1, <2>2, <2>3
<1>12. ASSUME NEW p \in Procs, NEW at \in {"cancel", "close"},
              NEW err \in {"custom", "closed"}, Evicted(p, at, err)
       PROVE  Numbers'
  <2>1. \A u \in Threads, n \in Jobs : Holds(u, n)' =>
          Holds(u, n) \/ \E s \in Stores, i \in Ids : stores[s][i] = n
    <3>1. /\ \A u \in Threads : u # p => op'[u] = op[u]
          /\ op'[p].at \in {"idle", "cancel", "close"} /\ cur \in Stores
      BY <1>12, EvictedEffect DEF TypeOK
    <3>2. \A n \in Jobs : n \in op'[p].left => \E i \in Ids : stores[cur][i] = n
      BY <1>12, EvictedEffect DEF Stored
    <3> QED BY <3>1, <3>2 DEF Holds, Working
  <2>2. \A u \in Threads : op'[u].at = "adding" => op'[u] = op[u]
    BY <1>12, EvictedEffect
  <2>3. pool' = pool /\ \A s \in Stores, i \in Ids : stores'[s][i] \in {stores[s][i], 0}
    BY <1>12, EvictedEffect
  <2> QED BY <1>8, <2>1, <2>2, <2>3
<1>13. ASSUME NEW p \in Procs, NEW e \in Jobs, ClosePending(p, e) PROVE Numbers'
  <2>1. \A u \in Threads, n \in Jobs : Holds(u, n)' => Holds(u, n)
    BY <1>13, ClosePendingEffect DEF Holds, Working
  <2>2. \A u \in Threads : op'[u].at = "adding" => op'[u] = op[u]
    BY <1>13, ClosePendingEffect
  <2>3. /\ stores' = stores /\ \A n \in Jobs : pool'[n] # pool[n] => n = e
        /\ Holds(p, e)
    BY <1>13, ClosePendingEffect DEF Holds
  <2> QED BY <1>0, <1>8, <2>1, <2>2, <2>3
<1>14. ASSUME NEW t \in Threads, Deliver(t) PROVE Numbers'
  <2>1. \A u \in Threads, n \in Jobs : Holds(u, n)' => Holds(u, n)
    BY <1>14, DeliverEffect DEF Holds, Working
  <2>2. \A u \in Threads : op'[u].at = "adding" => op'[u] = op[u]
    BY <1>14, DeliverEffect
  <2>3. UNCHANGED <<stores, pool>>
    BY <1>14, DeliverEffect
  <2> QED BY <1>8, <2>1, <2>2, <2>3
<1>15. ASSUME NEW t \in Threads, Recycle(t) PROVE Numbers'
  <2>1. \A u \in Threads, n \in Jobs : Holds(u, n)' => Holds(u, n)
    BY <1>15, RecycleEffect, IdleFields DEF Holds, Working
  <2>2. \A u \in Threads : op'[u].at = "adding" => op'[u] = op[u]
    BY <1>15, RecycleEffect, IdleFields
  <2>3. /\ stores' = stores /\ \A n \in Jobs : pool'[n] # pool[n] => n = op[t].n
        /\ Holds(t, op[t].n)
    BY <1>15, RecycleEffect DEF Holds, Working
  <2> QED BY <1>8, <2>1, <2>2, <2>3
<1>16. CASE Quiet
  <2>1. UNCHANGED <<stores, pool, op>>
    BY <1>16 DEF Quiet
  <2> QED BY <1>8, <2>1 DEF Holds
<1> QED BY StepCases, <1>3, <1>4, <1>6, <1>7, <1>9, <1>10, <1>11, <1>12, <1>13, <1>14,
           <1>15, <1>16

(* What happens to keepAlive and to the callers' hold on an entry.         *)
LEMMA KeepStep ==
  ASSUME DeletesWork, TypeOK, Shape, Kept, [Next]_vars
  PROVE  Kept'
<1> USE DEF history, control
<1>0. /\ Procs \subseteq Threads /\ \A e \in Jobs : ent[e].keep \in BOOLEAN
      /\ cur \in Stores
  BY DEF Threads, TypeOK, Entries
<1>1. ASSUME program' = program,
             \A e \in Jobs : ent'[e].keep = ent[e].keep \/ (OneShots /\ ~ent'[e].keep),
             \A e \in Jobs : Used(e)' => Used(e)
      PROVE  Kept'
  BY <1>0, <1>1 DEF Kept, OneShots, Streams
<1>2. ASSUME program' = program, NEW e \in Jobs, NEW o \in program, ent'[e].keep = o.keep,
             \A f \in Jobs : f # e => ent'[f] = ent[f],
             \A f \in Jobs : f # e => (Used(f)' => Used(f))
      PROVE  Kept'
  BY <1>0, <1>2 DEF Kept, OneShots, Streams
<1>3. ASSUME NEW p \in Procs, NextID(p) PROVE Kept'
  BY <1>1, <1>3, NextIDEffect DEF Used, Holds, Working
<1>4. ASSUME NEW p \in Procs, Ended(p) PROVE Kept'
  BY <1>1, <1>4, IdleFields DEF Ended, Used, Holds, Working
<1>5. ASSUME NEW p \in Procs, NEW id \in Ids, NEW o \in program, NEW e \in Jobs,
             Add(p, id, o, e) PROVE Kept'
  <2>1. ent'[e].keep = o.keep
    BY <1>5, AddEffect, RecordTypes
  <2>2. \A f \in Jobs : f # e => (Used(f)' => Used(f)) /\ ent'[f] = ent[f]
    BY <1>5, AddEffect, IdleFields DEF Used, Holds, Working
  <2>3. program' = program
    BY <1>5, AddEffect
  <2> QED BY <1>2, <2>1, <2>2, <2>3
<1>6. ASSUME NEW p \in Procs, NEW id \in Ids, NEW o \in program, NEW e \in Jobs,
             NEW late \in SUBSET o.watch, AddFailed(p, id, o, e, late)
      PROVE  Kept'
  <2>1. ent'[e].keep = o.keep
    BY <1>6, AddFailedEffect, RecordTypes
  <2>2. \A f \in Jobs : f # e => (Used(f)' => Used(f)) /\ ent'[f] = ent[f]
    BY <1>6, AddFailedEffect, IdleFields DEF Used, Holds, Working
  <2>3. program' = program
    BY <1>6, AddFailedEffect
  <2> QED BY <1>2, <2>1, <2>2, <2>3
<1>7. ASSUME NEW t \in Threads, NEW id \in Ids, NEW err \in Errs, Taken(t, id, err)
      PROVE  Kept'
  <2>1. program' = program /\ \A e \in Jobs : ent'[e].keep = ent[e].keep
    BY <1>7, TakenEffect
  <2>2. /\ UNCHANGED pool /\ op'[t].n = stores[cur][id] /\ op'[t].left = {}
        /\ \A u \in Threads : u # t => op'[u] = op[u]
        /\ \A s \in Stores, i \in Ids : stores'[s][i] \in {stores[s][i], 0}
    BY <1>7, TakenEffect
  <2>3. \A e \in Jobs : Used(e)' => Used(e)
    BY <1>0, <2>2, JobNames DEF Used, Holds
  <2> QED BY <1>1, <2>1, <2>3
<1>8. ASSUME NEW p \in Procs, NEW id \in Ids, Remove(p, id) PROVE Kept'
  <2>1. UNCHANGED <<program, ent>>
    BY <1>8, RemoveEffect
  <2>2. /\ UNCHANGED pool /\ op'[p].n = stores[cur][id] /\ op'[p].left = {}
        /\ \A u \in Threads : u # p => op'[u] = op[u]
        /\ \A s \in Stores, i \in Ids : stores'[s][i] \in {stores[s][i], 0}
    BY <1>8, RemoveEffect
  <2>3. \A e \in Jobs : Used(e)' => Used(e)
    BY <1>0, <2>2, JobNames DEF Used, Holds
  <2> QED BY <1>1, <2>1, <2>3
<1>9. ASSUME NEW p \in Procs, RemoveFinish(p) PROVE Kept'
  <2>1. program' = program /\ \A e \in Jobs : ent'[e].keep = ent[e].keep
    BY <1>9, RemoveFinishEffect
  <2>2. /\ op[p].at = "remove" /\ UNCHANGED stores
        /\ \A u \in Threads : op'[u] = IF u = p THEN Idle ELSE op[u]
        /\ \A f \in Jobs : f # op[p].n => pool'[f] = pool[f]
    BY <1>9, RemoveFinishEffect
  <2>3. \A e \in Jobs : Used(e)' => Used(e)
    BY <1>0, <2>2, IdleFields DEF Used, Holds, Working
  <2> QED BY <1>1, <2>1, <2>3
<1>10. ASSUME NEW p \in Procs, NEW at \in {"cancel", "close"},
              NEW err \in {"custom", "closed"}, Evicted(p, at, err)
       PROVE  Kept'
  <2>1. UNCHANGED <<program, ent, pool>>
    BY <1>10, EvictedEffect
  <2>2. /\ op'[p].at \in {"idle", "cancel", "close"}
        /\ \A u \in Threads : u # p => op'[u] = op[u]
        /\ \A s \in Stores, i \in Ids : stores'[s][i] \in {stores[s][i], 0}
    BY <1>10, EvictedEffect
  <2>3. \A n \in Jobs : n \in op'[p].left => \E i \in Ids : stores[cur][i] = n
    BY <1>10, EvictedEffect DEF Stored
  <2>4. \A e \in Jobs : Used(e)' => Used(e)
    BY <1>0, <2>1, <2>2, <2>3, JobNames DEF Used, Holds, Working
  <2> QED BY <1>1, <2>1, <2>4
<1>11. ASSUME NEW p \in Procs, NEW e \in Jobs, ClosePending(p, e) PROVE Kept'
  <2>1. program' = program /\ \A f \in Jobs : ent'[f].keep = ent[f].keep
    BY <1>11, ClosePendingEffect
  <2>2. /\ e \in op[p].left /\ UNCHANGED stores
        /\ \A u \in Threads : u # p => op'[u] = op[u]
        /\ op'[p].left = op[p].left \ {e} /\ op'[p].at \in {"idle", "cancel", "close"}
        /\ \A f \in Jobs : f # e => pool'[f] = pool[f]
    BY <1>11, ClosePendingEffect
  <2>3. \A f \in Jobs : Used(f)' => Used(f)
    BY <1>0, <2>2 DEF Used, Holds, Working
  <2> QED BY <1>1, <2>1, <2>3
<1>12. ASSUME NEW t \in Threads, Deliver(t) PROVE Kept'
  <2>1. UNCHANGED <<program, ent, stores, pool>> /\ op[t].at = "deliver"
    BY <1>12, DeliverEffect
  <2>2. /\ \A u \in Threads : u # t => op'[u] = op[u]
        /\ op'[t].n = op[t].n /\ op'[t].left = {}
    BY <1>12, DeliverEffect
  <2>3. \A e \in Jobs : Used(e)' => Used(e)
    BY <2>1, <2>2 DEF Used, Holds, Working
  <2> QED BY <1>1, <2>1, <2>3
<1>13. ASSUME NEW t \in Threads, Recycle(t) PROVE Kept'
  <2>1. program' = program /\ \A f \in Jobs : ent'[f].keep = ent[f].keep
    BY <1>13, RecycleEffect
  <2>2. /\ op[t].at = "recycle" /\ UNCHANGED stores
        /\ \A u \in Threads : op'[u] = IF u = t THEN Idle ELSE op[u]
        /\ \A f \in Jobs : f # op[t].n => pool'[f] = pool[f]
    BY <1>13, RecycleEffect
  <2>3. \A e \in Jobs : Used(e)' => Used(e)
    BY <1>0, <2>2, IdleFields DEF Used, Holds, Working
  <2> QED BY <1>1, <2>1, <2>3
<1>14. CASE Quiet
  BY <1>1, <1>14 DEF Quiet, Used, Holds
<1> QED BY StepCases, <1>3, <1>4, <1>5, <1>6, <1>7, <1>8, <1>9, <1>10, <1>11, <1>12, <1>13, <1>14

(* Every step leaves each entry with one owner.                             *)
LEMMA ExclusiveStep ==
  ASSUME DeletesWork, TypeOK, Shape, Numbers, Kept, OneOwner, [Next]_vars
  PROVE  OneOwner'
<1> USE DEF history, control
<1>0. /\ Procs \subseteq Threads /\ cur \in Stores
      /\ \A e \in Jobs : ent[e].keep \in BOOLEAN /\ pool[e] \in Nat /\ e # 0
      /\ \A e \in Jobs : Exclusive(e)
  BY JobNames DEF Threads, TypeOK, Entries, OneOwner
<1>1. ASSUME NEW e \in Jobs, pool'[e] <= pool[e], pool'[e] \in Nat,
             \A s \in Stores, i \in Ids : stores'[s][i] = e => stores[s][i] = e,
             \A t \in Threads : Owns(t, e)' => Owns(t, e)
      PROVE  Exclusive(e)'
  BY <1>0, <1>1 DEF Exclusive
<1>2. ASSUME NEW e \in Jobs, NEW t \in Threads, pool'[e] = 0,
             \A s \in Stores, i \in Ids : stores'[s][i] # e,
             \A u \in Threads : Owns(u, e)' => u = t
      PROVE  Exclusive(e)'
  BY <1>2 DEF Exclusive
<1>3. ASSUME NEW e \in Jobs, pool'[e] = 1,
             \A s \in Stores, i \in Ids : stores'[s][i] # e,
             \A u \in Threads : ~Owns(u, e)'
      PROVE  Exclusive(e)'
  BY <1>3 DEF Exclusive
<1>4. ASSUME NEW e \in Jobs, NEW s \in Stores, NEW i \in Ids, pool'[e] = 0,
             \A r \in Stores, k \in Ids : stores'[r][k] = e => r = s /\ k = i,
             \A u \in Threads : ~Owns(u, e)'
      PROVE  Exclusive(e)'
  BY <1>4 DEF Exclusive
<1>q. (\A e \in Jobs : Exclusive(e)') => OneOwner'
  BY DEF OneOwner
<1>5. ASSUME NEW p \in Procs, NextID(p) PROVE OneOwner'
  <2>1. UNCHANGED <<pool, stores, ent>>
    BY <1>5, NextIDEffect
  <2>2. \A t \in Threads, e \in Jobs : Owns(t, e)' => Owns(t, e)
    BY <1>5, NextIDEffect DEF Owns
  <2> QED BY <1>0, <1>1, <1>q, <2>1, <2>2
<1>6. ASSUME NEW p \in Procs, Ended(p) PROVE OneOwner'
  <2>1. UNCHANGED <<pool, stores, ent>>
    BY <1>6 DEF Ended
  <2>2. \A t \in Threads, e \in Jobs : Owns(t, e)' => Owns(t, e)
    BY <1>6, IdleFields DEF Ended, Owns
  <2> QED BY <1>0, <1>1, <1>q, <2>1, <2>2
<1>7. ASSUME NEW p \in Procs, NEW id \in Ids, NEW o \in program, NEW e \in Jobs,
             e = op[p].n \/ pool[e] > 0, op[p].at = "adding",
             ent'[e].keep = o.keep,
             \A f \in Jobs : f # e => ent'[f] = ent[f] /\ pool'[f] = pool[f],
             \A t \in Threads : op'[t] = IF t = p THEN Idle ELSE op[t]
      PROVE  /\ \A s \in Stores, i \in Ids : stores[s][i] # e
             /\ \A t \in Threads : ~Owns(t, e)'
             /\ e = op[p].n => pool[e] = 0
             /\ e # op[p].n => pool[e] = 1
             /\ \A f \in Jobs, t \in Threads : f # e => (Owns(t, f)' => Owns(t, f))
  <2>1. e = op[p].n => Unborn(e)
    BY <1>0, <1>7 DEF Unborn
  <2>2. /\ \A s \in Stores, i \in Ids : stores[s][i] # e
        /\ \A t \in Threads : ~Owns(t, e)
        /\ e = op[p].n => pool[e] = 0
        /\ e # op[p].n => pool[e] = 1
    <3>1. CASE Unborn(e)
      BY <1>0, <1>7, <2>1, <3>1 DEF Numbers, Owns, Holds, Working
    <3>2. CASE e # op[p].n
      BY <1>0, <1>7, <3>2 DEF Exclusive
    <3> QED BY <2>1, <3>1, <3>2
  <2>3. \A f \in Jobs, t \in Threads : f # e => (Owns(t, f)' => Owns(t, f))
    BY <1>7, IdleFields DEF Owns
  <2>4. ~ent'[e].keep => ~ent[e].keep
    BY <1>7, <1>0 DEF Kept, OneShots, Streams
  <2>5. \A t \in Threads : ~Owns(t, e)'
    BY <1>7, <2>2, <2>4, IdleFields DEF Owns
  <2> QED BY <2>2, <2>3, <2>5
<1>8. ASSUME NEW p \in Procs, NEW id \in Ids, NEW o \in program, NEW e \in Jobs,
             Add(p, id, o, e) PROVE OneOwner'
  <2>1. /\ op[p].at = "adding" /\ (e = op[p].n \/ pool[e] > 0)
        /\ id \in Ids
        /\ \A s \in Stores, i \in Ids :
              stores'[s][i] = IF s = cur /\ i = id THEN e ELSE stores[s][i]
        /\ pool'[e] = IF e = op[p].n THEN pool[e] ELSE pool[e] - 1
        /\ \A f \in Jobs : f # e => ent'[f] = ent[f] /\ pool'[f] = pool[f]
        /\ \A t \in Threads : op'[t] = IF t = p THEN Idle ELSE op[t]
    BY <1>8, AddEffect
  <2>2. ent'[e].keep = o.keep
    BY <1>8, AddEffect, RecordTypes
  <2>3. /\ \A s \in Stores, i \in Ids : stores[s][i] # e
        /\ \A t \in Threads : ~Owns(t, e)'
        /\ e = op[p].n => pool[e] = 0
        /\ e # op[p].n => pool[e] = 1
        /\ \A f \in Jobs, t \in Threads : f # e => (Owns(t, f)' => Owns(t, f))
    BY <2>1, <2>2, <1>7
  <2>4. Exclusive(e)'
    <3>1. PICK i \in Ids : i = id
      BY <2>1
    <3>2. PICK s \in Stores : s = cur
      BY <1>0
    <3>3. \A r \in Stores, k \in Ids : stores'[r][k] = e => r = s /\ k = i
      BY <2>1, <2>3, <3>1, <3>2
    <3>4. pool'[e] = 0
      BY <2>1, <2>3
    <3> QED BY <1>4, <2>3, <3>3, <3>4
  <2>5. \A f \in Jobs : f # e => Exclusive(f)'
    BY <1>0, <1>1, <2>1, <2>3
  <2> QED BY <1>q, <2>4, <2>5
<1>9. ASSUME NEW p \in Procs, NEW id \in Ids, NEW o \in program, NEW e \in Jobs,
             NEW late \in SUBSET o.watch, AddFailed(p, id, o, e, late)
      PROVE  OneOwner'
  <2>1. /\ op[p].at = "adding" /\ (e = op[p].n \/ pool[e] > 0) /\ UNCHANGED stores
        /\ pool'[e] = IF e = op[p].n THEN pool[e] + 1 ELSE pool[e]
        /\ \A f \in Jobs : f # e => ent'[f] = ent[f] /\ pool'[f] = pool[f]
        /\ \A t \in Threads : op'[t] = IF t = p THEN Idle ELSE op[t]
    BY <1>9, AddFailedEffect
  <2>2. ent'[e].keep = o.keep
    BY <1>9, AddFailedEffect, RecordTypes
  <2>3. /\ \A s \in Stores, i \in Ids : stores[s][i] # e
        /\ \A t \in Threads : ~Owns(t, e)'
        /\ e = op[p].n => pool[e] = 0
        /\ e # op[p].n => pool[e] = 1
        /\ \A f \in Jobs, t \in Threads : f # e => (Owns(t, f)' => Owns(t, f))
    BY <2>1, <2>2, <1>7
  <2>4. Exclusive(e)'
    BY <1>0, <1>3, <2>1, <2>3
  <2>5. \A f \in Jobs : f # e => Exclusive(f)'
    BY <1>0, <1>1, <2>1, <2>3
  <2> QED BY <1>q, <2>4, <2>5
<1>10. ASSUME NEW t \in Threads, NEW id \in Ids, NEW err \in Errs, Taken(t, id, err)
      PROVE  OneOwner'
  <2>0. PICK e \in Jobs : e = stores[cur][id]
    BY <1>10, TakenEffect
  <2>1. /\ op[t].at = "idle" /\ op[t].left = {} /\ UNCHANGED pool
        /\ \A s \in Stores, i \in Ids :
             stores'[s][i] =
               IF ~ent[e].keep /\ s = cur /\ i = id THEN 0 ELSE stores[s][i]
        /\ \A f \in Jobs : ent'[f].keep = ent[f].keep
        /\ \A u \in Threads : u # t => op'[u] = op[u]
        /\ op'[t].at = "deliver" /\ op'[t].n = e /\ op'[t].left = {}
    BY <1>10, <2>0, TakenEffect
  <2>2. \A f \in Jobs, u \in Threads : Owns(u, f)' =>
          Owns(u, f) \/ (u = t /\ f = e /\ ~ent[e].keep)
    BY <2>1 DEF Owns
  <2>3. /\ pool[e] = 0 /\ \A u \in Threads : ~Owns(u, e)
        /\ \A s \in Stores, i \in Ids : stores[s][i] = e => s = cur /\ i = id
    BY <1>0, <2>0 DEF Exclusive
  <2>4. Exclusive(e)'
    <3>1. CASE ent[e].keep
      BY <1>0, <1>1, <2>1, <2>2, <3>1
    <3>2. CASE ~ent[e].keep
      BY <1>0, <1>2, <2>1, <2>2, <2>3, <3>2
    <3> QED BY <3>1, <3>2
  <2>5. \A f \in Jobs : f # e => Exclusive(f)'
    BY <1>0, <1>1, <2>1, <2>2
  <2> QED BY <1>q, <2>4, <2>5
<1>11. ASSUME NEW p \in Procs, NEW id \in Ids, Remove(p, id) PROVE OneOwner'
  <2>0. PICK e \in Jobs : e = stores[cur][id]
    BY <1>11, RemoveEffect
  <2>1. /\ op[p].at = "idle" /\ op[p].left = {} /\ UNCHANGED <<ent, pool>>
        /\ \A s \in Stores, i \in Ids :
             stores'[s][i] = IF s = cur /\ i = id THEN 0 ELSE stores[s][i]
        /\ \A u \in Threads : u # p => op'[u] = op[u]
        /\ op'[p].at = "remove" /\ op'[p].n = e /\ op'[p].left = {}
    BY <1>11, <2>0, RemoveEffect
  <2>2. \A f \in Jobs, u \in Threads : Owns(u, f)' => Owns(u, f) \/ (u = p /\ f = e)
    BY <2>1 DEF Owns
  <2>3. /\ pool[e] = 0 /\ \A u \in Threads : ~Owns(u, e)
        /\ \A s \in Stores, i \in Ids : stores[s][i] = e => s = cur /\ i = id
    BY <1>0, <2>0 DEF Exclusive
  <2>4. Exclusive(e)'
    BY <1>0, <1>2, <2>1, <2>2, <2>3
  <2>5. \A f \in Jobs : f # e => Exclusive(f)'
    BY <1>0, <1>1, <2>1, <2>2
  <2> QED BY <1>q, <2>4, <2>5
<1>12. ASSUME NEW t \in Threads, NEW e \in Jobs, Owns(t, e), UNCHANGED stores,
              pool'[e] = pool[e] + 1,
              \A f \in Jobs : f # e => pool'[f] = pool[f],
              ~Owns(t, e)',
              \A u \in Threads, f \in Jobs : Owns(u, f)' => Owns(u, f)
       PROVE  OneOwner'
  <2>1. /\ pool[e] = 0 /\ \A u \in Threads : Owns(u, e) => u = t
        /\ \A s \in Stores, i \in Ids : stores[s][i] # e
    BY <1>0, <1>12 DEF Exclusive
  <2>2. Exclusive(e)'
    BY <1>3, <1>12, <2>1
  <2>3. \A f \in Jobs : f # e => Exclusive(f)'
    BY <1>0, <1>1, <1>12
  <2> QED BY <1>q, <2>2, <2>3
<1>13. ASSUME NEW p \in Procs, RemoveFinish(p) PROVE OneOwner'
  <2>0. PICK e \in Jobs : e = op[p].n
    BY <1>13, RemoveFinishEffect
  <2>1. /\ op[p].at = "remove" /\ op[p].left = {} /\ UNCHANGED stores
        /\ \A f \in Jobs : f # e => ent'[f] = ent[f] /\ pool'[f] = pool[f]
        /\ pool'[e] = pool[e] + 1 /\ ent'[e].keep = ent[e].keep
        /\ \A t \in Threads : op'[t] = IF t = p THEN Idle ELSE op[t]
    BY <1>13, <2>0, RemoveFinishEffect
  <2>2. \A u \in Threads, f \in Jobs : Owns(u, f)' => Owns(u, f) /\ u # p
    BY <2>0, <2>1, IdleFields DEF Owns
  <2>3. Owns(p, e)
    BY <2>0, <2>1 DEF Owns
  <2> QED BY <1>0, <1>12, <2>1, <2>2, <2>3
<1>14. ASSUME NEW p \in Procs, NEW at \in {"cancel", "close"},
              NEW err \in {"custom", "closed"}, Evicted(p, at, err)
       PROVE  OneOwner'
  <2>1. /\ UNCHANGED <<ent, pool>> /\ op[p].at \in {"idle", "close"} /\ op[p].left = {}
        /\ op'[p].at \in {"idle", "cancel", "close"}
        /\ \A u \in Threads : u # p => op'[u] = op[u]
    BY <1>14, EvictedEffect
  <2>2. PICK found \in SUBSET Stored :
          /\ \A s \in Stores, i \in Ids :
               stores'[s][i] = IF s = cur /\ i \in found THEN 0 ELSE stores[s][i]
          /\ \A e \in Jobs : e \in op'[p].left <=> \E i \in found : stores[cur][i] = e
    BY <1>14, EvictedEffect
  <2>3. \A f \in Jobs, u \in Threads : Owns(u, f)' =>
          Owns(u, f) \/ (u = p /\ f \in op'[p].left)
    BY <2>1 DEF Owns
  <2>4. ASSUME NEW f \in Jobs, f \in op'[p].left PROVE Exclusive(f)'
    <3>1. PICK i \in found : stores[cur][i] = f
      BY <2>2, <2>4
    <3>2. i \in Ids
      BY <2>2, <3>1 DEF Stored
    <3>3. /\ pool[f] = 0 /\ \A u \in Threads : ~Owns(u, f)
          /\ \A s \in Stores, k \in Ids : stores[s][k] = f => s = cur /\ k = i
      BY <1>0, <3>1, <3>2 DEF Exclusive
    <3>4. \A s \in Stores, k \in Ids : stores'[s][k] # f
      BY <1>0, <2>2, <3>1, <3>3
    <3> QED BY <1>0, <1>2, <2>1, <2>3, <3>3, <3>4
  <2>5. ASSUME NEW f \in Jobs, f \notin op'[p].left PROVE Exclusive(f)'
    BY <1>0, <1>1, <2>1, <2>2, <2>3, <2>5
  <2> QED BY <1>q, <2>4, <2>5
<1>15. ASSUME NEW p \in Procs, NEW e \in Jobs, ClosePending(p, e) PROVE OneOwner'
  <2>1. /\ e \in op[p].left /\ UNCHANGED stores
        /\ \A f \in Jobs : f # e => ent'[f] = ent[f] /\ pool'[f] = pool[f]
        /\ pool'[e] = pool[e] + 1 /\ ent'[e].keep = ent[e].keep
        /\ \A t \in Threads : t # p => op'[t] = op[t]
        /\ op'[p].at \in {"idle", "cancel", "close"} /\ op'[p].left = op[p].left \ {e}
    BY <1>15, ClosePendingEffect
  <2>2. \A u \in Threads, f \in Jobs : Owns(u, f)' => Owns(u, f) /\ ~(u = p /\ f = e)
    BY <2>1 DEF Owns
  <2>3. Owns(p, e)
    BY <2>1 DEF Owns
  <2> QED BY <1>0, <1>12, <2>1, <2>2, <2>3
<1>16. ASSUME NEW t \in Threads, Deliver(t) PROVE OneOwner'
  <2>1. /\ UNCHANGED <<pool, stores, ent>> /\ op[t].at = "deliver"
        /\ \A u \in Threads : u # t => op'[u] = op[u]
        /\ op'[t].at = "recycle" /\ op'[t].n = op[t].n /\ op'[t].left = {}
    BY <1>16, DeliverEffect
  <2>2. \A u \in Threads, e \in Jobs : Owns(u, e)' => Owns(u, e)
    BY <2>1 DEF Owns
  <2> QED BY <1>0, <1>1, <1>q, <2>1, <2>2
<1>17. ASSUME NEW t \in Threads, Recycle(t) PROVE OneOwner'
  <2>0. PICK e \in Jobs : e = op[t].n
    BY <1>17, RecycleEffect
  <2>1. /\ op[t].at = "recycle" /\ op[t].left = {} /\ UNCHANGED stores
        /\ \A f \in Jobs : f # e \/ ent[e].keep => ent'[f] = ent[f] /\ pool'[f] = pool[f]
        /\ ~ent[e].keep => pool'[e] = pool[e] + 1 /\ ent'[e].keep = ent[e].keep
        /\ \A u \in Threads : op'[u] = IF u = t THEN Idle ELSE op[u]
    BY <1>17, <2>0, RecycleEffect
  <2>2. \A u \in Threads, f \in Jobs : Owns(u, f)' => Owns(u, f) /\ u # t
    BY <2>0, <2>1, IdleFields DEF Owns
  <2>3. CASE ent[e].keep
    BY <1>0, <1>1, <1>q, <2>1, <2>2, <2>3
  <2>4. CASE ~ent[e].keep
    <3>1. Owns(t, e)
      BY <2>0, <2>1, <2>4 DEF Owns
    <3> QED BY <1>12, <2>0, <2>1, <2>2, <2>4, <3>1
  <2> QED BY <2>3, <2>4
<1>18. CASE Quiet
  <2>1. UNCHANGED <<pool, stores, ent, op>>
    BY <1>18 DEF Quiet
  <2>2. \A u \in Threads, e \in Jobs : Owns(u, e)' => Owns(u, e)
    BY <2>1 DEF Owns
  <2> QED BY <1>0, <1>1, <1>q, <2>1, <2>2
<1> QED BY StepCases, <1>5, <1>6, <1>8, <1>9, <1>10, <1>11, <1>13, <1>14, <1>15, <1>16,
           <1>17, <1>18

-----------------------------------------------------------------------------
(* A new manager satisfies EntryInv.                                        *)
LEMMA InitEntryInv ==
  ASSUME UniformPrograms, Init
  PROVE  EntryInv
<1>1. TypeOK
  <2>1. /\ counter \in 0..MaxJobs /\ closed \in BOOLEAN /\ cur \in Stores /\ ops \in 0..MaxOps
        /\ pool \in [Jobs -> Nat] /\ wait \in [Waiters -> 0..MaxJobs]
    <3>1. 0 \in 0..MaxJobs /\ 0 \in Stores /\ 0 \in 0..MaxOps
      BY Bounds DEF Stores
    <3> QED BY <3>1 DEF Init, NewManager
  <2>5. stores \in [Stores -> [Ids -> 0..MaxJobs]]
    BY Bounds DEF Init, NewManager
  <2>2. /\ ent \in [Jobs -> Entries] /\ op \in [Threads -> Operations]
        /\ opt \in [Jobs -> Options]
    BY RecordTypes DEF Init
  <2>3. chan \in [Jobs -> Channels]
    <3>1. [buf |-> <<>>, closes |-> 0] \in Channels
      BY DEF Channels
    <3> QED BY <3>1 DEF Init
  <2>4. /\ watch \in [Watchers -> WatchStates] /\ program \in Programs /\ added \subseteq Jobs
        /\ calls \in [Jobs -> Seq(Errs)] /\ removed \subseteq 0..MaxJobs
    BY DEF Init, WatchStates
  <2>6. under \in [Jobs -> Ids]
    BY JobsAssumption DEF Init
  <2> QED BY <2>1, <2>2, <2>3, <2>4, <2>5, <2>6 DEF TypeOK
<1>2. \A t \in Threads : op[t].at = "idle" /\ op[t].left = {}
  BY IdleFields DEF Init
<1>3. Shape
  BY <1>2, ThreadNames DEF Shape, Working, Init
<1>4. \A e \in Jobs :
        /\ pool[e] = 0
        /\ \A s \in Stores, i \in Ids : stores[s][i] # e
        /\ \A t \in Threads : ~Holds(t, e) /\ ~Owns(t, e)
  BY <1>2, JobNames DEF Init, NewManager, Holds, Owns, Working
<1>5. Numbers /\ OneOwner
  BY <1>2, <1>4 DEF Numbers, OneOwner, Exclusive
<1>6. Kept
  <2>1. OneShots \/ Streams
    BY DEF UniformPrograms, OneShots, Streams, Init
  <2>2. \A e \in Jobs : ~ent[e].keep /\ ~Used(e)
    BY <1>4, RecordTypes DEF Init, Used
  <2> QED BY <2>1, <2>2 DEF Kept
<1> QED BY <1>1, <1>3, <1>5, <1>6 DEF EntryInv

(* EntryInv is inductive.                                                   *)
LEMMA StepEntryInv ==
  ASSUME DeletesWork, EntryInv, [Next]_vars
  PROVE  EntryInv'
BY TypeStep, ShapeStep, NumbersStep, ExclusiveStep, KeepStep DEF EntryInv

(* One place at most in Slots and Hands, and one of the two at most.       *)
LEMMA EntryInvExclusive ==
  ASSUME EntryInv
  PROVE  EntryExclusive
<1> SUFFICES ASSUME NEW e \in Jobs
             PROVE  pool[e] + Cardinality(Slots(e)) + Cardinality(Hands(e)) <= 1
  BY DEF EntryExclusive, EntryInv
<1>1. pool[e] \in {0, 1} /\ Exclusive(e)
  BY DEF EntryInv, OneOwner, Exclusive, TypeOK
<1>2. /\ \A x \in Slots(e) : x[1] \in Stores /\ x[2] \in Ids /\ stores[x[1]][x[2]] = e
                             /\ x = <<x[1], x[2]>>
      /\ \A t \in Hands(e) : t \in Threads /\ Owns(t, e)
  BY DEF Slots, Hands, Owns
<1>3. \A x, y \in Slots(e) : x = y
  BY <1>1, <1>2 DEF Exclusive
<1>4. \A t, u \in Hands(e) : t = u
  BY <1>1, <1>2 DEF Exclusive
<1>5. ASSUME NEW S, \A x, y \in S : x = y
      PROVE  (Cardinality(S) = 0 /\ S = {}) \/ Cardinality(S) = 1
  <2>1. CASE S = {}
    BY <2>1, FS_EmptySet
  <2>2. CASE S # {}
    <3>1. PICK x \in S : TRUE
      BY <2>2
    <3>2. S = {x}
      BY <1>5, <3>1
    <3> QED BY <3>2, FS_Singleton
  <2> QED BY <2>1, <2>2
<1>6. /\ (Cardinality(Slots(e)) = 0 /\ Slots(e) = {}) \/ Cardinality(Slots(e)) = 1
      /\ (Cardinality(Hands(e)) = 0 /\ Hands(e) = {}) \/ Cardinality(Hands(e)) = 1
  BY <1>3, <1>4, <1>5
<1>7. /\ Slots(e) # {} => pool[e] = 0 /\ Hands(e) = {}
      /\ Hands(e) # {} => pool[e] = 0
  BY <1>1, <1>2 DEF Exclusive
<1>8. \A a, b, c \in {0, 1} : (b = 1 => a = 0 /\ c = 0) /\ (c = 1 => a = 0) => a + b + c <= 1
  OBVIOUS
<1>9. /\ Cardinality(Slots(e)) \in {0, 1} /\ Cardinality(Hands(e)) \in {0, 1}
      /\ Cardinality(Slots(e)) = 1 => pool[e] = 0 /\ Cardinality(Hands(e)) = 0
      /\ Cardinality(Hands(e)) = 1 => pool[e] = 0
  BY <1>6, <1>7, FS_EmptySet
<1> QED BY <1>1, <1>8, <1>9

(* An entry is in the pool, or tracked under one id, or with one goroutine  *)
(* (jobs.go:110-111): Resolve, Remove, CancelAll, Close, timers and contexts*)
(* may race in any way, over any SetStore and any failure of store.Add,     *)
(* store.Get, store.Len and store.GetAll.                                   *)
THEOREM JobsEntries ==
  ASSUME UniformPrograms, DeletesWork
  PROVE  Spec => []EntryExclusive
<1>1. Init => EntryInv
  BY InitEntryInv
<1>2. EntryInv /\ [Next]_vars => EntryInv'
  BY StepEntryInv
<1>3. EntryInv => EntryExclusive
  BY EntryInvExclusive
<1> QED BY <1>1, <1>2, <1>3, PTL DEF Spec

-----------------------------------------------------------------------------
(* What Add writes to the entry.                                            *)
LEMMA FilledFields ==
  ASSUME NEW n \in Jobs, NEW o \in Options
  PROVE  /\ Filled(n, o).job = n
         /\ Filled(n, o).cb = IF o.cb THEN n ELSE 0
         /\ Filled(n, o).ch \in {0, n}
         /\ \A k \in Kinds : Filled(n, o).stop[k] = IF k \in o.watch THEN n ELSE 0
BY DEF Filled

(* Every step keeps Fields.                                                 *)
LEMMA FieldsStep ==
  ASSUME DeletesWork, EntryInv, Fields, [Next]_vars
  PROVE  Fields'
<1> USE DEF history, control
<1>0. /\ Procs \subseteq Threads /\ TypeOK /\ Shape /\ Numbers /\ Kept
      /\ \A e \in Jobs : Exclusive(e)
      /\ \A e \in Jobs : ent[e].keep \in BOOLEAN /\ ent[e].job \in 0..MaxJobs
      /\ \A t \in Threads : op[t].n \in 0..MaxJobs
      /\ added \subseteq Jobs
  BY DEF EntryInv, Threads, OneOwner, TypeOK, Entries, Operations
<1>u. \A n \in Jobs : Unborn(n)' => Unborn(n)
  BY <1>0, UnbornStep
<1> DEFINE Names(e) ==
             /\ ent'[e].cb \in {0, ent'[e].job} /\ ent'[e].ch \in {0, ent'[e].job}
             /\ ent'[e].job \in {0, ent[e].job}
           Empty(t) == op'[t].at \in {"deliver", "recycle"} /\ ~ent'[op'[t].n].keep
                         => ent'[op'[t].n].ch = 0
<1>1. ASSUME \A e \in Jobs : Names(e), \A t \in Threads : Empty(t),
             UNCHANGED <<added, opt, program>>
      PROVE  Fields'
  <2>1. \A e \in Jobs : ent'[e].cb \in {0, ent'[e].job} /\ ent'[e].ch \in {0, ent'[e].job}
    BY <1>1
  <2>2. \A e, f \in Jobs : ent'[e].job = ent'[f].job /\ ent'[e].job # 0 => e = f
    BY <1>1 DEF Fields
  <2>3. \A n \in Jobs : Unborn(n)' => n \notin added' /\ \A e \in Jobs : ent'[e].job # n
    BY <1>1, <1>u, JobNames DEF Fields
  <2>4. \A j \in added' : opt'[j] \in program'
    BY <1>1 DEF Fields
  <2> QED BY <1>1, <2>1, <2>2, <2>3, <2>4 DEF Fields
<1>2. ASSUME ent' = ent PROVE \A e \in Jobs : Names(e)
  BY <1>2 DEF Fields
<1> HIDE DEF Names
<1>3. ASSUME NEW t \in Threads,
             op'[t].at \in {"deliver", "recycle"} => op[t].at \in {"deliver", "recycle"}
                                  /\ op'[t].n = op[t].n,
             ent'[op[t].n] = ent[op[t].n]
      PROVE  Empty(t)
  BY <1>3 DEF Fields
<1> HIDE DEF Empty
<1>4. ASSUME NEW p \in Procs, NextID(p) PROVE Fields'
  <2>1. /\ op'[p].at = "adding" /\ UNCHANGED <<ent, added, opt, program>>
        /\ \A t \in Threads : t # p => op'[t] = op[t]
    BY <1>0, <1>4, NextIDEffect
  <2>2. \A t \in Threads : Empty(t)
    BY <1>3, <2>1
  <2> QED BY <1>1, <1>2, <2>1, <2>2
<1>5. ASSUME NEW p \in Procs, Ended(p) PROVE Fields'
  <2>1. \A t \in Threads : Empty(t)
    BY <1>5, <1>3, IdleFields DEF Ended
  <2> QED BY <1>1, <1>2, <1>5, <2>1 DEF Ended
<1>6. ASSUME NEW p \in Procs, NEW o \in program, NEW e \in Jobs, NEW n \in Jobs,
             op[p].at = "adding", n = op[p].n, n <= counter, counter' = counter,
             program' = program, o \in Options,
             e = n \/ pool[e] > 0, ent'[e] = Filled(n, o),
             \A f \in Jobs : f # e => ent'[f] = ent[f],
             \A t \in Threads : op'[t] = IF t = p THEN Idle ELSE op[t],
             \/ UNCHANGED <<added, opt>>
             \/ added' = added \cup {n} /\ \A j \in Jobs : opt'[j] = IF j = n THEN o ELSE opt[j]
      PROVE  Fields'
  <2>1. Unborn(n) /\ ~Unborn(n)'
    <3>1. \A t \in Threads : ~(op'[t].at = "adding" /\ op'[t].n = n)
      BY <1>0, <1>6, IdleFields DEF Numbers
    <3>2. n \in Nat /\ counter \in Nat
      BY <1>0, Bounds, JobNames DEF TypeOK
    <3>3. ~(n > counter')
      BY <1>6, <3>2
    <3> QED BY <1>0, <1>6, <3>1, <3>3 DEF Unborn
  <2>2. \A t \in Threads : ~Owns(t, e)
    BY <1>0, <1>6, <2>1 DEF Exclusive, Numbers, Owns, Holds, Working
  <2>3. /\ ent'[e].job = n /\ ent'[e].cb \in {0, n} /\ ent'[e].ch \in {0, n}
        /\ ent'[e].keep = o.keep
    BY <1>6, FilledFields, RecordTypes
  <2>4. ~ent'[e].keep => ~ent[e].keep
    BY <1>0, <1>6, <2>3 DEF Kept, OneShots, Streams
  <2>5. \A t \in Threads : Empty(t)
    <3> TAKE t \in Threads
    <3>1. CASE op[t].n = e
      BY <1>0, <1>6, <2>2, <2>4, <3>1, IdleFields DEF Empty, Owns
    <3>2. CASE op[t].n # e /\ op[t].at \in {"deliver", "recycle"}
      <4>1. op[t].n \in Jobs
        BY <1>0, <3>2, JobNames DEF Shape, Working
      <4> QED BY <1>3, <1>6, <3>2, <4>1, IdleFields
    <3>3. CASE op[t].at \notin {"deliver", "recycle"}
      BY <1>6, <3>3, IdleFields DEF Empty
    <3> QED BY <3>1, <3>2, <3>3
  <2>6. \A f \in Jobs : ent'[f].cb \in {0, ent'[f].job} /\ ent'[f].ch \in {0, ent'[f].job}
    BY <1>6, <2>3 DEF Fields
  <2>7. \A f \in Jobs : f # e => ent'[f].job # n
    BY <1>6, <2>1 DEF Fields
  <2>8. \A f, g \in Jobs : ent'[f].job = ent'[g].job /\ ent'[f].job # 0 => f = g
    BY <1>6, <2>3, <2>7 DEF Fields
  <2>9. \A m \in Jobs : Unborn(m)' => m \notin added' /\ \A f \in Jobs : ent'[f].job # m
    <3> TAKE m \in Jobs
    <3>1. Unborn(m)' => m # n /\ Unborn(m)
      BY <1>u, <2>1
    <3> QED BY <1>6, <2>3, <3>1 DEF Fields
  <2>10. \A j \in added' : opt'[j] \in program'
    BY <1>0, <1>6 DEF Fields
  <2> QED BY <2>5, <2>6, <2>8, <2>9, <2>10 DEF Fields, Empty
<1>7. ASSUME NEW p \in Procs, NEW id \in Ids, NEW o \in program, NEW e \in Jobs,
             Add(p, id, o, e) PROVE Fields'
  <2>1. PICK n \in Jobs : n = op[p].n
    BY <1>0, <1>7, AddEffect
  <2>2. /\ op[p].at = "adding" /\ (e = n \/ pool[e] > 0) /\ o \in Options
        /\ UNCHANGED <<counter, program>> /\ n <= counter /\ ent'[e] = Filled(n, o)
        /\ \A f \in Jobs : f # e => ent'[f] = ent[f]
        /\ \A t \in Threads : op'[t] = IF t = p THEN Idle ELSE op[t]
        /\ added' = added \cup {n}
        /\ \A j \in Jobs : opt'[j] = IF j = n THEN o ELSE opt[j]
    BY <1>0, <1>7, <2>1, AddEffect
  <2> QED BY <1>6, <2>1, <2>2
<1>8. ASSUME NEW p \in Procs, NEW id \in Ids, NEW o \in program, NEW e \in Jobs,
             NEW late \in SUBSET o.watch, AddFailed(p, id, o, e, late)
      PROVE  Fields'
  <2>1. PICK n \in Jobs : n = op[p].n
    BY <1>0, <1>8, AddFailedEffect
  <2>2. /\ op[p].at = "adding" /\ (e = n \/ pool[e] > 0) /\ o \in Options
        /\ UNCHANGED <<counter, program>> /\ n <= counter /\ ent'[e] = Filled(n, o)
        /\ \A f \in Jobs : f # e => ent'[f] = ent[f]
        /\ \A t \in Threads : op'[t] = IF t = p THEN Idle ELSE op[t]
        /\ UNCHANGED <<added, opt>>
    BY <1>0, <1>8, <2>1, AddFailedEffect
  <2> QED BY <1>6, <2>1, <2>2
<1>9. ASSUME NEW t \in Threads, NEW id \in Ids, NEW err \in Errs, Taken(t, id, err)
      PROVE  Fields'
  <2>1. PICK e \in Jobs : e = stores[cur][id]
    BY <1>0, <1>9, TakenEffect
  <2>2. /\ \A f \in Jobs :
             /\ ent'[f].job = ent[f].job /\ ent'[f].cb = ent[f].cb
             /\ ent'[f].keep = ent[f].keep
             /\ ent'[f].ch = IF f = e THEN 0 ELSE ent[f].ch
        /\ op'[t].n = e
        /\ \A u \in Threads : u # t => op'[u] = op[u]
        /\ UNCHANGED <<added, opt, program>>
    BY <1>0, <1>9, <2>1, TakenEffect
  <2>3. \A f \in Jobs : Names(f)
    BY <2>2 DEF Names, Fields
  <2>4. \A u \in Threads : Empty(u)
    <3> TAKE u \in Threads
    <3>1. CASE u = t
      BY <2>2, <3>1 DEF Empty
    <3>2. CASE u # t /\ op[u].at \in {"deliver", "recycle"}
      <4>1. op[u].n \in Jobs
        BY <1>0, <3>2, JobNames DEF Shape, Working
      <4> QED BY <2>2, <3>2, <4>1 DEF Empty, Fields
    <3>3. CASE u # t /\ op[u].at \notin {"deliver", "recycle"}
      BY <2>2, <3>3 DEF Empty
    <3> QED BY <3>1, <3>2, <3>3
  <2> QED BY <1>1, <2>2, <2>3, <2>4
<1>10. ASSUME NEW p \in Procs, NEW id \in Ids, Remove(p, id) PROVE Fields'
  <2>1. /\ UNCHANGED <<ent, added, opt, program>> /\ op'[p].at = "remove"
        /\ \A u \in Threads : u # p => op'[u] = op[u]
    BY <1>0, <1>10, RemoveEffect
  <2>2. \A t \in Threads : Empty(t)
    BY <1>3, <2>1
  <2> QED BY <1>1, <1>2, <2>1, <2>2
<1>11. ASSUME NEW p \in Threads, NEW e \in Jobs, Owns(p, e),
              op'[p].at \notin {"deliver", "recycle"},
              \A u \in Threads : u # p => op'[u] = op[u],
              ent'[e].job = 0, ent'[e].cb = 0, ent'[e].ch = 0, ent'[e].keep = ent[e].keep,
              \A f \in Jobs : f # e => ent'[f] = ent[f],
              UNCHANGED <<added, opt, program>>
       PROVE  Fields'
  <2>1. \A f \in Jobs : Names(f)
    BY <1>11 DEF Names, Fields
  <2>2. \A u \in Threads : Empty(u)
    <3> TAKE u \in Threads
    <3>1. CASE u = p \/ op[u].at \notin {"deliver", "recycle"}
      BY <1>11, <3>1 DEF Empty
    <3>2. CASE u # p /\ op[u].at \in {"deliver", "recycle"}
      <4>1. op[u].n \in Jobs
        BY <1>0, <3>2, JobNames DEF Shape, Working
      <4>2. CASE op[u].n = e
        BY <1>11, <3>2, <4>2 DEF Empty
      <4>3. CASE op[u].n # e
        BY <1>3, <1>11, <3>2, <4>1, <4>3
      <4> QED BY <4>2, <4>3
    <3> QED BY <3>1, <3>2
  <2> QED BY <1>1, <1>11, <2>1, <2>2
<1>12. ASSUME NEW p \in Procs, RemoveFinish(p) PROVE Fields'
  <2>1. PICK e \in Jobs : e = op[p].n
    BY <1>0, <1>12, RemoveFinishEffect
  <2>2. /\ op[p].at = "remove" /\ UNCHANGED <<added, opt, program>>
        /\ ent'[e].job = 0 /\ ent'[e].cb = 0 /\ ent'[e].ch = 0 /\ ent'[e].keep = ent[e].keep
        /\ \A f \in Jobs : f # e => ent'[f] = ent[f]
        /\ \A t \in Threads : op'[t] = IF t = p THEN Idle ELSE op[t]
    BY <1>0, <1>12, <2>1, RemoveFinishEffect
  <2>3. Owns(p, e)
    BY <2>1, <2>2 DEF Owns
  <2> QED BY <1>0, <1>11, <2>2, <2>3, IdleFields
<1>13. ASSUME NEW p \in Procs, NEW at \in {"cancel", "close"},
              NEW err \in {"custom", "closed"}, Evicted(p, at, err)
       PROVE  Fields'
  <2>1. /\ UNCHANGED <<ent, added, opt, program>> /\ op'[p].at \in {"idle", "cancel", "close"}
        /\ \A u \in Threads : u # p => op'[u] = op[u]
    BY <1>0, <1>13, EvictedEffect
  <2>2. \A t \in Threads : Empty(t)
    BY <1>3, <2>1
  <2> QED BY <1>1, <1>2, <2>1, <2>2
<1>14. ASSUME NEW p \in Procs, NEW e \in Jobs, ClosePending(p, e) PROVE Fields'
  <2>1. /\ e \in op[p].left /\ UNCHANGED <<added, opt, program>>
        /\ ent'[e].job = 0 /\ ent'[e].cb = 0 /\ ent'[e].ch = 0 /\ ent'[e].keep = ent[e].keep
        /\ \A f \in Jobs : f # e => ent'[f] = ent[f]
        /\ op'[p].at \in {"idle", "cancel", "close"}
        /\ \A t \in Threads : t # p => op'[t] = op[t]
    BY <1>0, <1>14, ClosePendingEffect
  <2>2. Owns(p, e)
    BY <2>1 DEF Owns
  <2> QED BY <1>0, <1>11, <2>1, <2>2
<1>15. ASSUME NEW t \in Threads, Deliver(t) PROVE Fields'
  <2>1. /\ op[t].at = "deliver" /\ op'[t].n = op[t].n /\ UNCHANGED <<ent, added, opt, program>>
        /\ \A u \in Threads : u # t => op'[u] = op[u]
    BY <1>0, <1>15, DeliverEffect
  <2>2. \A u \in Threads : Empty(u)
    BY <1>3, <2>1
  <2> QED BY <1>1, <1>2, <2>1, <2>2
<1>16. ASSUME NEW t \in Threads, Recycle(t) PROVE Fields'
  <2>1. PICK e \in Jobs : e = op[t].n
    BY <1>0, <1>16, RecycleEffect
  <2>2. /\ op[t].at = "recycle" /\ UNCHANGED <<added, opt, program>>
        /\ \A f \in Jobs : f # e \/ ent[e].keep => ent'[f] = ent[f]
        /\ ~ent[e].keep =>
             /\ ent'[e].job = 0 /\ ent'[e].cb = 0
             /\ ent'[e].ch = ent[e].ch /\ ent'[e].keep = ent[e].keep
        /\ \A u \in Threads : op'[u] = IF u = t THEN Idle ELSE op[u]
    BY <1>0, <1>16, <2>1, RecycleEffect
  <2>3. CASE ent[e].keep
    <3>1. \A f \in Jobs : Names(f)
      BY <2>2, <2>3 DEF Names, Fields
    <3>2. \A u \in Threads : Empty(u)
      <4> TAKE u \in Threads
      <4>1. CASE op[u].at \in {"deliver", "recycle"}
        <5>1. op[u].n \in Jobs
          BY <1>0, <4>1, JobNames DEF Shape, Working
        <5> QED BY <1>3, <2>2, <2>3, <5>1, IdleFields
      <4>2. CASE op[u].at \notin {"deliver", "recycle"}
        BY <2>2, <4>2, IdleFields DEF Empty
      <4> QED BY <4>1, <4>2
    <3> QED BY <1>1, <2>2, <3>1, <3>2
  <2>4. CASE ~ent[e].keep
    <3>1. Owns(t, e) /\ ent[e].ch = 0
      BY <2>1, <2>2, <2>4 DEF Owns, Fields
    <3> QED BY <1>0, <1>11, <2>2, <2>4, <3>1, IdleFields
  <2> QED BY <2>3, <2>4
<1>17. CASE Quiet
  <2>1. UNCHANGED <<ent, op, added, opt, program>>
    BY <1>17 DEF Quiet
  <2>2. \A t \in Threads : Empty(t)
    BY <1>3, <2>1
  <2> QED BY <1>1, <1>2, <2>1, <2>2
<1> QED BY StepCases, <1>0, <1>4, <1>5, <1>7, <1>8, <1>9, <1>10, <1>12, <1>13, <1>14, <1>15,
           <1>16, <1>17

(* Every step keeps Tracked.                                                *)
LEMMA TrackedStep ==
  ASSUME DeletesWork, EntryInv, Tracked, [Next]_vars
  PROVE  Tracked'
<1> USE DEF history, control
<1>0. /\ Procs \subseteq Threads /\ TypeOK /\ Shape
      /\ \A e \in Jobs : Exclusive(e)
      /\ \A s \in Stores, i \in Ids : stores[s][i] \in 0..MaxJobs
      /\ cur \in Stores
  BY DEF EntryInv, Threads, OneOwner, TypeOK
<1>1. ASSUME \A s \in Stores, i \in Ids : stores'[s][i] \in {stores[s][i], 0},
             \A e \in Jobs, s \in Stores, i \in Ids :
               stores[s][i] = e => ent'[e].job = ent[e].job,
             added \subseteq added'
      PROVE  Tracked'
  <2> SUFFICES ASSUME NEW s \in Stores, NEW i \in Ids, stores'[s][i] # 0
               PROVE  ent'[stores'[s][i]].job \in added'
    BY DEF Tracked
  <2>1. stores'[s][i] = stores[s][i] /\ stores[s][i] \in Jobs
    BY <1>0, <1>1, JobNames
  <2>2. ent'[stores[s][i]].job = ent[stores[s][i]].job
    BY <1>1, <2>1
  <2> QED BY <1>1, <2>1, <2>2, JobNames DEF Tracked
<1>2. ASSUME UNCHANGED <<stores, added>>, NEW e \in Jobs, NEW t \in Threads, Owns(t, e),
             \A f \in Jobs : f # e => ent'[f] = ent[f]
      PROVE  Tracked'
  <2>1. \A s \in Stores, i \in Ids : stores[s][i] # e
    BY <1>0, <1>2 DEF Exclusive
  <2> QED BY <1>1, <1>2, <2>1
<1>3. ASSUME NEW p \in Procs, NextID(p) PROVE Tracked'
  BY <1>0, <1>1, <1>3, NextIDEffect
<1>4. ASSUME NEW p \in Procs, Ended(p) PROVE Tracked'
  BY <1>1, <1>4 DEF Ended
<1>5. ASSUME NEW p \in Procs, NEW e \in Jobs, op[p].at = "adding", op[p].n \in Jobs,
             e = op[p].n \/ pool[e] > 0
      PROVE  \A s \in Stores, i \in Ids : stores[s][i] # e
  <2>1. CASE e = op[p].n
    <3>1. Unborn(e)
      BY <1>0, <1>5, <2>1 DEF Unborn
    <3> QED BY <3>1 DEF EntryInv, Numbers
  <2>2. CASE pool[e] > 0
    BY <1>0, <2>2 DEF Exclusive
  <2> QED BY <1>5, <2>1, <2>2
<1>6. ASSUME NEW p \in Procs, NEW id \in Ids, NEW o \in program, NEW e \in Jobs,
             Add(p, id, o, e) PROVE Tracked'
  <2>1. PICK n \in Jobs : n = op[p].n
    BY <1>0, <1>6, AddEffect
  <2>2. /\ op[p].at = "adding" /\ (e = n \/ pool[e] > 0) /\ o \in Options
        /\ ent'[e] = Filled(n, o)
        /\ \A s \in Stores, i \in Ids :
              stores'[s][i] = IF s = cur /\ i = id THEN e ELSE stores[s][i]
        /\ \A f \in Jobs : f # e => ent'[f] = ent[f]
        /\ added' = added \cup {n}
    BY <1>0, <1>6, <2>1, AddEffect
  <2>3. \A s \in Stores, i \in Ids : stores[s][i] # e
    BY <1>5, <2>1, <2>2
  <2>4. ent'[e].job = n
    BY <2>2, FilledFields
  <2>5. ASSUME NEW s \in Stores, NEW i \in Ids, stores'[s][i] # 0
        PROVE  ent'[stores'[s][i]].job \in added'
    <3>1. CASE s = cur /\ i = id
      BY <2>2, <2>4, <3>1
    <3>2. CASE ~(s = cur /\ i = id)
      <4>1. stores'[s][i] = stores[s][i] /\ stores[s][i] \in Jobs /\ stores[s][i] # e
        BY <1>0, <2>2, <2>3, <2>5, <3>2, JobNames
      <4> QED BY <2>2, <2>5, <4>1 DEF Tracked
    <3> QED BY <3>1, <3>2
  <2> QED BY <2>5 DEF Tracked
<1>7. ASSUME NEW p \in Procs, NEW id \in Ids, NEW o \in program, NEW e \in Jobs,
             NEW late \in SUBSET o.watch, AddFailed(p, id, o, e, late)
      PROVE  Tracked'
  <2>1. /\ op[p].at = "adding" /\ op[p].n \in Jobs /\ (e = op[p].n \/ pool[e] > 0)
        /\ \A f \in Jobs : f # e => ent'[f] = ent[f]
        /\ UNCHANGED <<stores, added>>
    BY <1>0, <1>7, AddFailedEffect
  <2>2. \A s \in Stores, i \in Ids : stores[s][i] # e
    BY <1>5, <2>1
  <2> QED BY <1>1, <2>1, <2>2
<1>8. ASSUME NEW t \in Threads, NEW id \in Ids, NEW err \in Errs, Taken(t, id, err)
      PROVE  Tracked'
  <2>1. /\ \A s \in Stores, i \in Ids : stores'[s][i] \in {stores[s][i], 0}
        /\ \A f \in Jobs : ent'[f].job = ent[f].job
        /\ UNCHANGED added
    BY <1>0, <1>8, TakenEffect
  <2> QED BY <1>1, <2>1
<1>9. ASSUME NEW p \in Procs, NEW id \in Ids, Remove(p, id) PROVE Tracked'
  <2>1. /\ \A s \in Stores, i \in Ids : stores'[s][i] \in {stores[s][i], 0}
        /\ UNCHANGED <<ent, added>>
    BY <1>0, <1>9, RemoveEffect
  <2> QED BY <1>1, <2>1
<1>10. ASSUME NEW p \in Procs, RemoveFinish(p) PROVE Tracked'
  <2>1. PICK e \in Jobs : e = op[p].n
    BY <1>0, <1>10, RemoveFinishEffect
  <2>2. /\ op[p].at = "remove" /\ UNCHANGED <<stores, added>>
        /\ \A f \in Jobs : f # e => ent'[f] = ent[f]
    BY <1>0, <1>10, <2>1, RemoveFinishEffect
  <2> QED BY <1>0, <1>2, <2>1, <2>2 DEF Owns
<1>11. ASSUME NEW p \in Procs, NEW at \in {"cancel", "close"},
              NEW err \in {"custom", "closed"}, Evicted(p, at, err)
       PROVE  Tracked'
  <2>1. /\ \A s \in Stores, i \in Ids : stores'[s][i] \in {stores[s][i], 0}
        /\ UNCHANGED <<ent, added>>
    BY <1>0, <1>11, EvictedEffect
  <2> QED BY <1>1, <2>1
<1>12. ASSUME NEW p \in Procs, NEW e \in Jobs, ClosePending(p, e) PROVE Tracked'
  <2>1. /\ e \in op[p].left /\ UNCHANGED <<stores, added>>
        /\ \A f \in Jobs : f # e => ent'[f] = ent[f]
    BY <1>0, <1>12, ClosePendingEffect
  <2> QED BY <1>0, <1>2, <2>1 DEF Owns
<1>13. ASSUME NEW t \in Threads, Deliver(t) PROVE Tracked'
  BY <1>0, <1>1, <1>13, DeliverEffect
<1>14. ASSUME NEW t \in Threads, Recycle(t) PROVE Tracked'
  <2>1. PICK e \in Jobs : e = op[t].n
    BY <1>0, <1>14, RecycleEffect
  <2>2. /\ op[t].at = "recycle" /\ UNCHANGED <<stores, added>>
        /\ \A f \in Jobs : f # e \/ ent[e].keep => ent'[f] = ent[f]
    BY <1>0, <1>14, <2>1, RecycleEffect
  <2>3. CASE ent[e].keep
    BY <1>1, <2>2, <2>3
  <2>4. CASE ~ent[e].keep
    BY <1>2, <2>1, <2>2, <2>4 DEF Owns
  <2> QED BY <2>3, <2>4
<1>15. CASE Quiet
  BY <1>1, <1>15 DEF Quiet
<1> QED BY StepCases, <1>0, <1>3, <1>4, <1>6, <1>7, <1>8, <1>9, <1>10, <1>11, <1>12, <1>13,
           <1>14, <1>15

-----------------------------------------------------------------------------
(* A channel that is closed by close, sent to and closed by deliver.       *)
LEMMA CloseEffect ==
  ASSUME TypeOK
  PROVE  \A c \in 0..MaxJobs : chan' = Close0(c) =>
           /\ \A j \in Jobs : j # c => chan'[j] = chan[j]
           /\ c \in Jobs => chan'[c].closes = chan[c].closes + 1
<1>1. \A x \in Channels : [x EXCEPT !.closes = @ + 1].closes = x.closes + 1
  BY DEF Channels
<1> QED BY <1>1 DEF Close0, TypeOK

(* The channel that Deliver sends to and closes.                            *)
LEMMA SendEffect ==
  ASSUME TypeOK, NEW t \in Threads, Deliver(t)
  PROVE  /\ \A j \in Jobs : j # op[t].ch => chan'[j] = chan[j]
         /\ op[t].ch \in Jobs => chan'[op[t].ch].closes = chan[op[t].ch].closes + 1
BY DEF Deliver, TypeOK

(* An open channel.                                                         *)
LEMMA OpenField == Open.closes = 0 /\ Open.buf = <<>>
BY DEF Open

(* Every step keeps ChannelsOpen.                                           *)
LEMMA ChannelsStep ==
  ASSUME DeletesWork, EntryInv, JobInv, ChannelsOpen, [Next]_vars
  PROVE  ChannelsOpen'
<1> USE DEF history, control
<1>0. /\ Procs \subseteq Threads /\ TypeOK /\ Shape /\ Fields
      /\ \A j \in Jobs : chan[j].closes \in Nat
      /\ \A e \in Jobs : ent[e].ch \in 0..MaxJobs /\ ent[e].job \in 0..MaxJobs
      /\ \A t \in Threads : op[t].ch \in 0..MaxJobs
      /\ added \subseteq Jobs
      /\ \A c \in 0..MaxJobs : c # 0 <=> c \in Jobs
  BY JobNames DEF EntryInv, JobInv, Threads, TypeOK, Channels, Entries, Operations
<1>u. \A n \in Jobs : Unborn(n)' => Unborn(n)
  BY <1>0, UnbornStep
<1>1. ASSUME \A j \in Jobs :
               chan'[j].closes = chan[j].closes /\ (chan[j] = Open => chan'[j] = Open),
             \A e \in Jobs : ent'[e].ch \in {0, ent[e].ch},
             \A t \in Threads : op'[t].at = "deliver" => op'[t] = op[t],
             added' = added
      PROVE  ChannelsOpen'
  BY <1>0, <1>u, <1>1 DEF ChannelsOpen
<1>2. ASSUME NEW c \in 0..MaxJobs,
             \A j \in Jobs : j # c => chan'[j] = chan[j],
             c \in Jobs => chan'[c].closes = chan[c].closes + 1 /\ chan[c] = Open /\ ~Unborn(c),
             \A e \in Jobs : ent'[e].ch \in {0, ent[e].ch},
             c # 0 => \A e \in Jobs : ent'[e].ch # c,
             \A t \in Threads : op'[t].at = "deliver" => op'[t] = op[t] /\ (c # 0 => op[t].ch # c),
             added' = added
      PROVE  ChannelsOpen'
  <2>1. CASE c = 0
    <3>1. \A j \in Jobs : chan'[j] = chan[j]
      BY <1>2, <2>1, JobNames
    <3> QED BY <1>1, <1>2, <3>1
  <2>2. CASE c # 0
    <3>1. c \in Jobs /\ chan'[c].closes = 1
      BY <1>0, <1>2, <2>2, OpenField
    <3>2. \A j \in Jobs : chan'[j].closes <= 1
      BY <1>0, <1>2, <3>1 DEF ChannelsOpen
    <3>3. \A n \in Jobs : Unborn(n)' => chan'[n] = Open
      BY <1>u, <1>2, <3>1 DEF ChannelsOpen
    <3>4. \A e \in Jobs : ent'[e].ch # 0 => chan'[ent'[e].ch] = Open
      BY <1>0, <1>2, <2>2 DEF ChannelsOpen
    <3>5. \A t \in Threads : op'[t].at = "deliver" /\ op'[t].ch # 0 =>
            /\ chan'[op'[t].ch] = Open
            /\ op'[t].ch \in added'
            /\ \A e \in Jobs : ent'[e].ch # op'[t].ch
            /\ \A u \in Threads : op'[u].at = "deliver" /\ op'[u].ch = op'[t].ch => u = t
      BY <1>0, <1>2, <2>2 DEF ChannelsOpen
    <3> QED BY <3>2, <3>3, <3>4, <3>5 DEF ChannelsOpen
  <2> QED BY <2>1, <2>2
<1>3. ASSUME NEW p \in Procs, NextID(p) PROVE ChannelsOpen'
  <2>1. /\ UNCHANGED <<chan, ent, added>> /\ op'[p].at = "adding"
        /\ \A t \in Threads : t # p => op'[t] = op[t]
    BY <1>0, <1>3, NextIDEffect
  <2> QED BY <1>1, <2>1
<1>4. ASSUME NEW p \in Procs, Ended(p) PROVE ChannelsOpen'
  BY <1>1, <1>4, IdleFields DEF Ended
<1>5. ASSUME NEW p \in Procs, NEW e \in Jobs, NEW n \in Jobs, n = op[p].n, op[p].at = "adding",
             UNCHANGED chan, ent'[e].ch \in {0, n},
             \A f \in Jobs : f # e => ent'[f] = ent[f],
             \A t \in Threads : op'[t] = IF t = p THEN Idle ELSE op[t],
             added' \in {added, added \cup {n}}
      PROVE  ChannelsOpen'
  <2>1. Unborn(n)
    BY <1>0, <1>5 DEF Unborn
  <2>2. chan[n] = Open /\ n \notin added
    BY <1>0, <2>1 DEF ChannelsOpen, Fields
  <2>3. \A f \in Jobs : ent'[f].ch # 0 => chan'[ent'[f].ch] = Open
    BY <1>5, <2>2 DEF ChannelsOpen
  <2>4. \A t \in Threads : op'[t].at = "deliver" /\ op'[t].ch # 0 =>
            /\ chan'[op'[t].ch] = Open
            /\ op'[t].ch \in added'
            /\ \A f \in Jobs : ent'[f].ch # op'[t].ch
            /\ \A u \in Threads : op'[u].at = "deliver" /\ op'[u].ch = op'[t].ch => u = t
    <3>1. \A t \in Threads : op'[t].at = "deliver" => op'[t] = op[t]
      BY <1>5, IdleFields
    <3> QED BY <1>5, <2>2, <3>1 DEF ChannelsOpen
  <2> QED BY <1>5, <1>u, <2>3, <2>4 DEF ChannelsOpen
<1>6. ASSUME NEW p \in Procs, NEW id \in Ids, NEW o \in program, NEW e \in Jobs,
             Add(p, id, o, e)
      PROVE  ChannelsOpen'
  <2>1. PICK n \in Jobs : n = op[p].n
    BY <1>0, <1>6, AddEffect
  <2>2. /\ op[p].at = "adding" /\ o \in Options /\ UNCHANGED chan /\ ent'[e] = Filled(n, o)
        /\ \A f \in Jobs : f # e => ent'[f] = ent[f]
        /\ \A t \in Threads : op'[t] = IF t = p THEN Idle ELSE op[t]
        /\ added' = added \cup {n}
    BY <1>0, <1>6, <2>1, AddEffect
  <2>3. ent'[e].ch \in {0, n}
    BY <2>2, FilledFields
  <2> QED BY <1>5, <2>1, <2>2, <2>3
<1>7. ASSUME NEW p \in Procs, NEW id \in Ids, NEW o \in program, NEW e \in Jobs,
             NEW late \in SUBSET o.watch, AddFailed(p, id, o, e, late)
      PROVE  ChannelsOpen'
  <2>1. PICK n \in Jobs : n = op[p].n
    BY <1>0, <1>7, AddFailedEffect
  <2>2. /\ op[p].at = "adding" /\ o \in Options /\ UNCHANGED chan /\ ent'[e] = Filled(n, o)
        /\ \A f \in Jobs : f # e => ent'[f] = ent[f]
        /\ \A t \in Threads : op'[t] = IF t = p THEN Idle ELSE op[t]
        /\ UNCHANGED added
    BY <1>0, <1>7, <2>1, AddFailedEffect
  <2>3. ent'[e].ch \in {0, n}
    BY <2>2, FilledFields
  <2> QED BY <1>5, <2>1, <2>2, <2>3
<1>8. ASSUME NEW t \in Threads, NEW id \in Ids, NEW err \in Errs, Taken(t, id, err)
      PROVE  ChannelsOpen'
  <2>1. PICK e \in Jobs : e = stores[cur][id]
    BY <1>0, <1>8, TakenEffect
  <2>2. /\ \A f \in Jobs : ent'[f].ch = IF f = e THEN 0 ELSE ent[f].ch
        /\ op'[t].ch = ent[e].ch
        /\ \A u \in Threads : u # t => op'[u] = op[u]
        /\ UNCHANGED <<chan, added>>
    BY <1>0, <1>8, <2>1, TakenEffect
  <2>3. ent[e].ch # 0 =>
          /\ ent[e].ch \in added /\ chan[ent[e].ch] = Open
          /\ \A f \in Jobs : f # e => ent[f].ch # ent[e].ch
          /\ \A u \in Threads : op[u].at = "deliver" => op[u].ch # ent[e].ch
    <3>1. ent[e].job \in added
      <4>1. cur \in Stores /\ stores[cur][id] # 0
        BY <1>0, <2>1, JobNames DEF TypeOK
      <4> QED BY <2>1, <4>1 DEF JobInv, Tracked
    <3>2. ent[e].ch # 0 => ent[e].ch = ent[e].job
      BY <1>0 DEF Fields
    <3>3. \A f \in Jobs : f # e => ent[e].ch = 0 \/ ent[f].ch # ent[e].ch
      BY <1>0, <3>2 DEF Fields
    <3> QED BY <3>1, <3>2, <3>3 DEF ChannelsOpen
  <2>4. \A f \in Jobs : ent'[f].ch # 0 => chan'[ent'[f].ch] = Open
    BY <2>2 DEF ChannelsOpen
  <2>5. \A u \in Threads : op'[u].at = "deliver" /\ op'[u].ch # 0 =>
            /\ chan'[op'[u].ch] = Open
            /\ op'[u].ch \in added'
            /\ \A f \in Jobs : ent'[f].ch # op'[u].ch
    <3> TAKE u \in Threads
    <3>1. CASE u = t
      BY <2>2, <2>3, <3>1
    <3>2. CASE u # t
      BY <2>2, <3>2 DEF ChannelsOpen
    <3> QED BY <3>1, <3>2
  <2>6. \A u, v \in Threads : op'[u].at = "deliver" /\ op'[v].at = "deliver" /\ op'[u].ch # 0
          /\ op'[v].ch = op'[u].ch => v = u
    BY <2>2, <2>3 DEF ChannelsOpen
  <2> QED BY <1>u, <2>2, <2>4, <2>5, <2>6 DEF ChannelsOpen
<1>9. ASSUME NEW p \in Procs, NEW id \in Ids, Remove(p, id) PROVE ChannelsOpen'
  <2>1. /\ UNCHANGED <<chan, ent, added>> /\ op'[p].at = "remove"
        /\ \A t \in Threads : t # p => op'[t] = op[t]
    BY <1>0, <1>9, RemoveEffect
  <2> QED BY <1>1, <2>1
<1>10. ASSUME NEW e \in Jobs, chan' = Close0(ent[e].ch), ent'[e].ch = 0,
              \A f \in Jobs : f # e => ent'[f] = ent[f],
              \A t \in Threads : op'[t].at = "deliver" => op'[t] = op[t],
              UNCHANGED added
       PROVE  ChannelsOpen'
  <2>1. PICK c \in 0..MaxJobs : c = ent[e].ch
    BY <1>0
  <2>2. /\ \A j \in Jobs : j # c => chan'[j] = chan[j]
        /\ c \in Jobs => chan'[c].closes = chan[c].closes + 1
    BY <1>0, <1>10, <2>1, CloseEffect
  <2>3. c # 0 => c = ent[e].job /\ chan[c] = Open
    BY <1>0, <2>1 DEF Fields, ChannelsOpen
  <2>4. c # 0 => ~Unborn(c)
    BY <1>0, <2>1, <2>3 DEF Fields
  <2>5. c # 0 => \A f \in Jobs : ent'[f].ch # c
    BY <1>0, <1>10, <2>1, <2>3 DEF Fields
  <2>6. c # 0 => \A t \in Threads : op[t].at = "deliver" => op[t].ch # c
    BY <2>1 DEF ChannelsOpen
  <2> QED BY <1>0, <1>2, <1>10, <2>2, <2>3, <2>4, <2>5, <2>6
<1>11. ASSUME NEW p \in Procs, RemoveFinish(p) PROVE ChannelsOpen'
  <2>1. PICK e \in Jobs : e = op[p].n
    BY <1>0, <1>11, RemoveFinishEffect
  <2>2. /\ chan' = Close0(ent[e].ch) /\ ent'[e].ch = 0 /\ UNCHANGED added
        /\ \A f \in Jobs : f # e => ent'[f] = ent[f]
        /\ \A t \in Threads : op'[t] = IF t = p THEN Idle ELSE op[t]
    BY <1>0, <1>11, <2>1, RemoveFinishEffect
  <2> QED BY <1>10, <2>2, IdleFields
<1>12. ASSUME NEW p \in Procs, NEW at \in {"cancel", "close"},
              NEW err \in {"custom", "closed"}, Evicted(p, at, err)
       PROVE  ChannelsOpen'
  <2>1. /\ UNCHANGED <<chan, ent, added>> /\ op'[p].at \in {"idle", "cancel", "close"}
        /\ \A t \in Threads : t # p => op'[t] = op[t]
    BY <1>0, <1>12, EvictedEffect
  <2> QED BY <1>1, <2>1
<1>13. ASSUME NEW p \in Procs, NEW e \in Jobs, ClosePending(p, e) PROVE ChannelsOpen'
  <2>1. /\ chan' = Close0(ent[e].ch) /\ ent'[e].ch = 0 /\ UNCHANGED added
        /\ \A f \in Jobs : f # e => ent'[f] = ent[f]
        /\ op'[p].at \in {"idle", "cancel", "close"}
        /\ \A t \in Threads : t # p => op'[t] = op[t]
    BY <1>0, <1>13, ClosePendingEffect
  <2> QED BY <1>10, <2>1
<1>14. ASSUME NEW t \in Threads, Deliver(t) PROVE ChannelsOpen'
  <2>1. /\ op[t].at = "deliver" /\ op'[t].at = "recycle" /\ UNCHANGED <<ent, added>>
        /\ \A u \in Threads : u # t => op'[u] = op[u]
    BY <1>0, <1>14, DeliverEffect
  <2>2. PICK c \in 0..MaxJobs : c = op[t].ch
    BY <1>0
  <2>3. /\ \A j \in Jobs : j # c => chan'[j] = chan[j]
        /\ c \in Jobs => chan'[c].closes = chan[c].closes + 1
    BY <1>0, <1>14, <2>2, SendEffect
  <2>4. c # 0 => /\ chan[c] = Open /\ c \in added /\ c \in Jobs
                 /\ \A e \in Jobs : ent[e].ch # c
                 /\ \A u \in Threads : op[u].at = "deliver" /\ op[u].ch = c => u = t
    BY <1>0, <2>1, <2>2 DEF ChannelsOpen
  <2>5. c # 0 => ~Unborn(c)
    BY <1>0, <2>4 DEF Fields
  <2>6. \A u \in Threads : op'[u].at = "deliver" => op'[u] = op[u] /\ (c # 0 => op[u].ch # c)
    BY <2>1, <2>4
  <2>7. c # 0 <=> c \in Jobs
    BY <1>0
  <2> QED BY <1>2, <2>1, <2>3, <2>4, <2>5, <2>6, <2>7
<1>15. ASSUME NEW t \in Threads, Recycle(t) PROVE ChannelsOpen'
  <2>1. /\ UNCHANGED <<chan, added>>
        /\ \A f \in Jobs : f # op[t].n \/ ent[op[t].n].keep => ent'[f] = ent[f]
        /\ ~ent[op[t].n].keep => ent'[op[t].n].ch = ent[op[t].n].ch
        /\ \A u \in Threads : op'[u] = IF u = t THEN Idle ELSE op[u]
    BY <1>0, <1>15, RecycleEffect
  <2> QED BY <1>1, <2>1, IdleFields
<1>16. CASE Quiet
  <2>1. UNCHANGED <<ent, op, added>>
    BY <1>16 DEF Quiet
  <2>2. \A j \in Jobs : chan'[j].closes = chan[j].closes /\ (chan[j] = Open => chan'[j] = Open)
    BY <1>16, OpenField DEF Quiet
  <2> QED BY <1>1, <2>1, <2>2
<1> QED BY StepCases, <1>0, <1>3, <1>4, <1>6, <1>7, <1>8, <1>9, <1>11, <1>12, <1>13, <1>14,
           <1>15, <1>16

-----------------------------------------------------------------------------
(* A program keeps its kind.                                                *)
LEMMA ProgramStep == [Next]_vars => program' = program
<1> SUFFICES ASSUME [Next]_vars PROVE program' = program
  OBVIOUS
<1> USE DEF control
<1>1. \A p \in Procs :
        \/ NextID(p) \/ (\E id \in Ids : AddRefused(p, id))
        \/ RemoveFinish(p) \/ CancelAll(p) \/ Close(p) \/ CloseMark(p)
        => program' = program
  BY DEF NextID, AddRefused, RemoveFinish, CancelAll, Close, CloseMark
<1>2. \A p \in Procs, id \in Ids, o \in program, e \in Jobs :
        Add(p, id, o, e) \/ (\E late \in SUBSET o.watch : AddFailed(p, id, o, e, late))
        => program' = program
  BY DEF Add, AddFailed
<1>3. \A p \in Procs, e \in Jobs : ClosePending(p, e) => program' = program
  BY DEF ClosePending
<1>4. \A p \in Procs, id \in Ids : Resolve(p, id) \/ Remove(p, id) => program' = program
  BY DEF Resolve, Remove
<1>5. \A t \in Threads : Deliver(t) \/ Recycle(t) => program' = program
  BY DEF Deliver, Recycle
<1>6. \A w \in Watchers : Fire(w) \/ FiredResolve(w) => program' = program
  BY DEF Fire, FiredResolve
<1>7. \A w \in Waiters, id \in Ids : WaitFor(w, id) => program' = program
  BY DEF WaitFor
<1>8. \A w \in Waiters : WaitReceive(w) \/ WaitCancelled(w) => program' = program
  BY DEF WaitReceive, WaitCancelled
<1>9. SetStore \/ UNCHANGED vars => program' = program
  BY DEF SetStore, vars
<1> QED BY <1>1, <1>2, <1>3, <1>4, <1>5, <1>6, <1>7, <1>8, <1>9 DEF Next

(* A callback is called.                                                    *)
LEMMA CalledEffect ==
  ASSUME TypeOK, NEW cb \in 0..MaxJobs, NEW err \in Errs, calls' = Called(cb, err)
  PROVE  /\ \A j \in Jobs : j # cb => calls'[j] = calls[j]
         /\ cb \in Jobs => calls'[cb] = Append(calls[cb], err)
BY DEF Called, TypeOK

(* Every step keeps Settled.                                                *)
LEMMA SettledStep ==
  ASSUME DeletesWork, EntryInv, JobInv, Settled, [Next]_vars
  PROVE  Settled'
<1> USE DEF history, control
<1> SUFFICES ASSUME OneShots PROVE Settled'
  BY ProgramStep DEF Settled, OneShots
<1>0. /\ Procs \subseteq Threads /\ TypeOK /\ Shape /\ Fields /\ Tracked
      /\ \A e \in Jobs : Exclusive(e) /\ ~ent[e].keep
      /\ cur \in Stores
      /\ \A s \in Stores, i \in Ids : stores[s][i] \in 0..MaxJobs
      /\ \A e \in Jobs : ent[e].cb \in 0..MaxJobs /\ ent[e].job \in 0..MaxJobs
      /\ \A j \in Jobs : calls[j] \in Seq(Errs)
      /\ \A t \in Threads : op[t].n \in 0..MaxJobs
      /\ added \subseteq Jobs
  BY DEF EntryInv, JobInv, Threads, OneOwner, Kept, TypeOK, Entries, Operations
<1>u. \A n \in Jobs : Unborn(n)' => Unborn(n)
  BY <1>0, UnbornStep
<1>s. /\ \A e \in Jobs : Active(e) => Waits(e)
      /\ \A t \in Threads : op[t].at = "deliver" => op[t].cb = ent[op[t].n].cb
      /\ \A j \in added : opt[j].cb => Accounted(j)
      /\ \A j \in Jobs : Len(calls[j]) <= 1 /\ (j \in removed => calls[j] = <<>>)
      /\ \A n \in Jobs : Unborn(n) => calls[n] = <<>> /\ n \notin removed
  BY DEF Settled
<1>n. \A t \in Threads : op[t].at \in {"deliver", "recycle", "remove"} => op[t].n \in Jobs
  BY <1>0, JobNames DEF Shape, Working
<1>a. \A e \in Jobs : Active(e) =>
        \/ \E s \in Stores, i \in Ids : stores[s][i] = e
        \/ \E t \in Threads : Owns(t, e)
  BY <1>0 DEF Active, Busy, Owns
<1> DEFINE Steady(e) == ent'[e].job = ent[e].job /\ ent'[e].cb = ent[e].cb
           Matching == \A t \in Threads : op'[t].at = "deliver" => op'[t].cb = ent'[op'[t].n].cb
<1>1. ASSUME \A e \in Jobs : Active(e)' <=> Active(e),
             \A e \in Jobs : Active(e) => Steady(e),
             Matching, UNCHANGED <<calls, removed, added, opt>>
      PROVE  Settled'
  <2>1. \A e \in Jobs : Active(e)' => Waits(e)'
    BY <1>s, <1>1 DEF Waits
  <2>2. \A j \in added : opt[j].cb => Accounted(j)'
    BY <1>s, <1>1 DEF Accounted
  <2>3. \A n \in Jobs : Unborn(n)' => calls'[n] = <<>> /\ n \notin removed'
    BY <1>s, <1>u, <1>1
  <2> QED BY <1>s, <1>1, <2>1, <2>2, <2>3 DEF Settled
<1>2. ASSUME NEW e \in Jobs, Active(e), ~Active(e)',
             \A f \in Jobs : f # e => (Active(f)' <=> Active(f)) /\ Steady(f),
             Matching, UNCHANGED <<added, opt>>,
             \/ /\ removed' = removed \cup {ent[e].job} /\ UNCHANGED calls
             \/ /\ UNCHANGED removed
                /\ \A j \in Jobs : j # ent[e].cb => calls'[j] = calls[j]
                /\ \E err : ent[e].cb \in Jobs => calls'[ent[e].cb] = Append(calls[ent[e].cb], err)
      PROVE  Settled'
  <2>1. PICK k \in Jobs : k = ent[e].job
    BY <1>0, <1>2, <1>s DEF Waits
  <2>2. /\ k \in added /\ k \notin removed /\ calls[k] = <<>>
        /\ ent[e].cb = IF opt[k].cb THEN k ELSE 0
    BY <1>2, <1>s, <2>1 DEF Waits
  <2>3. \A f \in Jobs : f # e => ent[f].job # k
    BY <1>0, <2>1, JobNames DEF Fields
  <2>4. /\ \A j \in Jobs : j # k => calls'[j] = calls[j] /\ (j \in removed' <=> j \in removed)
        /\ Len(calls'[k]) <= 1 /\ (k \in removed' => calls'[k] = <<>>)
        /\ opt[k].cb => k \in removed' \/ calls'[k] # <<>>
    <3>1. CASE removed' = removed \cup {ent[e].job} /\ UNCHANGED calls
      BY <2>1, <2>2, <3>1
    <3>2. CASE /\ UNCHANGED removed
               /\ \A j \in Jobs : j # ent[e].cb => calls'[j] = calls[j]
               /\ \E err : ent[e].cb \in Jobs => calls'[ent[e].cb] = Append(calls[ent[e].cb], err)
      <4>1. CASE opt[k].cb
        <5>1. PICK err : calls'[k] = Append(<<>>, err)
          BY <2>2, <3>2, <4>1
        <5>2. Len(calls'[k]) = 1 /\ calls'[k] # <<>>
          BY <5>1
        <5> QED BY <2>2, <3>2, <4>1, <5>2
      <4>2. CASE ~opt[k].cb
        <5>1. \A j \in Jobs : calls'[j] = calls[j]
          BY <2>2, <3>2, <4>2, JobNames
        <5> QED BY <1>s, <2>2, <3>2, <4>2, <5>1
      <4> QED BY <4>1, <4>2
    <3> QED BY <1>2, <3>1, <3>2
  <2>5. \A f \in Jobs : Active(f)' => Waits(f)'
    <3> SUFFICES ASSUME NEW f \in Jobs, Active(f)' PROVE Waits(f)'
      OBVIOUS
    <3>1. f # e /\ Active(f) /\ Steady(f) /\ Waits(f)
      BY <1>2, <1>s
    <3>2. ent[f].job \in Jobs /\ ent[f].job # k
      BY <1>0, <2>3, <3>1 DEF Waits
    <3> QED BY <1>2, <2>4, <3>1, <3>2 DEF Waits
  <2>6. \A j \in added : opt[j].cb => Accounted(j)'
    <3> SUFFICES ASSUME NEW j \in added, opt[j].cb PROVE Accounted(j)'
      OBVIOUS
    <3>1. CASE j = k
      BY <2>4, <3>1 DEF Accounted
    <3>2. CASE j # k
      BY <1>0, <1>2, <1>s, <2>1, <2>4, <3>2 DEF Accounted
    <3> QED BY <3>1, <3>2
  <2>7. \A n \in Jobs : Unborn(n)' => calls'[n] = <<>> /\ n \notin removed'
    <3>1. ~Unborn(k)
      BY <1>0, <2>2 DEF Fields
    <3> QED BY <1>s, <1>u, <2>4, <3>1
  <2>8. \A j \in Jobs : Len(calls'[j]) <= 1 /\ (j \in removed' => calls'[j] = <<>>)
    BY <1>s, <2>4
  <2> QED BY <1>2, <2>5, <2>6, <2>7, <2>8 DEF Settled
<1>3. ASSUME NEW p \in Threads, NEW e \in Jobs, Owns(p, e), Active(e), UNCHANGED stores,
             \A u \in Threads : u # p => op'[u] = op[u],
             ~Busy(p, e)', \A f \in Jobs : f # e => (Busy(p, f)' <=> Busy(p, f)) /\ Steady(f),
             op'[p].at # "deliver"
      PROVE  /\ ~Active(e)' /\ Matching
             /\ \A f \in Jobs : f # e => (Active(f)' <=> Active(f)) /\ Steady(f)
  <2>1. /\ \A s \in Stores, i \in Ids : stores[s][i] # e
        /\ \A u \in Threads : Owns(u, e) => u = p
    BY <1>0, <1>3 DEF Exclusive
  <2>2. \A u \in Threads, f \in Jobs : u # p => (Busy(u, f)' <=> Busy(u, f))
    BY <1>3 DEF Busy
  <2>3. \A u \in Threads : Busy(u, e) => Owns(u, e)
    BY <1>0 DEF Busy, Owns
  <2>4. ~Active(e)'
    BY <1>3, <2>1, <2>2, <2>3 DEF Active
  <2>5. \A f \in Jobs : f # e => (Active(f)' <=> Active(f))
    BY <1>3, <2>2 DEF Active
  <2>6. ASSUME NEW u \in Threads, op'[u].at = "deliver" PROVE op'[u].cb = ent'[op'[u].n].cb
    <3>1. u # p /\ op'[u] = op[u] /\ op[u].at = "deliver" /\ op[u].n \in Jobs
      BY <1>3, <1>n, <2>6
    <3>2. op[u].n # e
      BY <1>0, <2>1, <3>1 DEF Owns
    <3> QED BY <1>3, <1>s, <3>1, <3>2
  <2> QED BY <1>3, <2>4, <2>5, <2>6
<1>4. ASSUME UNCHANGED ent, \A t \in Threads : op'[t].at = "deliver" => op'[t] = op[t]
      PROVE  Matching
  BY <1>4, <1>s
<1>5. ASSUME UNCHANGED ent PROVE \A e \in Jobs : Steady(e)
  BY <1>5
<1> HIDE DEF Steady, Matching
<1>6. ASSUME NEW p \in Procs, NextID(p) PROVE Settled'
  <2>1. /\ UNCHANGED <<ent, stores, calls, removed, added, opt>> /\ op[p] = Idle
        /\ op'[p].at = "adding" /\ op'[p].left = {}
        /\ \A t \in Threads : t # p => op'[t] = op[t]
    BY <1>0, <1>6, NextIDEffect
  <2>2. \A t \in Threads, e \in Jobs : Busy(t, e)' <=> Busy(t, e)
    BY <2>1, IdleFields DEF Busy
  <2>3. \A e \in Jobs : Active(e)' <=> Active(e)
    BY <2>1, <2>2 DEF Active
  <2> QED BY <1>1, <1>4, <1>5, <2>1, <2>3
<1>7. ASSUME NEW p \in Procs, Ended(p) PROVE Settled'
  <2>1. /\ UNCHANGED <<ent, stores, calls, removed, added, opt>> /\ op[p].left = {}
        /\ op[p].at \in {"adding", "close"}
        /\ \A t \in Threads : op'[t] = IF t = p THEN Idle ELSE op[t]
    BY <1>7 DEF Ended
  <2>2. \A t \in Threads, e \in Jobs : Busy(t, e)' <=> Busy(t, e)
    BY <2>1, IdleFields DEF Busy
  <2>3. \A e \in Jobs : Active(e)' <=> Active(e)
    BY <2>1, <2>2 DEF Active
  <2> QED BY <1>1, <1>4, <1>5, <2>1, <2>3, IdleFields
<1>8. ASSUME NEW p \in Procs, NEW e \in Jobs, op[p].at = "adding", op[p].n \in Jobs,
             e = op[p].n \/ pool[e] > 0
      PROVE  /\ \A s \in Stores, i \in Ids : stores[s][i] # e
             /\ \A t \in Threads : ~Busy(t, e) /\ ~Owns(t, e)
  <2>1. CASE e = op[p].n
    <3>1. Unborn(e)
      BY <1>0, <1>8, <2>1 DEF Unborn
    <3> QED BY <3>1 DEF EntryInv, Numbers, Busy, Owns, Holds, Working
  <2>2. CASE pool[e] > 0
    BY <1>0, <2>2 DEF Exclusive, Busy, Owns
  <2> QED BY <1>8, <2>1, <2>2
<1>9. ASSUME NEW p \in Procs, NEW e \in Jobs, op[p].at = "adding",
             \A t \in Threads : op'[t] = IF t = p THEN Idle ELSE op[t],
             \A t \in Threads : ~Busy(t, e) /\ ~Owns(t, e),
             \A f \in Jobs : f # e => ent'[f] = ent[f]
      PROVE  /\ Matching
             /\ \A t \in Threads, f \in Jobs : Busy(t, f)' <=> Busy(t, f)
  <2>1. ASSUME NEW t \in Threads, op'[t].at = "deliver" PROVE op'[t].cb = ent'[op'[t].n].cb
    <3>1. op'[t] = op[t] /\ op[t].at = "deliver" /\ op[t].n \in Jobs
      BY <1>9, <1>n, <2>1, IdleFields
    <3>2. op[t].n # e
      BY <1>9, <3>1 DEF Busy
    <3> QED BY <1>9, <1>s, <3>1, <3>2
  <2>2. op[p].left = {}
    BY <1>0, <1>9 DEF Shape
  <2>3. \A t \in Threads, f \in Jobs : Busy(t, f)' <=> Busy(t, f)
    BY <1>9, <2>2, IdleFields DEF Busy
  <2> QED BY <2>1, <2>3 DEF Matching
<1>10. ASSUME NEW p \in Procs, NEW id \in Ids, NEW o \in program, NEW e \in Jobs,
             Add(p, id, o, e) PROVE Settled'
  <2>1. PICK n \in Jobs : n = op[p].n
    BY <1>0, <1>10, AddEffect
  <2>2. /\ op[p].at = "adding" /\ (e = n \/ pool[e] > 0) /\ o \in Options
        /\ ent'[e] = Filled(n, o)
        /\ \A s \in Stores, i \in Ids :
              stores'[s][i] = IF s = cur /\ i = id THEN e ELSE stores[s][i]
        /\ stores[cur][id] = 0
        /\ \A f \in Jobs : f # e => ent'[f] = ent[f]
        /\ \A t \in Threads : op'[t] = IF t = p THEN Idle ELSE op[t]
        /\ added' = added \cup {n} /\ UNCHANGED <<calls, removed>>
        /\ \A j \in Jobs : opt'[j] = IF j = n THEN o ELSE opt[j]
    BY <1>0, <1>10, <2>1, AddEffect
  <2>3. /\ \A s \in Stores, i \in Ids : stores[s][i] # e
        /\ \A t \in Threads : ~Busy(t, e) /\ ~Owns(t, e)
    BY <1>8, <2>1, <2>2
  <2>4. Matching /\ \A t \in Threads, f \in Jobs : Busy(t, f)' <=> Busy(t, f)
    BY <1>9, <2>2, <2>3
  <2>5. ent'[e].job = n /\ ent'[e].cb = IF o.cb THEN n ELSE 0
    BY <2>2, FilledFields
  <2>6. Active(e)' /\ ~Active(e) /\ \A f \in Jobs : f # e => (Active(f)' <=> Active(f))
    <3>1. \E s \in Stores, i \in Ids : stores'[s][i] = e
      BY <1>0, <2>2
    <3>2. \A f \in Jobs : f # e =>
            ((\E s \in Stores, i \in Ids : stores'[s][i] = f)
               <=> \E s \in Stores, i \in Ids : stores[s][i] = f)
      BY <2>2, JobNames
    <3> QED BY <2>3, <2>4, <3>1, <3>2 DEF Active
  <2>7. /\ calls[n] = <<>> /\ n \notin removed /\ n \notin added
        /\ \A f \in Jobs : ent[f].job # n
    <3>1. Unborn(n)
      BY <1>0, <2>1, <2>2 DEF Unborn
    <3> QED BY <1>0, <1>s, <3>1 DEF Fields
  <2>8. \A f \in Jobs : Active(f)' => Waits(f)'
    <3> SUFFICES ASSUME NEW f \in Jobs, Active(f)' PROVE Waits(f)'
      OBVIOUS
    <3>1. CASE f = e
      BY <2>2, <2>5, <2>7, <3>1 DEF Waits
    <3>2. CASE f # e
      <4>1. Waits(f) /\ ent'[f] = ent[f] /\ ent[f].job # n /\ ent[f].job \in Jobs
        BY <1>0, <1>s, <2>2, <2>6, <2>7, <3>2 DEF Waits
      <4> QED BY <2>2, <4>1 DEF Waits
    <3> QED BY <3>1, <3>2
  <2>9. \A j \in added' : opt'[j].cb => Accounted(j)'
    <3> SUFFICES ASSUME NEW j \in added', opt'[j].cb PROVE Accounted(j)'
      OBVIOUS
    <3>1. CASE j = n
      BY <2>5, <2>6, <3>1 DEF Accounted
    <3>2. CASE j # n
      <4>1. j \in added /\ opt[j].cb /\ Accounted(j)
        BY <1>0, <1>s, <2>2, <3>2
      <4>2. \A f \in Jobs : Active(f) => f # e /\ Active(f)' /\ ent'[f] = ent[f]
        BY <2>2, <2>6
      <4> QED BY <2>2, <4>1, <4>2 DEF Accounted
    <3> QED BY <3>1, <3>2
  <2>10. /\ \A j \in Jobs : Len(calls'[j]) <= 1 /\ (j \in removed' => calls'[j] = <<>>)
         /\ \A m \in Jobs : Unborn(m)' => calls'[m] = <<>> /\ m \notin removed'
    BY <1>s, <1>u, <2>2
  <2> QED BY <2>4, <2>8, <2>9, <2>10 DEF Settled, Matching
<1>11. ASSUME NEW p \in Procs, NEW id \in Ids, NEW o \in program, NEW e \in Jobs,
             NEW late \in SUBSET o.watch, AddFailed(p, id, o, e, late)
      PROVE  Settled'
  <2>1. /\ op[p].at = "adding" /\ op[p].n \in Jobs /\ (e = op[p].n \/ pool[e] > 0)
        /\ \A f \in Jobs : f # e => ent'[f] = ent[f]
        /\ \A t \in Threads : op'[t] = IF t = p THEN Idle ELSE op[t]
        /\ UNCHANGED <<stores, calls, removed, added, opt>>
    BY <1>0, <1>11, AddFailedEffect
  <2>2. /\ \A s \in Stores, i \in Ids : stores[s][i] # e
        /\ \A t \in Threads : ~Busy(t, e) /\ ~Owns(t, e)
    BY <1>8, <2>1
  <2>3. Matching /\ \A t \in Threads, f \in Jobs : Busy(t, f)' <=> Busy(t, f)
    BY <1>9, <2>1, <2>2
  <2>4. \A f \in Jobs : Active(f)' <=> Active(f)
    BY <2>1, <2>3 DEF Active
  <2>5. \A f \in Jobs : Active(f) => Steady(f)
    BY <2>1, <2>2 DEF Active, Steady
  <2> QED BY <1>1, <2>1, <2>3, <2>4, <2>5
<1>12. ASSUME NEW t \in Threads, NEW id \in Ids, NEW err \in Errs, Taken(t, id, err)
      PROVE  Settled'
  <2>1. PICK e \in Jobs : e = stores[cur][id]
    BY <1>0, <1>12, TakenEffect
  <2>2. /\ \A s \in Stores, i \in Ids :
             stores'[s][i] = IF ~ent[e].keep /\ s = cur /\ i = id THEN 0 ELSE stores[s][i]
        /\ op[t].at = "idle" /\ op[t].left = {}
        /\ \A f \in Jobs : ent'[f].job = ent[f].job /\ ent'[f].cb = ent[f].cb
        /\ op'[t].at = "deliver" /\ op'[t].n = e /\ op'[t].cb = ent[e].cb /\ op'[t].left = {}
        /\ \A u \in Threads : u # t => op'[u] = op[u]
        /\ UNCHANGED <<calls, removed, added, opt>>
    BY <1>0, <1>12, <2>1, TakenEffect
  <2>3. \A f \in Jobs : Steady(f)
    BY <2>2 DEF Steady
  <2>4. ASSUME NEW u \in Threads, op'[u].at = "deliver" PROVE op'[u].cb = ent'[op'[u].n].cb
    <3>1. CASE u = t
      BY <2>2, <3>1
    <3>2. CASE u # t
      BY <1>n, <1>s, <2>2, <2>4, <3>2
    <3> QED BY <3>1, <3>2
  <2>5. \A f \in Jobs, u \in Threads : Busy(u, f)' <=> Busy(u, f) \/ (u = t /\ f = e)
    BY <2>2 DEF Busy
  <2>6. \A f \in Jobs : Active(f)' <=> Active(f)
    <3>1. Active(e)' /\ Active(e)
      BY <1>0, <2>1, <2>5 DEF Active
    <3>2. \A f \in Jobs : f # e => (Active(f)' <=> Active(f))
      <4>1. \A f \in Jobs : f # e => \A s \in Stores, i \in Ids :
              stores'[s][i] = f <=> stores[s][i] = f
        BY <2>1, <2>2, JobNames
      <4> QED BY <2>5, <4>1 DEF Active
    <3> QED BY <3>1, <3>2
  <2> QED BY <1>1, <2>2, <2>3, <2>4, <2>6 DEF Matching
<1>13. ASSUME NEW p \in Procs, NEW id \in Ids, Remove(p, id) PROVE Settled'
  <2>1. PICK e \in Jobs : e = stores[cur][id]
    BY <1>0, <1>13, RemoveEffect
  <2>2. /\ \A s \in Stores, i \in Ids :
             stores'[s][i] = IF s = cur /\ i = id THEN 0 ELSE stores[s][i]
        /\ op[p].at = "idle" /\ op[p].left = {}
        /\ op'[p].at = "remove" /\ op'[p].n = e /\ op'[p].left = {}
        /\ \A u \in Threads : u # p => op'[u] = op[u]
        /\ UNCHANGED <<ent, calls, removed, added, opt>>
    BY <1>0, <1>13, <2>1, RemoveEffect
  <2>3. \A f \in Jobs, u \in Threads : Busy(u, f)' <=> Busy(u, f) \/ (u = p /\ f = e)
    BY <1>0, <2>2 DEF Busy
  <2>4. \A f \in Jobs : Active(f)' <=> Active(f)
    <3>1. Active(e)' /\ Active(e)
      BY <1>0, <2>1, <2>3 DEF Active
    <3>2. \A f \in Jobs : f # e => (Active(f)' <=> Active(f))
      <4>1. \A f \in Jobs : f # e => \A s \in Stores, i \in Ids :
              stores'[s][i] = f <=> stores[s][i] = f
        BY <2>1, <2>2, JobNames
      <4> QED BY <2>3, <4>1 DEF Active
    <3> QED BY <3>1, <3>2
  <2> QED BY <1>1, <1>4, <1>5, <2>2, <2>4
<1>14. ASSUME NEW p \in Procs, RemoveFinish(p) PROVE Settled'
  <2>1. PICK e \in Jobs : e = op[p].n
    BY <1>0, <1>14, RemoveFinishEffect
  <2>2. /\ op[p].at = "remove" /\ op[p].left = {}
        /\ removed' = removed \cup {ent[e].job} /\ UNCHANGED <<stores, calls, added, opt>>
        /\ \A f \in Jobs : f # e => ent'[f] = ent[f]
        /\ \A t \in Threads : op'[t] = IF t = p THEN Idle ELSE op[t]
    BY <1>0, <1>14, <2>1, RemoveFinishEffect
  <2>3. Owns(p, e) /\ Active(e)
    BY <1>0, <2>1, <2>2 DEF Owns, Active, Busy
  <2>4. /\ ~Busy(p, e)' /\ op'[p].at # "deliver" /\ p \in Threads
        /\ \A f \in Jobs : f # e => (Busy(p, f)' <=> Busy(p, f)) /\ Steady(f)
    BY <1>0, <2>1, <2>2, IdleFields DEF Busy, Steady
  <2>5. /\ ~Active(e)' /\ Matching
        /\ \A f \in Jobs : f # e => (Active(f)' <=> Active(f)) /\ Steady(f)
    BY <1>3, <2>2, <2>3, <2>4
  <2> QED BY <1>2, <2>2, <2>3, <2>5
<1>15. ASSUME NEW p \in Procs, NEW at \in {"cancel", "close"},
              NEW err \in {"custom", "closed"}, Evicted(p, at, err)
       PROVE  Settled'
  <2>1. /\ UNCHANGED <<ent, calls, removed, added, opt>>
        /\ op'[p].at \in {"idle", "cancel", "close"}
        /\ op[p].at \in {"idle", "close"} /\ op[p].left = {}
        /\ \A u \in Threads : u # p => op'[u] = op[u]
    BY <1>0, <1>15, EvictedEffect
  <2>2. PICK found \in SUBSET Stored :
          /\ \A s \in Stores, i \in Ids :
               stores'[s][i] = IF s = cur /\ i \in found THEN 0 ELSE stores[s][i]
          /\ \A e \in Jobs : e \in op'[p].left <=> \E i \in found : stores[cur][i] = e
    BY <1>0, <1>15, EvictedEffect
  <2>3. \A e \in Jobs, u \in Threads : Busy(u, e)' <=> Busy(u, e) \/ (u = p /\ e \in op'[p].left)
    BY <2>1 DEF Busy
  <2>4. ASSUME NEW e \in Jobs PROVE Active(e)' <=> Active(e)
    <3>1. CASE e \in op'[p].left
      <4>1. PICK i \in found : stores[cur][i] = e
        BY <2>2, <3>1
      <4>2. i \in Ids
        BY <2>2, <4>1 DEF Stored
      <4> QED BY <1>0, <2>3, <3>1, <4>1, <4>2 DEF Active
    <3>2. CASE e \notin op'[p].left
      <4>1. \A s \in Stores, i \in Ids : stores'[s][i] = e <=> stores[s][i] = e
        BY <2>2, <3>2, JobNames
      <4> QED BY <2>3, <3>2, <4>1 DEF Active
    <3> QED BY <3>1, <3>2
  <2> QED BY <1>1, <1>4, <1>5, <2>1, <2>4
<1>16. ASSUME NEW p \in Procs, NEW e \in Jobs, ClosePending(p, e) PROVE Settled'
  <2>1. /\ e \in op[p].left /\ op[p].err \in Errs /\ UNCHANGED <<stores, removed, added, opt>>
        /\ op[p].at \in {"cancel", "close"}
        /\ calls' = Called(ent[e].cb, op[p].err)
        /\ \A f \in Jobs : f # e => ent'[f] = ent[f]
        /\ op'[p].at \in {"idle", "cancel", "close"} /\ op'[p].left = op[p].left \ {e}
        /\ \A t \in Threads : t # p => op'[t] = op[t]
    BY <1>0, <1>16, ClosePendingEffect
  <2>2. Owns(p, e) /\ Active(e)
    BY <1>0, <2>1 DEF Owns, Active, Busy
  <2>3. /\ ~Busy(p, e)' /\ op'[p].at # "deliver" /\ p \in Threads
        /\ \A f \in Jobs : f # e => (Busy(p, f)' <=> Busy(p, f)) /\ Steady(f)
    BY <1>0, <2>1 DEF Busy, Steady
  <2>4. /\ ~Active(e)' /\ Matching
        /\ \A f \in Jobs : f # e => (Active(f)' <=> Active(f)) /\ Steady(f)
    BY <1>3, <2>1, <2>2, <2>3
  <2>5. /\ \A j \in Jobs : j # ent[e].cb => calls'[j] = calls[j]
        /\ ent[e].cb \in Jobs => calls'[ent[e].cb] = Append(calls[ent[e].cb], op[p].err)
    BY <1>0, <2>1, CalledEffect
  <2> QED BY <1>2, <2>1, <2>2, <2>4, <2>5
<1>17. ASSUME NEW t \in Threads, Deliver(t) PROVE Settled'
  <2>1. PICK e \in Jobs : e = op[t].n
    BY <1>0, <1>17, DeliverEffect
  <2>2. /\ op[t].at = "deliver" /\ op[t].left = {} /\ UNCHANGED <<ent, stores, removed, added, opt>>
        /\ calls' = Called(op[t].cb, op[t].err)
        /\ op'[t].at = "recycle" /\ op'[t].left = {}
        /\ \A u \in Threads : u # t => op'[u] = op[u]
    BY <1>0, <1>17, DeliverEffect
  <2>3. Owns(t, e) /\ Active(e) /\ op[t].cb = ent[e].cb /\ op[t].err \in Errs
    BY <1>0, <1>s, <2>1, <2>2 DEF Owns, Active, Busy, TypeOK, Operations
  <2>4. /\ ~Busy(t, e)' /\ op'[t].at # "deliver"
        /\ \A f \in Jobs : f # e => (Busy(t, f)' <=> Busy(t, f)) /\ Steady(f)
    BY <2>1, <2>2 DEF Busy, Steady
  <2>5. /\ ~Active(e)' /\ Matching
        /\ \A f \in Jobs : f # e => (Active(f)' <=> Active(f)) /\ Steady(f)
    BY <1>3, <2>2, <2>3, <2>4
  <2>6. /\ \A j \in Jobs : j # ent[e].cb => calls'[j] = calls[j]
        /\ ent[e].cb \in Jobs => calls'[ent[e].cb] = Append(calls[ent[e].cb], op[t].err)
    BY <1>0, <2>2, <2>3, CalledEffect
  <2> QED BY <1>2, <2>2, <2>3, <2>5, <2>6
<1>18. ASSUME NEW t \in Threads, Recycle(t) PROVE Settled'
  <2>1. PICK e \in Jobs : e = op[t].n
    BY <1>0, <1>18, RecycleEffect
  <2>2. /\ op[t].at = "recycle" /\ op[t].left = {}
        /\ UNCHANGED <<stores, calls, removed, added, opt>>
        /\ \A f \in Jobs : f # e => ent'[f] = ent[f]
        /\ \A u \in Threads : op'[u] = IF u = t THEN Idle ELSE op[u]
    BY <1>0, <1>18, <2>1, RecycleEffect
  <2>3. Owns(t, e)
    BY <1>0, <2>1, <2>2 DEF Owns
  <2>4. \A u \in Threads, f \in Jobs : Busy(u, f)' <=> Busy(u, f)
    BY <2>2, IdleFields DEF Busy
  <2>5. \A f \in Jobs : Active(f)' <=> Active(f)
    BY <2>2, <2>4 DEF Active
  <2>6. ~Active(e)
    <3>1. \A u \in Threads : Busy(u, e) => Owns(u, e)
      BY <1>0 DEF Busy, Owns
    <3>2. ~Busy(t, e)
      BY <2>2 DEF Busy
    <3> QED BY <1>0, <2>3, <3>1, <3>2 DEF Exclusive, Active
  <2>7. ASSUME NEW u \in Threads, op'[u].at = "deliver" PROVE op'[u].cb = ent'[op'[u].n].cb
    <3>1. op'[u] = op[u] /\ op[u].at = "deliver" /\ op[u].n \in Jobs
      BY <1>n, <2>2, <2>7, IdleFields
    <3>2. op[u].n # e
      BY <2>6, <3>1 DEF Active, Busy
    <3> QED BY <1>s, <2>2, <3>1, <3>2
  <2>8. \A f \in Jobs : Active(f) => Steady(f)
    BY <2>2, <2>6 DEF Steady
  <2> QED BY <1>1, <2>2, <2>5, <2>7, <2>8 DEF Matching
<1>19. CASE Quiet
  <2>1. UNCHANGED <<ent, op, stores, calls, removed, added, opt>>
    BY <1>19 DEF Quiet
  <2>2. \A e \in Jobs : Active(e)' <=> Active(e)
    BY <2>1 DEF Active, Busy
  <2> QED BY <1>1, <1>4, <1>5, <2>1, <2>2
<1> QED BY StepCases, <1>0, <1>6, <1>7, <1>10, <1>11, <1>12, <1>13, <1>14, <1>15, <1>16, <1>17,
           <1>18, <1>19

-----------------------------------------------------------------------------
(* What happens to the store and to m.closed, step by step: only Add puts   *)
(* something into the store in use, and only while the manager is open.    *)
Steady ==
  /\ UNCHANGED <<closed, cur>>
  /\ \A s \in Stores, i \in Ids :
       stores'[s][i] \in {0, stores[s][i]} \/ (s = cur /\ ~closed)

(* Every step is one of these three.                                        *)
LEMMA StoreCases ==
  ASSUME DeletesWork, TypeOK, Shape, [Next]_vars
  PROVE  Steady \/ SetStore \/ \E p \in Procs : CloseMark(p)
<1> USE DEF history, control
<1>0. Procs \subseteq Threads /\ Watchers \subseteq Threads
  BY DEF Threads
<1>1. ASSUME UNCHANGED <<closed, cur, stores>> PROVE Steady
  BY <1>1 DEF Steady
<1>2. \A p \in Procs :
        NextID(p) \/ (\E id \in Ids : AddRefused(p, id)) \/ RemoveFinish(p) => Steady
  BY <1>1 DEF NextID, AddRefused, RemoveFinish
<1>3. ASSUME NEW p \in Procs, NEW id \in Ids, NEW o \in program, NEW e \in Jobs,
             Add(p, id, o, e) \/ \E late \in SUBSET o.watch : AddFailed(p, id, o, e, late)
      PROVE  Steady
  <2>1. CASE Add(p, id, o, e)
    BY <2>1, AddEffect DEF Steady
  <2>2. CASE \E late \in SUBSET o.watch : AddFailed(p, id, o, e, late)
    BY <1>1, <2>2 DEF AddFailed
  <2> QED BY <1>3, <2>1, <2>2
<1>4. ASSUME NEW t \in Threads, NEW id \in Ids, NEW err \in Errs, Take(t, id, err),
             UNCHANGED <<closed, cur>>
      PROVE  Steady
  <2>1. CASE UNCHANGED stores
    BY <1>4, <2>1 DEF Steady
  <2>2. CASE Delete({id})
    <3>1. \A s \in Stores, i \in Ids : stores'[s][i] \in {0, stores[s][i]}
      BY <2>2, DeleteExact
    <3> QED BY <1>4, <3>1 DEF Steady
  <2> QED BY <1>4, <2>1, <2>2 DEF Take
<1>5. ASSUME NEW p \in Procs, NEW id \in Ids, Resolve(p, id) \/ Remove(p, id) PROVE Steady
  <2>1. CASE Resolve(p, id)
    BY <1>0, <1>4, <2>1 DEF Resolve, Errs
  <2>2. CASE Remove(p, id)
    BY <2>2, RemoveEffect DEF Steady
  <2> QED BY <1>5, <2>1, <2>2
<1>6. ASSUME NEW p \in Procs, CancelAll(p) \/ Close(p) PROVE Steady
  <2>1. /\ UNCHANGED <<closed, cur>>
        /\ Evict(p, "cancel", "custom") \/ Evict(p, "close", "closed")
    BY <1>6 DEF CancelAll, Close
  <2>2. \E found \in SUBSET Stored : \A s \in Stores, i \in Ids :
          stores'[s][i] = IF s = cur /\ i \in found THEN 0 ELSE stores[s][i]
    BY <1>0, <2>1, EvictEffect DEF Errs
  <2> QED BY <2>1, <2>2 DEF Steady
<1>7. \A p \in Procs, e \in Jobs : ClosePending(p, e) => Steady
  BY <1>1 DEF ClosePending
<1>8. ASSUME NEW w \in Watchers, FiredResolve(w) PROVE Steady
  <2>1. UNCHANGED <<closed, cur>> /\ under[w[2]] \in Ids
    BY <1>8, IdNames DEF FiredResolve
  <2>2. CASE Take(w, under[w[2]], IF w[1] = "timer" THEN "timeout" ELSE "cancelled")
    <3>1. (IF w[1] = "timer" THEN "timeout" ELSE "cancelled") \in Errs
      BY DEF Errs
    <3> QED BY <1>0, <1>4, <2>1, <2>2, <3>1
  <2>3. CASE UNCHANGED stores
    BY <1>1, <2>1, <2>3
  <2> QED BY <1>8, <2>2, <2>3 DEF FiredResolve
<1>9. /\ \A w \in Watchers : Fire(w) => Steady
      /\ \A t \in Threads : Deliver(t) \/ Recycle(t) => Steady
  BY <1>1 DEF Fire, Deliver, Recycle
<1>10. \A w \in Waiters :
         (\E id \in Ids : WaitFor(w, id)) \/ WaitReceive(w) \/ WaitCancelled(w) => Steady
  BY <1>1 DEF WaitFor, WaitReceive, WaitCancelled
<1>11. UNCHANGED vars => Steady
  BY <1>1 DEF vars
<1> QED BY <1>2, <1>3, <1>5, <1>6, <1>7, <1>8, <1>9, <1>10, <1>11 DEF Next

(* Every step keeps StoresClosed.                                           *)
LEMMA ClosedStep ==
  ASSUME DeletesWork, GetsAll, TypeOK, Shape, StoresClosed, [Next]_vars
  PROVE  StoresClosed'
<1>0. /\ cur \in Stores /\ Stores \subseteq Nat /\ Procs \subseteq Threads
      /\ "closed" \in Errs
  BY Bounds DEF TypeOK, Stores, Threads, Errs
<1>1. CASE Steady
  BY <1>0, <1>1 DEF Steady, StoresClosed
<1>2. CASE SetStore
  <2>1. cur' = cur + 1 /\ cur' \in Stores /\ UNCHANGED <<closed, stores>>
    BY <1>0, <1>2, Bounds DEF SetStore, Stores
  <2> QED BY <1>0, <2>1 DEF StoresClosed
<1>3. ASSUME NEW p \in Procs, CloseMark(p) PROVE StoresClosed'
  <2>1. cur' = cur
    BY <1>3 DEF CloseMark
  <2>2. CASE closed /\ UNCHANGED stores
    BY <2>1, <2>2 DEF StoresClosed
  <2>3. CASE Evict(p, "cancel", "closed")
    <3>1. \A s \in Stores, i \in Ids :
            stores'[s][i] = IF s = cur /\ i \in Stored THEN 0 ELSE stores[s][i]
      BY <1>0, <2>3, EvictEffect DEF GetsAll
    <3>2. \A i \in Ids : stores'[cur][i] = 0
      BY <1>0, <3>1 DEF Stored
    <3>3. \A s \in Stores : s > cur => \A i \in Ids : stores'[s][i] = 0
      BY <1>0, <3>1 DEF StoresClosed
    <3> QED BY <2>1, <3>2, <3>3 DEF StoresClosed
  <2> QED BY <1>3, <2>2, <2>3 DEF CloseMark
<1> QED BY <1>1, <1>2, <1>3, StoreCases

-----------------------------------------------------------------------------
(* Stopping the watchers of an entry leaves the others as they are.         *)
LEMMA StoppedEffect ==
  ASSUME TypeOK, NEW e, watch' = Stopped(e)
  PROVE  \A w \in Watchers :
           \/ watch'[w] = watch[w] /\ ~(watch[w] = "armed" /\ ent[e].stop[w[1]] = w[2])
           \/ watch'[w] = "stopped" /\ watch[w] = "armed" /\ ent[e].stop[w[1]] = w[2]
BY DEF Stopped, TypeOK

(* Every step keeps Timers.                                                 *)
LEMMA TimersStep ==
  ASSUME DeletesWork, EntryInv, JobInv, Timers, [Next]_vars
  PROVE  Timers'
<1> USE DEF history, control
<1>0. /\ Procs \subseteq Threads /\ TypeOK /\ Shape /\ Fields
      /\ \A e \in Jobs : Exclusive(e)
      /\ \A s \in Stores, i \in Ids : stores[s][i] \in 0..MaxJobs
      /\ cur \in Stores
  BY DEF EntryInv, JobInv, Threads, OneOwner, TypeOK
<1>t. StopFields /\ Running /\ \A w \in Watchers : watch[w] = "armed" => \E e \in Jobs : Reached(w, e)
  BY DEF Timers
<1>n. \A w \in Watchers : w[1] \in Kinds /\ w[2] \in Jobs /\ w[2] # 0 /\ w = <<w[1], w[2]>>
  BY ThreadNames, JobNames
(* A watcher belongs to the job whose number it has.                        *)
<1>j. ASSUME NEW e \in Jobs, NEW f \in Jobs, NEW k \in Kinds,
             ent[e].stop[k] # 0, ent[f].stop[k] = ent[e].stop[k]
      PROVE  e = f
  <2>1. ent[e].job = ent[e].stop[k] /\ ent[f].job = ent[e].stop[k]
    BY <1>j, <1>t DEF StopFields
  <2> QED BY <1>0, <1>j, <2>1 DEF Fields
(* The steps that start, end or stop nothing.                               *)
<1>1. ASSUME \A e \in Jobs, k \in Kinds :
               /\ ent'[e].stop[k] = ent[e].stop[k] /\ ent'[e].job = ent[e].job
               /\ ent'[e].keep = ent[e].keep,
             UNCHANGED pool,
             \A e \in Jobs : (InStore(e)' => InStore(e)) /\ (Active(e) => Active(e)'),
             Fires
      PROVE  Timers'
  <2>1. StopFields'
    BY <1>t, <1>1 DEF StopFields
  <2>2. ASSUME NEW w \in Watchers, watch'[w] = "armed" PROVE \E e \in Jobs : Reached(w, e)'
    <3>1. watch[w] = "armed"
      BY <1>1, <2>2 DEF Fires
    <3>2. PICK e \in Jobs : Reached(w, e)
      BY <1>t, <3>1
    <3> QED BY <1>1, <1>n, <3>2 DEF Reached
  <2>3. Running'
    <3> SUFFICES ASSUME NEW e \in Jobs, NEW k \in Kinds, InStore(e)', ent'[e].stop[k] # 0,
                        ~ent'[e].keep
                 PROVE  watch'[<<k, ent'[e].stop[k]>>] # "stopped"
      BY DEF Running
    <3>1. ent[e].stop[k] \in Jobs
      BY <1>0, <1>1, JobNames DEF TypeOK, Entries
    <3>2. <<k, ent[e].stop[k]>> \in Watchers /\ ent'[e].stop[k] = ent[e].stop[k]
      BY <1>1, <3>1, ThreadNames
    <3>3. watch[<<k, ent[e].stop[k]>>] # "stopped"
      BY <1>t, <1>1, <3>2 DEF Running
    <3> QED BY <3>2, <3>3, <1>1 DEF Fires
  <2> QED BY <2>1, <2>2, <2>3 DEF Timers
(* The steps that stop the watchers of an entry, and perhaps clear it.      *)
<1>2. ASSUME NEW e \in Jobs, watch' = Stopped(e), UNCHANGED stores,
             ~ent[e].keep => \A s \in Stores, i \in Ids : stores[s][i] # e,
             \A f \in Jobs : f # e => /\ ent'[f] = ent[f] /\ pool'[f] = pool[f]
                                      /\ Active(f) => Active(f)',
             \/ ent'[e] = ent[e]
             \/ ent'[e].keep = ent[e].keep /\ \A k \in Kinds : ent'[e].stop[k] = 0
      PROVE  Timers'
  <2>0. \A w \in Watchers :
           \/ watch'[w] = watch[w] /\ ~(watch[w] = "armed" /\ ent[e].stop[w[1]] = w[2])
           \/ watch'[w] = "stopped" /\ watch[w] = "armed" /\ ent[e].stop[w[1]] = w[2]
    BY <1>0, <1>2, StoppedEffect
  <2>1. StopFields'
    BY <1>t, <1>2 DEF StopFields
  <2>2. ASSUME NEW w \in Watchers, watch'[w] = "armed" PROVE \E f \in Jobs : Reached(w, f)'
    <3>1. watch[w] = "armed" /\ ent[e].stop[w[1]] # w[2]
      BY <2>0, <2>2
    <3>2. PICK f \in Jobs : Reached(w, f)
      BY <1>t, <3>1
    <3>3. f # e
      BY <3>1, <3>2 DEF Reached
    <3> QED BY <1>2, <3>2, <3>3 DEF Reached
  <2>3. Running'
    <3> SUFFICES ASSUME NEW f \in Jobs, NEW k \in Kinds, InStore(f)', ent'[f].stop[k] # 0,
                        ~ent'[f].keep
                 PROVE  watch'[<<k, ent'[f].stop[k]>>] # "stopped"
      BY DEF Running
    <3>1. InStore(f)
      BY <1>2 DEF InStore
    <3>2. ent'[f] = ent[f] /\ f # e
      BY <1>2, <3>1 DEF InStore
    <3>3. ent[f].stop[k] \in Jobs /\ ent[f].stop[k] # 0 /\ ~ent[f].keep
      BY <1>0, <3>2, JobNames DEF TypeOK, Entries
    <3>4. PICK w \in Watchers : w = <<k, ent[f].stop[k]>>
      BY <3>3, ThreadNames
    <3>5. watch[w] # "stopped" /\ ent[e].stop[w[1]] # w[2]
      <4>1. watch[w] # "stopped"
        BY <1>t, <3>1, <3>3, <3>4 DEF Running
      <4>2. ent[e].stop[k] # ent[f].stop[k]
        BY <1>j, <3>2, <3>3
      <4> QED BY <3>4, <4>1, <4>2
    <3> QED BY <2>0, <3>2, <3>4, <3>5
  <2> QED BY <2>1, <2>2, <2>3 DEF Timers
<1>3. ASSUME UNCHANGED stores, \A t \in Threads, e \in Jobs : Busy(t, e) => Busy(t, e)'
      PROVE  \A e \in Jobs : (InStore(e)' => InStore(e)) /\ (Active(e) => Active(e)')
  BY <1>3 DEF InStore, Active
<1>4. ASSUME UNCHANGED <<ent, pool, stores, watch>>,
             \A t \in Threads, e \in Jobs : Busy(t, e) => Busy(t, e)'
      PROVE  Timers'
  BY <1>1, <1>3, <1>4 DEF Fires
<1>5. ASSUME NEW p \in Procs, NextID(p) PROVE Timers'
  <2>1. /\ UNCHANGED <<ent, pool, stores, watch>>
        /\ op[p].at = "idle" /\ op[p].left = {} /\ \A t \in Threads : t # p => op'[t] = op[t]
    BY <1>0, <1>5, NextIDEffect, IdleFields
  <2>2. \A t \in Threads, e \in Jobs : Busy(t, e) => Busy(t, e)'
    BY <2>1 DEF Busy
  <2> QED BY <1>4, <2>1, <2>2
<1>6. ASSUME NEW p \in Procs, Ended(p) PROVE Timers'
  <2>1. \A t \in Threads, e \in Jobs : Busy(t, e) => Busy(t, e)'
    BY <1>6 DEF Ended, Busy
  <2> QED BY <1>4, <1>6, <2>1 DEF Ended
(* The entry Add fills is nobody's: no armed watcher is within its reach.   *)
<1>7. ASSUME NEW p \in Procs, NEW e \in Jobs, op[p].at = "adding", op[p].n \in Jobs,
             e = op[p].n \/ pool[e] > 0
      PROVE  /\ \A s \in Stores, i \in Ids : stores[s][i] # e
             /\ \A w \in Watchers : ~Reached(w, e)
             /\ e = op[p].n => pool[e] = 0
             /\ e # op[p].n => pool[e] = 1
  <2>1. CASE e = op[p].n
    <3>1. Unborn(e)
      BY <1>0, <1>7, <2>1 DEF Unborn
    <3>2. /\ pool[e] = 0 /\ \A s \in Stores, i \in Ids : stores[s][i] # e
          /\ \A t \in Threads : ~Holds(t, e)
      BY <3>1 DEF EntryInv, Numbers
    <3>3. ~Active(e)
      BY <3>2 DEF Active, Busy, Holds, Working
    <3> QED BY <2>1, <3>2, <3>3 DEF Reached
  <2>2. CASE e # op[p].n
    <3>1. pool[e] \in Nat /\ pool[e] > 0 /\ pool[e] <= 1
      BY <1>0, <1>7, <2>2 DEF TypeOK, Exclusive
    <3>2. pool[e] = 1 /\ pool[e] # 0
      BY <3>1
    <3> QED BY <1>0, <2>2, <3>2 DEF Exclusive, Reached
  <2> QED BY <2>1, <2>2
(* Add and AddFailed arm, at most, the watchers of their own job.           *)
<1>8. ASSUME NEW p \in Procs, NEW e \in Jobs, NEW n \in Jobs, NEW o \in Options,
             n = op[p].n, op[p].at = "adding", e = n \/ pool[e] > 0,
             ent'[e] = Filled(n, o),
             \A f \in Jobs : f # e => ent'[f] = ent[f] /\ pool'[f] = pool[f],
             \A f \in Jobs : f # e => (InStore(f)' => InStore(f)),
             \A t \in Threads : op'[t] = IF t = p THEN Idle ELSE op[t],
             \A s \in Stores, i \in Ids : stores[s][i] # 0 => stores'[s][i] = stores[s][i],
             \A w \in Watchers : w[2] # n => watch'[w] = watch[w],
             \A w \in Watchers : w[2] = n /\ watch'[w] = "armed" => Reached(w, e)',
             InStore(e)' => \A k \in Kinds : ent'[e].stop[k] # 0 => watch'[<<k, n>>] # "stopped"
      PROVE  Timers'
  <2>1. /\ \A w \in Watchers : ~Reached(w, e)
        /\ \A s \in Stores, i \in Ids : stores[s][i] # e
    BY <1>7, <1>8
  <2>2. \A f \in Jobs : Active(f) => Active(f)'
    <3>1. op[p].left = {}
      BY <1>0, <1>8 DEF Shape
    <3>2. \A t \in Threads, f \in Jobs : Busy(t, f) => Busy(t, f)'
      BY <1>8, <3>1 DEF Busy
    <3>3. \A f \in Jobs : InStore(f) => InStore(f)'
      BY <1>8, JobNames DEF InStore
    <3> QED BY <3>2, <3>3 DEF Active, InStore
  <2>3. /\ ent'[e].job = n
        /\ \A k \in Kinds : ent'[e].stop[k] \in {0, n}
    BY <1>8, FilledFields
  <2>4. StopFields'
    BY <1>t, <1>8, <2>3 DEF StopFields
  <2>5. ASSUME NEW w \in Watchers, watch'[w] = "armed" PROVE \E f \in Jobs : Reached(w, f)'
    <3>1. CASE w[2] = n
      BY <1>8, <2>5, <3>1
    <3>2. CASE w[2] # n
      <4>1. watch[w] = "armed"
        BY <1>8, <2>5, <3>2
      <4>2. PICK f \in Jobs : Reached(w, f)
        BY <1>t, <4>1
      <4>3. f # e
        BY <2>1, <4>2
      <4> QED BY <1>8, <2>2, <4>2, <4>3 DEF Reached
    <3> QED BY <3>1, <3>2
  <2>6. Running'
    <3> SUFFICES ASSUME NEW f \in Jobs, NEW k \in Kinds, InStore(f)', ent'[f].stop[k] # 0,
                        ~ent'[f].keep
                 PROVE  watch'[<<k, ent'[f].stop[k]>>] # "stopped"
      BY DEF Running
    <3>1. CASE f = e
      BY <1>8, <2>3, <3>1
    <3>2. CASE f # e
      <4>1. InStore(f) /\ ent'[f] = ent[f]
        BY <1>8, <3>2
      <4>2. ent[f].stop[k] \in Jobs /\ ent[f].job = ent[f].stop[k]
        BY <1>0, <1>t, <4>1, JobNames DEF TypeOK, Entries, StopFields
      <4>3. ent[f].job # n
        <5>1. Unborn(n)
          BY <1>0, <1>8 DEF Unborn
        <5> QED BY <1>0, <5>1 DEF Fields
      <4>4. PICK w \in Watchers : w = <<k, ent[f].stop[k]>>
        BY <4>2, ThreadNames
      <4>5. watch[w] # "stopped"
        BY <1>t, <4>1, <4>4 DEF Running
      <4>6. watch'[w] = watch[w]
        BY <1>8, <4>2, <4>3, <4>4
      <4> QED BY <4>1, <4>4, <4>5, <4>6
    <3> QED BY <3>1, <3>2
  <2> QED BY <2>4, <2>5, <2>6 DEF Timers
<1>9. ASSUME NEW p \in Procs, NEW id \in Ids, NEW o \in program, NEW e \in Jobs,
             Add(p, id, o, e) PROVE Timers'
  <2>1. PICK n \in Jobs : n = op[p].n
    BY <1>0, <1>9, AddEffect
  <2>2. /\ op[p].at = "adding" /\ (e = n \/ pool[e] > 0) /\ o \in Options
        /\ ent'[e] = Filled(n, o) /\ stores[cur][id] = 0
        /\ \A s \in Stores, i \in Ids :
              stores'[s][i] = IF s = cur /\ i = id THEN e ELSE stores[s][i]
        /\ pool'[e] = IF e = n THEN pool[e] ELSE pool[e] - 1
        /\ \A f \in Jobs : f # e => ent'[f] = ent[f]
        /\ \A f \in Jobs : f # e => pool'[f] = pool[f]
        /\ \A t \in Threads : op'[t] = IF t = p THEN Idle ELSE op[t]
        /\ \A w \in Watchers : watch'[w] =
             IF w[2] = n /\ w[1] \in o.watch THEN "armed" ELSE watch[w]
    BY <1>0, <1>9, <2>1, AddEffect
  <2>3. pool'[e] = 0
    <3>1. (e = n => pool[e] = 0) /\ (e # n => pool[e] = 1)
      BY <1>7, <2>1, <2>2
    <3> QED BY <2>2, <3>1
  <2>4. InStore(e)' /\ \A f \in Jobs : f # e => (InStore(f)' => InStore(f))
    BY <1>0, <2>2 DEF InStore
  <2>5. \A s \in Stores, i \in Ids : stores[s][i] # 0 => stores'[s][i] = stores[s][i]
    BY <2>2
  <2>6. \A k \in Kinds : ent'[e].stop[k] = IF k \in o.watch THEN n ELSE 0
    BY <2>2, FilledFields
  <2>7. ASSUME NEW w \in Watchers, w[2] = n, watch'[w] = "armed" PROVE Reached(w, e)'
    <3>1. w[1] \in o.watch
      <4>1. Unborn(n)
        BY <1>0, <2>1, <2>2 DEF Unborn
      <4>2. watch[w] = "none"
        BY <1>0, <2>7, <4>1 DEF Shape
      <4> QED BY <2>2, <2>7, <4>2
    <3>2. ent'[e].stop[w[1]] = w[2]
      BY <1>n, <2>6, <2>7, <3>1
    <3> QED BY <2>3, <2>4, <3>2 DEF Reached, Active, InStore
  <2>8. ASSUME NEW k \in Kinds, ent'[e].stop[k] # 0 PROVE watch'[<<k, n>>] # "stopped"
    <3>1. k \in o.watch
      BY <2>6, <2>8
    <3>2. PICK w \in Watchers : w = <<k, n>>
      BY ThreadNames
    <3>3. watch'[w] = "armed"
      BY <2>2, <3>1, <3>2
    <3> QED BY <3>2, <3>3
  <2> QED BY <1>8, <2>1, <2>2, <2>4, <2>5, <2>7, <2>8
<1>10. ASSUME NEW p \in Procs, NEW id \in Ids, NEW o \in program, NEW e \in Jobs,
              NEW late \in SUBSET o.watch, AddFailed(p, id, o, e, late)
       PROVE  Timers'
  <2>1. PICK n \in Jobs : n = op[p].n
    BY <1>0, <1>10, AddFailedEffect
  <2>2. /\ op[p].at = "adding" /\ (e = n \/ pool[e] > 0) /\ o \in Options
        /\ ent'[e] = Filled(n, o) /\ UNCHANGED stores
        /\ \A f \in Jobs : f # e => ent'[f] = ent[f]
        /\ \A f \in Jobs : f # e => pool'[f] = pool[f]
        /\ \A t \in Threads : op'[t] = IF t = p THEN Idle ELSE op[t]
        /\ \A w \in Watchers : w[2] # n => watch'[w] = watch[w]
        /\ \A w \in Watchers : watch'[w] # watch[w] => watch'[w] \in {"fired", "stopped"}
    BY <1>0, <1>10, <2>1, AddFailedEffect
  <2>3. ~InStore(e)' /\ \A f \in Jobs : InStore(f)' => InStore(f)
    BY <1>7, <2>1, <2>2 DEF InStore
  <2>4. ASSUME NEW w \in Watchers, w[2] = n PROVE watch'[w] # "armed"
    <3>1. Unborn(n)
      BY <1>0, <2>1, <2>2 DEF Unborn
    <3>2. watch[w] = "none"
      BY <1>0, <2>4, <3>1 DEF Shape
    <3> QED BY <2>2, <3>2
  <2> QED BY <1>8, <2>1, <2>2, <2>3, <2>4
<1>11. ASSUME NEW t \in Threads, NEW id \in Ids, NEW err \in Errs, Taken(t, id, err)
       PROVE  Timers'
  <2>0. PICK e \in Jobs : e = stores[cur][id]
    BY <1>0, <1>11, TakenEffect
  <2>1. /\ op[t].at = "idle" /\ op[t].left = {} /\ UNCHANGED pool
        /\ \A s \in Stores, i \in Ids :
             stores'[s][i] =
               IF ~ent[e].keep /\ s = cur /\ i = id THEN 0 ELSE stores[s][i]
        /\ \A u \in Threads : u # t => op'[u] = op[u]
        /\ op'[t].at = "deliver" /\ op'[t].n = e
        /\ \A f \in Jobs : /\ ent'[f].job = ent[f].job /\ ent'[f].keep = ent[f].keep
                           /\ ent'[f].stop = ent[f].stop
    BY <1>0, <1>11, <2>0, TakenEffect
  <2>2. \A u \in Threads, f \in Jobs : Busy(u, f) => Busy(u, f)'
    BY <2>1 DEF Busy
  <2>3. Busy(t, e)'
    BY <2>1 DEF Busy
  <2>4. \A f \in Jobs : InStore(f)' => InStore(f)
    BY <2>1, JobNames DEF InStore
  <2>5. ASSUME NEW f \in Jobs, Active(f) PROVE Active(f)'
    <3>1. CASE f = e
      BY <2>3, <3>1 DEF Active
    <3>2. CASE f # e
      <4>1. InStore(f) => InStore(f)'
        BY <2>0, <2>1, <3>2 DEF InStore
      <4> QED BY <2>2, <2>5, <4>1 DEF Active, InStore
    <3> QED BY <3>1, <3>2
  <2> QED BY <1>1, <1>11, <2>1, <2>4, <2>5 DEF Taken
<1>12. ASSUME NEW p \in Procs, NEW id \in Ids, Remove(p, id) PROVE Timers'
  <2>0. PICK e \in Jobs : e = stores[cur][id]
    BY <1>0, <1>12, RemoveEffect
  <2>1. /\ op[p].at = "idle" /\ op[p].left = {} /\ UNCHANGED <<ent, pool, watch>>
        /\ \A s \in Stores, i \in Ids :
             stores'[s][i] = IF s = cur /\ i = id THEN 0 ELSE stores[s][i]
        /\ \A u \in Threads : u # p => op'[u] = op[u]
        /\ op'[p].at = "remove" /\ op'[p].n = e
    BY <1>0, <1>12, <2>0, RemoveEffect
  <2>2. \A u \in Threads, f \in Jobs : Busy(u, f) => Busy(u, f)'
    BY <2>1 DEF Busy
  <2>3. Busy(p, e)'
    BY <2>1 DEF Busy
  <2>4. \A f \in Jobs : InStore(f)' => InStore(f)
    BY <2>1, JobNames DEF InStore
  <2>5. ASSUME NEW f \in Jobs, Active(f) PROVE Active(f)'
    <3>1. CASE f = e
      BY <1>0, <2>3, <3>1 DEF Active
    <3>2. CASE f # e
      <4>1. InStore(f) => InStore(f)'
        BY <2>0, <2>1, <3>2 DEF InStore
      <4> QED BY <2>2, <2>5, <4>1 DEF Active, InStore
    <3> QED BY <3>1, <3>2
  <2> QED BY <1>1, <2>1, <2>4, <2>5 DEF Fires
<1>13. ASSUME NEW p \in Procs, NEW at \in {"cancel", "close"},
              NEW err \in {"custom", "closed"}, Evicted(p, at, err)
       PROVE  Timers'
  <2>1. /\ op[p].at \in {"idle", "close"} /\ op[p].left = {}
        /\ UNCHANGED <<ent, pool, watch>>
        /\ \A t \in Threads : t # p => op'[t] = op[t]
    BY <1>0, <1>13, EvictedEffect
  <2>2. PICK found \in SUBSET Stored :
          /\ \A s \in Stores, i \in Ids :
               stores'[s][i] = IF s = cur /\ i \in found THEN 0 ELSE stores[s][i]
          /\ \A e \in Jobs : e \in op'[p].left <=> \E i \in found : stores[cur][i] = e
    BY <1>0, <1>13, EvictedEffect
  <2>3. \A u \in Threads, f \in Jobs : Busy(u, f) => Busy(u, f)'
    BY <2>1 DEF Busy
  <2>4. \A f \in Jobs : InStore(f)' => InStore(f)
    BY <2>2, JobNames DEF InStore
  <2>5. ASSUME NEW f \in Jobs, Active(f) PROVE Active(f)'
    <3>1. CASE \E s \in Stores, i \in Ids : stores[s][i] = f
      <4>1. PICK s \in Stores, i \in Ids : stores[s][i] = f
        BY <3>1
      <4>2. CASE s = cur /\ i \in found
        <5>1. f \in op'[p].left
          BY <2>2, <4>1, <4>2
        <5> QED BY <1>0, <5>1 DEF Active, Busy
      <4>3. CASE ~(s = cur /\ i \in found)
        <5>1. stores'[s][i] = f
          BY <2>2, <4>1, <4>3
        <5> QED BY <5>1 DEF Active
      <4> QED BY <4>2, <4>3
    <3>2. CASE \E t \in Threads : Busy(t, f)
      BY <2>3, <3>2 DEF Active
    <3> QED BY <2>5, <3>1, <3>2 DEF Active
  <2> QED BY <1>1, <2>1, <2>4, <2>5 DEF Fires
<1>14. ASSUME NEW p \in Procs, RemoveFinish(p) PROVE Timers'
  <2>1. PICK e \in Jobs : e = op[p].n
    BY <1>0, <1>14, RemoveFinishEffect
  <2>2. /\ op[p].at = "remove" /\ op[p].left = {} /\ watch' = Stopped(e) /\ UNCHANGED stores
        /\ \A f \in Jobs : f # e => ent'[f] = ent[f] /\ pool'[f] = pool[f]
        /\ ent'[e].keep = ent[e].keep /\ \A k \in Kinds : ent'[e].stop[k] = 0
        /\ \A t \in Threads : op'[t] = IF t = p THEN Idle ELSE op[t]
    BY <1>0, <1>14, <2>1, RemoveFinishEffect
  <2>3. \A s \in Stores, i \in Ids : stores[s][i] # e
    BY <1>0, <2>1, <2>2 DEF Exclusive, Owns
  <2>4. \A t \in Threads, f \in Jobs : f # e /\ Busy(t, f) => Busy(t, f)'
    BY <2>1, <2>2 DEF Busy
  <2>5. \A f \in Jobs : f # e /\ Active(f) => Active(f)'
    BY <2>2, <2>4 DEF Active
  <2> QED BY <1>2, <2>2, <2>3, <2>5
<1>15. ASSUME NEW p \in Procs, NEW e \in Jobs, ClosePending(p, e) PROVE Timers'
  <2>2. /\ op[p].at \in {"cancel", "close"} /\ e \in op[p].left
        /\ watch' = Stopped(e) /\ UNCHANGED stores
        /\ \A f \in Jobs : f # e => ent'[f] = ent[f] /\ pool'[f] = pool[f]
        /\ ent'[e].keep = ent[e].keep /\ \A k \in Kinds : ent'[e].stop[k] = 0
        /\ \A t \in Threads : t # p => op'[t] = op[t]
        /\ op'[p].left = op[p].left \ {e}
    BY <1>0, <1>15, ClosePendingEffect
  <2>3. \A s \in Stores, i \in Ids : stores[s][i] # e
    BY <1>0, <2>2 DEF Exclusive, Owns
  <2>4. \A t \in Threads, f \in Jobs : f # e /\ Busy(t, f) => Busy(t, f)'
    BY <2>2 DEF Busy
  <2>5. \A f \in Jobs : f # e /\ Active(f) => Active(f)'
    BY <2>2, <2>4 DEF Active
  <2> QED BY <1>2, <2>2, <2>3, <2>5
<1>16. ASSUME NEW t \in Threads, Deliver(t) PROVE Timers'
  <2>1. PICK e \in Jobs : e = op[t].n
    BY <1>0, <1>16, DeliverEffect
  <2>2. /\ op[t].at = "deliver" /\ op[t].left = {} /\ watch' = Stopped(e)
        /\ UNCHANGED <<stores, ent, pool>>
        /\ \A u \in Threads : u # t => op'[u] = op[u]
    BY <1>0, <1>16, <2>1, DeliverEffect
  <2>3. ~ent[e].keep => \A s \in Stores, i \in Ids : stores[s][i] # e
    BY <1>0, <2>1, <2>2 DEF Exclusive, Owns
  <2>4. \A u \in Threads, f \in Jobs : f # e /\ Busy(u, f) => Busy(u, f)'
    BY <2>1, <2>2 DEF Busy
  <2>5. \A f \in Jobs : f # e /\ Active(f) => Active(f)'
    BY <2>2, <2>4 DEF Active
  <2> QED BY <1>2, <2>2, <2>3, <2>5
<1>17. ASSUME NEW t \in Threads, Recycle(t) PROVE Timers'
  <2>1. PICK e \in Jobs : e = op[t].n
    BY <1>0, <1>17, RecycleEffect
  <2>2. /\ op[t].at = "recycle" /\ op[t].left = {} /\ UNCHANGED <<stores, watch>>
        /\ \A f \in Jobs : f # e \/ ent[e].keep => ent'[f] = ent[f] /\ pool'[f] = pool[f]
        /\ ~ent[e].keep => ent'[e].keep = ent[e].keep /\ \A k \in Kinds : ent'[e].stop[k] = 0
        /\ \A u \in Threads : op'[u] = IF u = t THEN Idle ELSE op[u]
    BY <1>0, <1>17, <2>1, RecycleEffect
  <2>3. \A u \in Threads, f \in Jobs : Busy(u, f) => Busy(u, f)'
    BY <2>2 DEF Busy
  <2>4. CASE ent[e].keep
    <3>1. ent' = ent /\ pool' = pool
      BY <1>17, <2>1, <2>4 DEF Recycle
    <3> QED BY <1>4, <2>2, <2>3, <3>1
  <2>5. CASE ~ent[e].keep
    <3>1. ~Active(e)
      <4>1. Owns(t, e)
        BY <2>1, <2>2, <2>5 DEF Owns
      <4>2. /\ \A s \in Stores, i \in Ids : stores[s][i] # e
            /\ \A u \in Threads : Owns(u, e) => u = t
        BY <1>0, <4>1 DEF Exclusive
      <4>3. \A u \in Threads : Busy(u, e) => Owns(u, e)
        BY <2>5 DEF Busy, Owns
      <4>4. ~Busy(t, e)
        BY <2>2 DEF Busy
      <4> QED BY <4>2, <4>3, <4>4 DEF Active
    <3>2. \A w \in Watchers :
            ~(watch[w] = "armed" /\ ent[e].stop[w[1]] = w[2])
      <4> SUFFICES ASSUME NEW w \in Watchers, watch[w] = "armed", ent[e].stop[w[1]] = w[2]
                   PROVE  FALSE
        OBVIOUS
      <4>1. PICK f \in Jobs : Reached(w, f)
        BY <1>t
      <4>2. f = e
        BY <1>j, <1>n, <4>1 DEF Reached
      <4> QED BY <3>1, <4>1, <4>2 DEF Reached
    <3>3. watch' = Stopped(e)
      <4>1. watch \in [Watchers -> WatchStates]
        BY <1>0 DEF TypeOK
      <4>2. Stopped(e) = [w \in Watchers |-> watch[w]]
        BY <3>2 DEF Stopped
      <4>3. watch = [w \in Watchers |-> watch[w]]
        BY <4>1
      <4> QED BY <2>2, <4>2, <4>3
    <3>4. \A s \in Stores, i \in Ids : stores[s][i] # e
      BY <3>1 DEF Active
    <3>5. \A f \in Jobs : Active(f) => Active(f)'
      BY <2>2, <2>3 DEF Active
    <3> QED BY <1>2, <2>2, <2>5, <3>3, <3>4, <3>5
  <2> QED BY <2>4, <2>5
<1>18. CASE Quiet
  <2>1. UNCHANGED <<stores, ent, pool, op>> /\ Fires
    BY <1>18 DEF Quiet
  <2>2. \A t \in Threads, e \in Jobs : Busy(t, e) => Busy(t, e)'
    BY <2>1 DEF Busy
  <2> QED BY <1>1, <1>3, <2>1, <2>2
<1> QED BY StepCases, <1>0, <1>5, <1>6, <1>9, <1>10, <1>11, <1>12, <1>13, <1>14, <1>15, <1>16,
           <1>17, <1>18

-----------------------------------------------------------------------------
(* A new manager satisfies the other invariants.                            *)
LEMMA InitJobInv ==
  ASSUME Init, EntryInv
  PROVE  JobInv /\ ChannelsOpen /\ Settled /\ StoresClosed /\ Timers
<1>1. /\ Blank.job = 0 /\ Blank.cb = 0 /\ Blank.ch = 0
      /\ Idle.at = "idle" /\ Idle.left = {} /\ Idle.err = "nil"
  BY IdleFields DEF Blank
<1>2. /\ \A e \in Jobs : ent[e].job = 0 /\ ent[e].cb = 0 /\ ent[e].ch = 0
      /\ \A t \in Threads : op[t].at = "idle" /\ op[t].left = {}
      /\ \A s \in Stores, i \in Ids : stores[s][i] = 0
      /\ \A j \in Jobs : chan[j] = Open /\ calls[j] = <<>>
      /\ added = {} /\ removed = {} /\ ~closed /\ cur \in Stores
  BY <1>1, Bounds DEF Init, NewManager, Open, Stores
<1>3. JobInv
  BY <1>2, JobNames DEF JobInv, Fields, Tracked
<1>4. ChannelsOpen
  BY <1>2, OpenField DEF ChannelsOpen
<1>5. Settled
  BY <1>2, JobNames DEF Settled, Active, Busy
<1>6. StoresClosed
  BY <1>2 DEF StoresClosed
<1>7. Timers
  <2>1. \A e \in Jobs, k \in Kinds : ent[e].stop[k] = 0
    BY DEF Init, Blank
  <2>2. \A w \in Watchers : watch[w] = "none"
    BY DEF Init
  <2> QED BY <2>1, <2>2 DEF Timers, StopFields, Running
<1> QED BY <1>3, <1>4, <1>5, <1>6, <1>7

(* JobInv is inductive relative to EntryInv.                                *)
LEMMA StepJobInv ==
  ASSUME DeletesWork, EntryInv, JobInv, [Next]_vars
  PROVE  JobInv'
BY FieldsStep, TrackedStep DEF JobInv

(* What ChannelsOpen says of the wait channels.                             *)
LEMMA OpenOnce ==
  ASSUME EntryInv, ChannelsOpen
  PROVE  ChannelOnce
<1> SUFFICES ASSUME NEW j \in Jobs
             PROVE  /\ chan[j].closes <= 1
                    /\ (\/ \E t \in Threads : op[t].at = "deliver" /\ op[t].ch = j
                        \/ \E e \in Jobs : ent[e].ch = j /\ pool[e] = 0)
                         => chan[j].closes = 0 /\ chan[j].buf = <<>>
  BY DEF ChannelOnce
<1>1. j # 0
  BY JobNames
<1>2. chan[j] = Open => chan[j].closes = 0 /\ chan[j].buf = <<>>
  BY OpenField
<1>3. (\E t \in Threads : op[t].at = "deliver" /\ op[t].ch = j) => chan[j] = Open
  BY <1>1 DEF ChannelsOpen
<1>4. (\E e \in Jobs : ent[e].ch = j /\ pool[e] = 0) => chan[j] = Open
  BY <1>1 DEF ChannelsOpen
<1> QED BY <1>2, <1>3, <1>4 DEF ChannelsOpen

(* A set with at most one element.                                         *)
LEMMA OneElement ==
  ASSUME NEW S, \A x, y \in S : x = y
  PROVE  Cardinality(S) = IF S = {} THEN 0 ELSE 1
<1>1. CASE S = {}
  BY <1>1, FS_EmptySet
<1>2. CASE S # {}
  <2>1. PICK x \in S : TRUE
    BY <1>2
  <2>2. S = {x}
    BY <2>1
  <2> QED BY <1>2, <2>2, FS_Singleton
<1> QED BY <1>1, <1>2

(* The places a callback waits in, the calls and the removals add up to 1.  *)
LEMMA SettledOnce ==
  ASSUME EntryInv, JobInv, Settled
  PROVE  CalledOnce
<1> SUFFICES ASSUME NEW j \in Jobs, j \in added, opt[j].cb, ~opt[j].keep
             PROVE  Cardinality(Custody(j)) + Len(calls[j])
                      + (IF j \in removed THEN 1 ELSE 0) = 1
  BY DEF CalledOnce
<1>a. /\ TypeOK /\ Shape /\ Fields /\ Tracked /\ j # 0
      /\ \A e \in Jobs : Exclusive(e)
      /\ \A s \in Stores, i \in Ids : stores[s][i] \in 0..MaxJobs
      /\ calls[j] \in Seq(Errs)
  BY JobNames DEF EntryInv, JobInv, OneOwner, TypeOK
<1>b. OneShots /\ \A e \in Jobs : ~ent[e].keep
  BY <1>a DEF EntryInv, Kept, Fields, Streams, OneShots
<1>c. /\ \A e \in Jobs : Active(e) => Waits(e)
      /\ \A t \in Threads : op[t].at = "deliver" => op[t].cb = ent[op[t].n].cb
      /\ Accounted(j)
      /\ Len(calls[j]) <= 1 /\ (j \in removed => calls[j] = <<>>)
  BY <1>b DEF Settled
<1>d. \A t \in Threads : /\ op[t].at \in {"deliver", "remove"} => op[t].n \in Jobs
                         /\ op[t].left \in SUBSET Jobs
  BY <1>a, JobNames DEF Shape, Working, TypeOK, Operations
<1> DEFINE Tracks(x, e) == x \in Stores \X Ids /\ stores[x[1]][x[2]] = e
           Serves(t, e) == t \in Threads /\ Busy(t, e)
<1>1. \A x \in Custody(j) : \E e \in Jobs :
        (Tracks(x, e) \/ Serves(x, e)) /\ Active(e) /\ ent[e].cb = j
  <2> TAKE x \in Custody(j)
  <2>1. CASE x \in Stores \X Ids /\ stores[x[1]][x[2]] # 0 /\ ent[stores[x[1]][x[2]]].cb = j
    <3>1. PICK e \in Jobs : e = stores[x[1]][x[2]]
      BY <1>a, <2>1, JobNames
    <3> QED BY <2>1, <3>1 DEF Active
  <2>2. CASE /\ x \in Threads
             /\ \/ op[x].at = "deliver" /\ op[x].cb = j
                \/ op[x].at = "remove" /\ ent[op[x].n].cb = j
                \/ \E e \in op[x].left : ent[e].cb = j
    <3>1. CASE op[x].at = "deliver" /\ op[x].cb = j
      <4>1. op[x].n \in Jobs /\ ent[op[x].n].cb = j /\ Busy(x, op[x].n)
        BY <1>c, <1>d, <2>2, <3>1 DEF Busy
      <4> QED BY <2>2, <4>1 DEF Active
    <3>2. CASE op[x].at = "remove" /\ ent[op[x].n].cb = j
      <4>1. op[x].n \in Jobs /\ Busy(x, op[x].n)
        BY <1>d, <2>2, <3>2 DEF Busy
      <4> QED BY <2>2, <3>2, <4>1 DEF Active
    <3>3. ASSUME NEW e \in op[x].left, ent[e].cb = j
          PROVE  \E f \in Jobs :
                   (Tracks(x, f) \/ Serves(x, f)) /\ Active(f) /\ ent[f].cb = j
      <4>1. e \in Jobs /\ Busy(x, e)
        BY <1>d, <2>2, <3>3 DEF Busy
      <4> QED BY <2>2, <3>3, <4>1 DEF Active
    <3> QED BY <2>2, <3>1, <3>2, <3>3
  <2> QED BY <2>1, <2>2 DEF Custody
<1>2. \A e \in Jobs : Active(e) /\ ent[e].cb = j => ent[e].job = j /\ Waits(e)
  BY <1>a, <1>c DEF Waits
<1>3. \A e, f \in Jobs :
        Active(e) /\ ent[e].cb = j /\ Active(f) /\ ent[f].cb = j => e = f
  BY <1>2, <1>a DEF Fields
<1>4. \A t \in Threads, e \in Jobs : Busy(t, e) => Owns(t, e)
  BY <1>b DEF Busy, Owns
<1>5. \A x, y \in Custody(j) : x = y
  <2> TAKE x, y \in Custody(j)
  <2>1. PICK e \in Jobs : (Tracks(x, e) \/ Serves(x, e)) /\ (Tracks(y, e) \/ Serves(y, e))
    BY <1>1, <1>3
  <2>2. Tracks(x, e) /\ Tracks(y, e) => x = y
    BY <1>a DEF Exclusive
  <2>3. Tracks(x, e) => ~Serves(y, e)
    BY <1>a, <1>4 DEF Exclusive
  <2>4. Tracks(y, e) => ~Serves(x, e)
    BY <1>a, <1>4 DEF Exclusive
  <2>5. Serves(x, e) /\ Serves(y, e) => x = y
    BY <1>a, <1>4 DEF Exclusive
  <2> QED BY <2>1, <2>2, <2>3, <2>4, <2>5
<1>6. Custody(j) # {} => calls[j] = <<>> /\ j \notin removed
  BY <1>1, <1>2 DEF Waits
<1>7. ASSUME NEW e \in Jobs, Active(e), ent[e].job = j PROVE Custody(j) # {}
  <2>1. ent[e].cb = j
    BY <1>7, <1>c DEF Waits
  <2>2. ASSUME NEW s \in Stores, NEW i \in Ids, stores[s][i] = e PROVE Custody(j) # {}
    <3>1. <<s, i>> \in Custody(j)
      BY <2>1, <2>2, JobNames DEF Custody
    <3> QED BY <3>1
  <2>3. ASSUME NEW t \in Threads, Busy(t, e) PROVE Custody(j) # {}
    <3>1. t \in Custody(j)
      BY <1>c, <2>1, <2>3 DEF Busy, Custody
    <3> QED BY <3>1
  <2> QED BY <1>7, <2>2, <2>3 DEF Active
<1>8. Custody(j) # {} \/ calls[j] # <<>> \/ j \in removed
  BY <1>c, <1>7 DEF Accounted
<1>9. Cardinality(Custody(j)) = IF Custody(j) = {} THEN 0 ELSE 1
  BY <1>5, OneElement
<1>10. /\ Len(calls[j]) \in Nat /\ (Len(calls[j]) = 0 <=> calls[j] = <<>>)
  BY <1>a
<1>11. Len(calls[j]) \in {0, 1}
  <2>1. Len(calls[j]) \in Nat /\ Len(calls[j]) <= 1
    BY <1>10, <1>c
  <2>2. \A k \in Nat : k <= 1 => k \in {0, 1}
    OBVIOUS
  <2> QED BY <2>1, <2>2, Zenon
<1> HIDE DEF Tracks, Serves
<1>12. CASE Custody(j) # {}
  <2>1. Cardinality(Custody(j)) = 1 /\ Len(calls[j]) = 0 /\ j \notin removed
    BY <1>6, <1>9, <1>10, <1>12
  <2> QED BY <2>1
<1>13. CASE Custody(j) = {} /\ j \in removed
  <2>1. Cardinality(Custody(j)) = 0 /\ Len(calls[j]) = 0
    BY <1>9, <1>10, <1>13, <1>c
  <2> QED BY <1>13, <2>1
<1>14. CASE Custody(j) = {} /\ j \notin removed
  <2>1. Cardinality(Custody(j)) = 0 /\ Len(calls[j]) = 1
    BY <1>8, <1>9, <1>10, <1>11, <1>14
  <2> QED BY <1>14, <2>1
<1> QED BY <1>12, <1>13, <1>14

(* What Timers says of the watchers.                                        *)
LEMMA TimersHeld == ASSUME EntryInv, Timers PROVE TimersOwned
<1>1. ASSUME NEW e \in Jobs PROVE InStore(e) <=> Slots(e) # {}
  <2>1. ASSUME NEW s \in Stores, NEW i \in Ids, stores[s][i] = e PROVE <<s, i>> \in Slots(e)
    BY <2>1 DEF Slots
  <2>2. ASSUME NEW x \in Slots(e) PROVE x[1] \in Stores /\ x[2] \in Ids /\ stores[x[1]][x[2]] = e
    BY <2>2 DEF Slots
  <2> QED BY <2>1, <2>2 DEF InStore
<1>2. ASSUME NEW w \in Watchers, NEW e \in Jobs, Reached(w, e) PROVE Guarded(e, w[1])
  <2>1. ent[e].stop[w[1]] # 0 /\ Active(e)
    BY <1>2, ThreadNames, JobNames DEF Reached
  <2> QED BY <1>1, <2>1 DEF Guarded, Active, Busy, InStore
<1>3. ASSUME NEW w \in Watchers, watch[w] = "armed"
      PROVE  \E e \in Jobs : ent[e].stop[w[1]] = w[2] /\ Guarded(e, w[1])
  <2>1. PICK e \in Jobs : Reached(w, e)
    BY <1>3 DEF Timers
  <2> QED BY <1>2, <2>1 DEF Reached
<1>4. ASSUME NEW e \in Jobs, NEW k \in Kinds, Slots(e) # {}, ent[e].stop[k] # 0, ~ent[e].keep
      PROVE  watch[<<k, ent[e].stop[k]>>] # "stopped"
  BY <1>1, <1>4 DEF Timers, Running
<1> QED BY <1>3, <1>4 DEF TimersOwned

(* What StoresClosed says of the store in use.                              *)
LEMMA StoresClosedEmpty ==
  ASSUME EntryInv, StoresClosed
  PROVE  ClosedEmpty
BY DEF StoresClosed, ClosedEmpty, Stored

-----------------------------------------------------------------------------
(* Every variable keeps its type: no entry leaves the pool that is not in it*)
(* (jobs.go:250-474).                                                       *)
THEOREM JobsTypes ==
  ASSUME UniformPrograms, DeletesWork
  PROVE  Spec => []TypeOK
<1>1. Init => EntryInv
  BY InitEntryInv
<1>2. EntryInv /\ [Next]_vars => EntryInv'
  BY StepEntryInv
<1>3. EntryInv => TypeOK
  BY DEF EntryInv
<1> QED BY <1>1, <1>2, <1>3, PTL DEF Spec

(* No wait channel is closed twice or sent to after its close               *)
(* (jobs.go:343-474, 580-624), for one-shot jobs and for keep-alive jobs.   *)
THEOREM JobsChannels ==
  ASSUME UniformPrograms, DeletesWork
  PROVE  Spec => []ChannelOnce
<1>1. Init => EntryInv /\ JobInv /\ ChannelsOpen
  BY InitEntryInv, InitJobInv
<1>2. EntryInv /\ JobInv /\ ChannelsOpen /\ [Next]_vars => (EntryInv /\ JobInv /\ ChannelsOpen)'
  BY StepEntryInv, StepJobInv, ChannelsStep
<1>3. EntryInv /\ ChannelsOpen => ChannelOnce
  BY OpenOnce
<1> QED BY <1>1, <1>2, <1>3, PTL DEF Spec

(* The callback of a one-shot job is called once, or the job was removed, or*)
(* exactly one store or goroutine still has it (jobs.go:343-474, 580-624).  *)
THEOREM JobsCalledOnce ==
  ASSUME UniformPrograms, DeletesWork
  PROVE  Spec => []CalledOnce
<1>1. Init => EntryInv /\ JobInv /\ Settled
  BY InitEntryInv, InitJobInv
<1>2. EntryInv /\ JobInv /\ Settled /\ [Next]_vars => (EntryInv /\ JobInv /\ Settled)'
  BY StepEntryInv, StepJobInv, SettledStep
<1>3. EntryInv /\ JobInv /\ Settled => CalledOnce
  BY SettledOnce
<1> QED BY <1>1, <1>2, <1>3, PTL DEF Spec

(* No timer or context watcher outlives its job, and none is stopped while  *)
(* its one-shot job is tracked, although entries are reused and ids come    *)
(* back (jobs.go:289-320, 352-375, 425-450, 600-624).                       *)
THEOREM JobsTimers ==
  ASSUME UniformPrograms, DeletesWork
  PROVE  Spec => []TimersOwned
<1>1. Init => EntryInv /\ JobInv /\ Timers
  BY InitEntryInv, InitJobInv
<1>2. EntryInv /\ JobInv /\ Timers /\ [Next]_vars => (EntryInv /\ JobInv /\ Timers)'
  BY StepEntryInv, StepJobInv, TimersStep
<1>3. EntryInv /\ Timers => TimersOwned
  BY TimersHeld
<1> QED BY <1>1, <1>2, <1>3, PTL DEF Spec

(* A closed manager tracks nothing, whatever Add, SetStore or Resolve was in*)
(* its way (jobs.go:543-568).                                               *)
THEOREM JobsClosed ==
  ASSUME UniformPrograms, DeletesWork, GetsAll
  PROVE  Spec => []ClosedEmpty
<1>1. Init => EntryInv /\ StoresClosed
  BY InitEntryInv, InitJobInv
<1>2. EntryInv /\ StoresClosed /\ [Next]_vars => (EntryInv /\ StoresClosed)'
  BY StepEntryInv, ClosedStep DEF EntryInv
<1>3. EntryInv /\ StoresClosed => ClosedEmpty
  BY StoresClosedEmpty
<1> QED BY <1>1, <1>2, <1>3, PTL DEF Spec
=============================================================================
