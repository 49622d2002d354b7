-------------------------------- MODULE Jobs --------------------------------
(***************************************************************************)
(* The job manager of jobs/jobs.go.                                        *)
(*                                                                         *)
(* A job is named by the count its caller got from NextID, and is added    *)
(* under any id.  Everything that is created for a job carries its number: *)
(* callback, wait channel, timer, context watcher, and the Entry that Add  *)
(* allocates when it takes none from the pool.  0 is nil.  The spin lock   *)
(* m.mu makes every locked section one action; what an operation does      *)
(* after it unlocks is one or several further actions, so that operations, *)
(* timers and contexts interleave.                                         *)
(* Callbacks are counted when they are handed to their strategy.           *)
(***************************************************************************)
EXTENDS Integers, Sequences, FiniteSets

CONSTANTS
  MaxJobs,      \* bound: calls of NextID
  MaxOps,       \* bound: calls of Resolve, Remove, CancelAll,
                \*        Close and SetStore
  MaxSwaps,     \* bound: calls of SetStore
  Ids,          \* the values of the key type K that are used
  Capacity,     \* m.capacity, 0 for unlimited
  Programs,     \* sets of options: those one program adds its jobs with
  Faulty,       \* operations of the store that may return an error
  Procs,        \* goroutines that call the manager
  Waiters       \* goroutines that call WaitFor

Kinds == {"timer", "ctx"}

(* Callback, WithWait, WithTimeout and WithContext, WithKeepAlive.         *)
Options == [cb : BOOLEAN, wait : BOOLEAN, watch : SUBSET Kinds, keep : BOOLEAN]

ASSUME JobsAssumption ==
  /\ MaxJobs \in Nat /\ MaxOps \in Nat /\ MaxSwaps \in Nat
  /\ Ids # {}
  /\ Capacity \in Nat
  /\ Programs \subseteq SUBSET Options
  /\ Faulty \subseteq {"add", "get", "delete", "len", "getall"}
  /\ Procs \cap (Kinds \X (1..MaxJobs)) = {}

Jobs == 1..MaxJobs
Watchers == Kinds \X Jobs     \* goroutines of the two AfterFunc calls
Threads == Procs \cup Watchers
Stores == 0..MaxSwaps         \* the first store and those SetStore installs

VARIABLES
  counter,  \* m.counter
  closed,   \* m.closed
  cur,      \* m.store: the number of SetStore calls so far
  stores,   \* contents of each store: id -> entry
  ent,      \* fields of each entry
  pool,     \* m.entryPool: how often each entry is in it
  watch,    \* state of each timer and context watcher
  under,    \* the id the functions of a job's watchers have captured
  chan,     \* wait channel of each job
  op,       \* locals of the operation each goroutine is in
  wait,     \* the channel each WaitFor is blocked on, 0 outside WaitFor
  program,  \* the options this program uses
  ops,      \* calls counted against MaxOps so far
  opt,      \* history: the options of each accepted job
  added,    \* history: the jobs Add has accepted
  calls,    \* history: the errors each job's callback was called with
  removed   \* history: the jobs taken away by Remove

control == <<counter, closed, cur, program, under>>
history == <<opt, added, calls, removed>>
vars == <<control, history, stores, ent, pool, watch, chan, op, wait, ops>>

-----------------------------------------------------------------------------
(* Locals of an operation: n is the entry it works on (or the number       *)
(* NextID returned), left the entries closePending has not reached.        *)
Idle == [at |-> "idle", n |-> 0, ch |-> 0, cb |-> 0, err |-> "nil",
         left |-> {}]

Blank == [job |-> 0, cb |-> 0, ch |-> 0, keep |-> FALSE,
          stop |-> [k \in Kinds |-> 0]]

NoOptions == [cb |-> FALSE, wait |-> FALSE, watch |-> {}, keep |-> FALSE]

(* NewManager, NewManagerWithStore.                                        *)
NewManager ==
  /\ counter = 0
  /\ closed = FALSE
  /\ cur = 0
  /\ stores = [s \in Stores |-> [i \in Ids |-> 0]]
  /\ pool = [e \in Jobs |-> 0]

Init ==
  /\ NewManager
  /\ ent = [e \in Jobs |-> Blank]
  /\ watch = [w \in Watchers |-> "none"]
  /\ under = [j \in Jobs |-> CHOOSE i \in Ids : TRUE]
  /\ chan = [j \in Jobs |-> [buf |-> <<>>, closes |-> 0]]
  /\ op = [t \in Threads |-> Idle]
  /\ wait = [w \in Waiters |-> 0]
  /\ program \in Programs
  /\ ops = 0
  /\ opt = [j \in Jobs |-> NoOptions]
  /\ added = {}
  /\ calls = [j \in Jobs |-> <<>>]
  /\ removed = {}

(* SetStore with a new, empty store: the jobs of the old one stay in it.   *)
SetStore ==
  /\ cur < MaxSwaps
  /\ ops < MaxOps
  /\ cur' = cur + 1
  /\ ops' = ops + 1
  /\ UNCHANGED <<history, counter, closed, stores, ent, pool, watch, under, chan,
                 op, wait, program>>

-----------------------------------------------------------------------------
(* A caller with nothing else to do starts an operation.                   *)
Begin(p) ==
  /\ op[p] = Idle
  /\ ops < MaxOps
  /\ ops' = ops + 1

(* The store, and the pieces of its use that Resolve, Remove and           *)
(* closePending share.                                                     *)

Stored == {i \in Ids : stores[cur][i] # 0}

(* store.Get(id), 0 for "not found" and for an error.                      *)
Get(i) == {stores[cur][i]} \cup (IF "get" \in Faulty THEN {0} ELSE {})

(* store.Delete for every id of S; its error is discarded.                 *)
Delete(S) ==
  \E kept \in IF "delete" \in Faulty THEN SUBSET S ELSE {{}} :
    stores' = [stores EXCEPT ![cur] =
                 [i \in Ids |-> IF i \in S \ kept THEN 0 ELSE @[i]]]

(* e.timerStop(), e.ctxStop(): without effect on a watcher that has fired. *)
Stopped(e) ==
  [w \in Watchers |-> IF watch[w] = "armed" /\ ent[e].stop[w[1]] = w[2]
                      THEN "stopped" ELSE watch[w]]

\* mutant: the wait channel is forgotten
NotClosed(ch) == chan

(* close(ch) of a channel that may be nil.                                 *)
Close0(ch) == [j \in Jobs |-> IF j = ch
                              THEN [chan[j] EXCEPT !.closes = @ + 1]
                              ELSE chan[j]]

(* A callback that may be nil is handed to its strategy.                   *)
Called(cb, err) ==
  [j \in Jobs |-> IF j = cb THEN Append(calls[j], err) ELSE calls[j]]

(* The fields are cleared; keepAlive and the pool's stale copy remain.     *)
Cleared(e) == [ent EXCEPT ![e] = [Blank EXCEPT !.keep = ent[e].keep]]

Put(e) == [pool EXCEPT ![e] = @ + 1]

-----------------------------------------------------------------------------
(* NextID.  The id it returns is the count converted to K: cut to 32 bits, *)
(* or the zero value for most types.  Add does not depend on it.           *)
NextID(p) ==
  /\ op[p] = Idle
  /\ counter < MaxJobs
  /\ counter' = counter + 1
  /\ op' = [op EXCEPT ![p].at = "adding", ![p].n = counter + 1]
  /\ UNCHANGED <<history, closed, cur, stores, ent, pool, watch, under, chan, wait,
                 program, ops>>

(* Add returns an error before it touches anything.                        *)
Refused(id) ==
  \/ closed
  \/ "len" \in Faulty
  \/ Capacity > 0 /\ Cardinality(Stored) >= Capacity
  \/ "get" \in Faulty
  \/ stores[cur][id] # 0

AddRefused(p, id) ==
  /\ op[p].at = "adding"
  /\ Refused(id)
  /\ op' = [op EXCEPT ![p] = Idle]
  /\ UNCHANGED <<history, control, stores, ent, pool, watch, chan, wait, ops>>

(* m.entryPool.Get(): any pooled entry, or a new one, which is given the   *)
(* number of the job it was allocated for.                                 *)
Available(n) == {n} \cup {e \in Jobs : pool[e] > 0}

(* The assignments to the fields of e; job is history.                     *)
Filled(n, o) ==
  [job |-> n,
   cb |-> IF o.cb THEN n ELSE 0,
   ch |-> IF o.wait THEN n ELSE 0,
   keep |-> o.keep,
   stop |-> [k \in Kinds |-> IF k \in o.watch THEN n ELSE 0]]

Admitted(p, id) ==
  /\ op[p].at = "adding"
  /\ ~closed
  /\ Capacity = 0 \/ Cardinality(Stored) < Capacity
  /\ stores[cur][id] = 0
  /\ op' = [op EXCEPT ![p] = Idle]

(* Add of a job that store.Add accepts, under any id: the caller may have   *)
(* used it before, for a job that was settled or that could not be added.  *)
Add(p, id, o, e) ==
  LET n == op[p].n IN
  /\ Admitted(p, id)
  /\ e \in Available(n)
  /\ pool' = IF e = n THEN pool ELSE [pool EXCEPT ![e] = @ - 1]
  /\ ent' = [ent EXCEPT ![e] = Filled(n, o)]
  /\ watch' = [w \in Watchers |-> IF w[2] = n /\ w[1] \in o.watch
                                  THEN "armed" ELSE watch[w]]
  /\ under' = [under EXCEPT ![n] = id]
  /\ stores' = [stores EXCEPT ![cur][id] = e]
  /\ opt' = [opt EXCEPT ![n] = o]
  /\ added' = added \cup {n}
  /\ UNCHANGED <<counter, closed, cur, program, chan, wait, ops, calls, removed>>

\* mutant: an Add that fails leaves its watchers running
AddFailedRunning(p, id, o, e, late) ==
  LET n == op[p].n IN
  /\ "add" \in Faulty
  /\ Admitted(p, id)
  /\ e \in Available(n)
  /\ pool' = IF e = n THEN Put(e) ELSE pool
  /\ ent' = [ent EXCEPT ![e] = Filled(n, o)]
  /\ watch' = [w \in Watchers |-> IF w[2] = n /\ w[1] \in o.watch
                                  THEN "armed" ELSE watch[w]]
  /\ under' = [under EXCEPT ![n] = id]
  /\ UNCHANGED <<history, counter, closed, cur, program, stores, chan, wait, ops>>

(* Add when store.Add fails: the watchers are stopped, unless they have    *)
(* fired already and wait for m.mu, and the entry goes back to the pool.   *)
AddFailed(p, id, o, e, late) ==
  LET n == op[p].n IN
  /\ "add" \in Faulty
  /\ Admitted(p, id)
  /\ e \in Available(n)
  /\ pool' = IF e = n THEN Put(e) ELSE pool
  /\ ent' = [ent EXCEPT ![e] = Filled(n, o)]
  /\ watch' = [w \in Watchers |->
       CASE w[2] = n /\ w[1] \in late -> "fired"
         [] w[2] = n /\ w[1] \in o.watch \ late -> "stopped"
         [] OTHER -> watch[w]]
  /\ under' = [under EXCEPT ![n] = id]
  /\ UNCHANGED <<history, counter, closed, cur, program, stores, chan, wait, ops>>

-----------------------------------------------------------------------------
(* ResolveContext.                                                         *)

\* mutant: the one-shot job stays in the store
TakeUndeleted(t, id, err) ==
  LET e == stores[cur][id] IN
  /\ ~closed
  /\ e # 0
  /\ ent' = [ent EXCEPT ![e].ch = 0]
  /\ op' = [op EXCEPT ![t] =
       [at |-> "deliver", n |-> e, ch |-> ent[e].ch, cb |-> ent[e].cb,
        err |-> err, left |-> {}]]
  /\ UNCHANGED stores

\* mutant: e.waitCh = nil is missing
TakeChannel(t, id, err) ==
  LET e == stores[cur][id] IN
  /\ ~closed
  /\ e # 0
  /\ IF ent[e].keep THEN UNCHANGED stores ELSE Delete({id})
  /\ op' = [op EXCEPT ![t] =
       [at |-> "deliver", n |-> e, ch |-> ent[e].ch, cb |-> ent[e].cb,
        err |-> err, left |-> {}]]
  /\ UNCHANGED ent

(* The locked section, for a job that is found: a one-shot job is deleted, *)
(* and whoever comes first takes the channel.                              *)
Take(t, id, err) ==
  LET e == stores[cur][id] IN
  /\ ~closed
  /\ e # 0
  /\ IF ent[e].keep THEN UNCHANGED stores ELSE Delete({id})
  /\ ent' = [ent EXCEPT ![e].ch = 0]
  /\ op' = [op EXCEPT ![t] =
       [at |-> "deliver", n |-> e, ch |-> ent[e].ch, cb |-> ent[e].cb,
        err |-> err, left |-> {}]]

(* A caller's Resolve.  One that finds nothing changes nothing.            *)
Resolve(p, id) ==
  /\ Begin(p)
  /\ Take(p, id, "nil")
  /\ UNCHANGED <<history, control, pool, watch, chan, wait>>

(* The timeout passes or the job's context is cancelled: the goroutine of  *)
(* AfterFunc starts.                                                       *)
Fire(w) ==
  /\ watch[w] = "armed"
  /\ watch' = [watch EXCEPT ![w] = "fired"]
  /\ UNCHANGED <<history, control, stores, ent, pool, chan, op, wait, ops>>

(* Its Resolve, with the id the job was added under.                       *)
FiredResolve(w) ==
  /\ watch[w] = "fired"
  /\ watch' = [watch EXCEPT ![w] = "done"]
  /\ \/ Take(w, under[w[2]], IF w[1] = "timer" THEN "timeout" ELSE "cancelled")
     \/ /\ closed \/ 0 \in Get(under[w[2]])
        /\ UNCHANGED <<stores, ent, op>>
  /\ UNCHANGED <<history, control, pool, chan, wait, ops>>

(* The timer and the context watcher are stopped, the result is sent and   *)
(* the channel closed, the callback is invoked.                            *)
Deliver(t) ==
  /\ op[t].at = "deliver"
  /\ watch' = Stopped(op[t].n)
  /\ chan' = [j \in Jobs |->
       IF j = op[t].ch
       THEN [buf |-> Append(chan[j].buf, op[t].err),
             closes |-> chan[j].closes + 1]
       ELSE chan[j]]
  /\ calls' = Called(op[t].cb, op[t].err)
  /\ op' = [op EXCEPT ![t].at = "recycle"]
  /\ UNCHANGED <<control, stores, ent, pool, wait, ops, opt, added, removed>>

\* mutant: keep-alive entries are recycled too
RecycleAlways(t) ==
  /\ op[t].at = "recycle"
  /\ op' = [op EXCEPT ![t] = Idle]
  /\ ent' = [ent EXCEPT ![op[t].n] = [Blank EXCEPT !.ch = ent[op[t].n].ch]]
  /\ pool' = Put(op[t].n)
  /\ UNCHANGED <<history, control, stores, watch, chan, wait, ops>>

(* The entry goes back to the pool if its keepAlive is, by now, false.     *)
Recycle(t) ==
  /\ op[t].at = "recycle"
  /\ op' = [op EXCEPT ![t] = Idle]
  /\ IF ent[op[t].n].keep
     THEN UNCHANGED <<ent, pool>>
     ELSE /\ ent' = [ent EXCEPT ![op[t].n] =
                       [Blank EXCEPT !.ch = ent[op[t].n].ch]]
          /\ pool' = Put(op[t].n)
  /\ UNCHANGED <<history, control, stores, watch, chan, wait, ops>>

-----------------------------------------------------------------------------
(* RemoveContext: the locked section, then the rest.                       *)
Remove(p, id) ==
  LET e == stores[cur][id] IN
  /\ Begin(p)
  /\ ~closed
  /\ e # 0
  /\ Delete({id})
  /\ op' = [op EXCEPT ![p] = [Idle EXCEPT !.at = "remove", !.n = e]]
  /\ UNCHANGED <<history, control, ent, pool, watch, chan, wait>>

RemoveFinish(p) ==
  LET e == op[p].n IN
  /\ op[p].at = "remove"
  /\ watch' = Stopped(e)
  /\ chan' = Close0(ent[e].ch)
  /\ ent' = Cleared(e)
  /\ pool' = Put(e)
  /\ removed' = removed \cup {ent[e].job}
  /\ op' = [op EXCEPT ![p] = Idle]
  /\ UNCHANGED <<control, stores, wait, ops, opt, added, calls>>

-----------------------------------------------------------------------------
(* CancelAllContext, Close and closePending.                               *)

(* What is left to do when closePending has the entries of left to visit:  *)
(* a CancelAll with none left returns, a Close goes on.                    *)
Pending(at, err, left) ==
  IF at = "cancel" /\ left = {}
  THEN Idle
  ELSE [Idle EXCEPT !.at = at, !.err = err, !.left = left]

(* GetAll, which finds nothing when it fails, and the deletion of what it  *)
(* returned.                                                               *)
Evict(p, at, err) ==
  \E found \in {Stored} \cup (IF "getall" \in Faulty THEN {{}} ELSE {}) :
    /\ Delete(found)
    /\ op' = [op EXCEPT ![p] = Pending(at, err, {stores[cur][i] : i \in found})]

CancelAll(p) ==
  /\ Begin(p)
  /\ Evict(p, "cancel", "custom")
  /\ UNCHANGED <<history, control, ent, pool, watch, chan, wait>>

(* Close begins with CancelAll(ErrJobClosed)...                            *)
Close(p) ==
  /\ Begin(p)
  /\ Evict(p, "close", "closed")
  /\ UNCHANGED <<history, control, ent, pool, watch, chan, wait>>

\* mutant: Close trusts its first pass
CloseOnce(p) ==
  /\ op[p].at = "close"
  /\ op[p].left = {}
  /\ closed' = TRUE
  /\ op' = [op EXCEPT ![p] = Idle]
  /\ UNCHANGED <<history, counter, cur, stores, ent, pool, watch, under, chan, wait,
                 program, ops>>

(* ...and then closes the manager and evicts what was added meanwhile.     *)
CloseMark(p) ==
  /\ op[p].at = "close"
  /\ op[p].left = {}
  /\ \/ /\ closed
        /\ op' = [op EXCEPT ![p] = Idle]
        /\ UNCHANGED stores
     \/ /\ ~closed
        /\ Evict(p, "cancel", "closed")
  /\ closed' = TRUE
  /\ UNCHANGED <<history, counter, cur, ent, pool, watch, under, chan, wait,
                 program, ops>>

(* One iteration of closePending; a map is walked in any order.            *)
ClosePending(p, e) ==
  /\ op[p].at \in {"cancel", "close"}
  /\ e \in op[p].left
  /\ watch' = Stopped(e)
  /\ chan' = Close0(ent[e].ch)
  /\ calls' = Called(ent[e].cb, op[p].err)
  /\ ent' = Cleared(e)
  /\ pool' = Put(e)
  /\ op' = [op EXCEPT ![p] = Pending(@.at, @.err, @.left \ {e})]
  /\ UNCHANGED <<control, stores, wait, ops, opt, added, removed>>

-----------------------------------------------------------------------------
(* WaitFor up to its select.  One that returns an error at once changes    *)
(* nothing.                                                                *)
WaitFor(w, id) ==
  LET e == stores[cur][id] IN
  /\ wait[w] = 0
  /\ e # 0
  /\ ent[e].ch # 0
  /\ wait' = [wait EXCEPT ![w] = ent[e].ch]
  /\ UNCHANGED <<history, control, stores, ent, pool, watch, chan, op, ops>>

(* The select takes "case res, ok := <-wCh": the result, or ErrJobClosed   *)
(* from a channel that is closed and empty.                                *)
WaitReceive(w) ==
  LET j == wait[w] IN
  /\ j # 0
  /\ \/ /\ chan[j].buf # <<>>
        /\ chan' = [chan EXCEPT ![j].buf = Tail(@)]
     \/ /\ chan[j].buf = <<>>
        /\ chan[j].closes > 0
        /\ UNCHANGED chan
  /\ wait' = [wait EXCEPT ![w] = 0]
  /\ UNCHANGED <<history, control, stores, ent, pool, watch, op, ops>>

(* The select takes "case <-ctx.Done()".                                   *)
WaitCancelled(w) ==
  /\ wait[w] # 0
  /\ wait' = [wait EXCEPT ![w] = 0]
  /\ UNCHANGED <<history, control, stores, ent, pool, watch, chan, op, ops>>

-----------------------------------------------------------------------------
Next ==
  \/ SetStore
  \/ \E p \in Procs :
       \/ NextID(p)
       \/ \E id \in Ids :
            \/ AddRefused(p, id)
            \/ \E o \in program, e \in Jobs :
                 \/ Add(p, id, o, e)
                 \/ \E late \in SUBSET o.watch : AddFailed(p, id, o, e, late)
       \/ \E id \in Ids : Resolve(p, id) \/ Remove(p, id)
       \/ RemoveFinish(p)
       \/ CancelAll(p)
       \/ Close(p)
       \/ CloseMark(p)
       \/ \E e \in Jobs : ClosePending(p, e)
  \/ \E w \in Watchers : Fire(w) \/ FiredResolve(w)
  \/ \E t \in Threads : Deliver(t) \/ Recycle(t)
  \/ \E w \in Waiters :
       \/ \E id \in Ids : WaitFor(w, id)
       \/ WaitReceive(w)
       \/ WaitCancelled(w)

Spec == Init /\ [][Next]_vars

(* A goroutine inside an operation keeps going: the spin lock is free      *)
(* whenever a step needs it, since locked sections never block.  Timers    *)
(* fire; nothing is assumed of contexts or of callers.                     *)
Fairness ==
  /\ \A p \in Procs :
       WF_vars(\/ Deliver(p) \/ Recycle(p) \/ RemoveFinish(p) \/ CloseMark(p)
               \/ \E e \in Jobs : ClosePending(p, e))
  /\ \A w \in Watchers : WF_vars(FiredResolve(w) \/ Deliver(w) \/ Recycle(w))
  /\ \A j \in Jobs : WF_vars(Fire(<<"timer", j>>))
  /\ \A w \in Waiters : WF_vars(WaitReceive(w))

FairSpec == Spec /\ Fairness

-----------------------------------------------------------------------------
Slots(e) == {x \in Stores \X Ids : stores[x[1]][x[2]] = e}

(* Goroutines that will hand entry e back to the pool.                     *)
Hands(e) ==
  {t \in Threads :
     \/ op[t].at \in {"deliver", "recycle"} /\ op[t].n = e
          /\ ~ent[e].keep
     \/ op[t].at = "remove" /\ op[t].n = e
     \/ e \in op[t].left}

(* Places from which callback of job j will still be called, or dropped by  *)
(* a Remove.                                                                *)
Custody(j) ==
  {x \in Stores \X Ids :
     stores[x[1]][x[2]] # 0 /\ ent[stores[x[1]][x[2]]].cb = j}
    \cup
  {t \in Threads :
     \/ op[t].at = "deliver" /\ op[t].cb = j
     \/ op[t].at = "remove" /\ ent[op[t].n].cb = j
     \/ \E e \in op[t].left : ent[e].cb = j}

Errs == {"nil", "timeout", "cancelled", "custom", "closed"}

Places == {"idle", "adding", "deliver", "recycle", "remove",
           "cancel", "close"}

WatchStates == {"none", "armed", "fired", "done", "stopped"}

Entries ==
  [job : 0..MaxJobs, cb : 0..MaxJobs, ch : 0..MaxJobs, keep : BOOLEAN,
   stop : [Kinds -> 0..MaxJobs]]

Channels == [buf : Seq(Errs), closes : Nat]

Operations ==
  [at : Places, n : 0..MaxJobs, ch : 0..MaxJobs, cb : 0..MaxJobs, err : Errs,
   left : SUBSET Jobs]

(* Every variable has its type; in particular the pool never hands out an   *)
(* entry it does not have.                                                  *)
TypeOK ==
  /\ counter \in 0..MaxJobs
  /\ closed \in BOOLEAN
  /\ cur \in Stores
  /\ stores \in [Stores -> [Ids -> 0..MaxJobs]]
  /\ ent \in [Jobs -> Entries]
  /\ pool \in [Jobs -> Nat]
  /\ watch \in [Watchers -> WatchStates]
  /\ under \in [Jobs -> Ids]
  /\ chan \in [Jobs -> Channels]
  /\ op \in [Threads -> Operations]
  /\ wait \in [Waiters -> 0..MaxJobs]
  /\ program \in Programs
  /\ ops \in 0..MaxOps
  /\ opt \in [Jobs -> Options]
  /\ added \subseteq Jobs
  /\ calls \in [Jobs -> Seq(Errs)]
  /\ removed \subseteq 0..MaxJobs

(* "The manager is safe for concurrent use and manages memory allocation    *)
(* efficiently using an internal pool of job entries" (jobs.go:110-111): an *)
(* entry is in the pool once, or tracked under one id, or in the hands of   *)
(* one goroutine, never two of these.                                       *)
EntryExclusive ==
  /\ TypeOK
  /\ \A e \in Jobs : pool[e] + Cardinality(Slots(e)) + Cardinality(Hands(e)) <= 1

(* Exactly once: a one-shot job that was accepted with a callback is, at    *)
(* any time, either on its way in one place, or called once, or removed.    *)
CalledOnce ==
  \A j \in Jobs :
    j \in added /\ opt[j].cb /\ ~opt[j].keep =>
      Cardinality(Custody(j)) + Len(calls[j])
        + (IF j \in removed THEN 1 ELSE 0) = 1

(* No panic on a wait channel: it is closed once, and whoever is about to   *)
(* send or close finds it open and empty.                                   *)
ChannelOnce ==
  \A j \in Jobs :
    /\ chan[j].closes <= 1
    /\ (\/ \E t \in Threads : op[t].at = "deliver" /\ op[t].ch = j
        \/ \E e \in Jobs : ent[e].ch = j /\ pool[e] = 0)
         => chan[j].closes = 0 /\ chan[j].buf = <<>>

(* The watchers of an entry that is tracked, or that the goroutine which    *)
(* took it from the store has yet to stop.                                  *)
Guarded(e, k) ==
  /\ ent[e].stop[k] # 0
  /\ \/ Slots(e) # {}
     \/ \E t \in Threads : \/ op[t].at \in {"deliver", "remove"} /\ op[t].n = e
                          \/ e \in op[t].left

(* No timer or context watcher runs on when its job is gone, whoever ended  *)
(* the job and also when it could not be added; and while a one-shot job is *)
(* tracked nobody has stopped its timer, although a goroutine may be at     *)
(* work on the job that had the entry before (jobs.go:293-320, 368-375).    *)
TimersOwned ==
  /\ \A w \in Watchers :
       watch[w] = "armed" => \E e \in Jobs : ent[e].stop[w[1]] = w[2] /\ Guarded(e, w[1])
  /\ \A e \in Jobs, k \in Kinds :
       Slots(e) # {} /\ ent[e].stop[k] # 0 /\ ~ent[e].keep
         => watch[<<k, ent[e].stop[k]>>] # "stopped"

(* "ErrJobTimeout is returned when a job exceeds its allowed execution time *)
(* defined by [WithTimeout]" (jobs.go:21-22): its own timer has fired.      *)
OwnTimeout ==
  \A j \in Jobs :
    (\E i \in DOMAIN calls[j] : calls[j][i] = "timeout")
      => watch[<<"timer", j>>] = "done"

(* Close is final: nothing is tracked afterwards.                           *)
ClosedEmpty == closed => Stored = {}

(* A one-shot job with a timeout is settled in the end: its callback has    *)
(* been called, or it was removed, and no WaitFor is blocked on it.  The    *)
(* exception is SetStore, which puts the jobs of the old store out of the   *)
(* reach of their own timers.                                               *)
JobSettles ==
  [](cur = 0) =>
    \A j \in Jobs :
      j \in added /\ opt[j].cb /\ ~opt[j].keep /\ "timer" \in opt[j].watch
        ~> /\ calls[j] # <<>> \/ j \in removed
           /\ \A w \in Waiters : wait[w] # j

=============================================================================
