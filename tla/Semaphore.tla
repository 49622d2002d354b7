----------------------------- MODULE Semaphore -----------------------------
(***************************************************************************)
(* The resizable counting semaphore of sync/semaphore/semaphore.go.        *)
(*                                                                         *)
(* Every goroutine that calls Acquire owns one wait channel at a time, so  *)
(* the queue of channels s.waiters is a sequence of goroutines, and a      *)
(* closed channel nobody has received from yet is membership in granted.   *)
(* Two things are not atomic and are separate actions here:                *)
(*   - the select of a blocked Acquire, which picks either case when both  *)
(*     are ready, and the locked removal from the queue that follows it;   *)
(*   - the loop of notifyWaiters, which closes one channel after another   *)
(*     with s.mu held while the woken goroutines already run.              *)
(* Every other critical section is one action.                             *)
(***************************************************************************)
EXTENDS Integers, Sequences, FiniteSets

CONSTANTS
  Procs,         \* goroutines that use the semaphore
  Cancellable,   \* the ones whose context may be cancelled while they wait
  Limits,        \* values New and Resize are called with
  None           \* "s.mu is free"

ASSUME SemaphoreAssumption ==
  /\ IsFiniteSet(Procs)
  /\ Cancellable \subseteq Procs
  /\ Limits \subseteq Nat
  /\ None \notin Procs

VARIABLES
  mu,       \* the goroutine inside the loop of notifyWaiters, or None
  limit,    \* s.limit
  active,   \* s.active
  waiters,  \* s.waiters
  granted,  \* goroutines whose channel notifyWaiters has closed
  pc        \* where each goroutine is

vars == <<mu, limit, active, waiters, granted, pc>>

-----------------------------------------------------------------------------

(* New: any configured limit, nobody active, nobody waiting.               *)
New ==
  /\ limit \in Limits
  /\ active = 0
  /\ waiters = <<>>

Init ==
  /\ New
  /\ mu = None
  /\ granted = {}
  /\ pc = [p \in Procs |-> "idle"]

(* Acquire up to its select.  An Acquire whose context is already done     *)
(* returns before it looks at the semaphore and is a stuttering step.      *)
Acquire(p) ==
  /\ pc[p] = "idle"
  /\ mu = None
  /\ \/ /\ active < limit
        /\ active' = active + 1
        /\ pc' = [pc EXCEPT ![p] = "holding"]
        /\ UNCHANGED waiters
     \/ /\ active >= limit
        /\ waiters' = Append(waiters, p)
        /\ pc' = [pc EXCEPT ![p] = "waiting"]
        /\ UNCHANGED active
  /\ UNCHANGED <<mu, limit, granted>>

(* The select takes "case <-ch": the slot was counted by notifyWaiters.    *)
Receive(p) ==
  /\ pc[p] = "waiting"
  /\ p \in granted
  /\ granted' = granted \ {p}
  /\ pc' = [pc EXCEPT ![p] = "holding"]
  /\ UNCHANGED <<mu, limit, active, waiters>>

(* The select takes "case <-ctx.Done()"; s.mu is not held yet, and the     *)
(* channel may already be closed.                                          *)
CtxDone(p) ==
  /\ p \in Cancellable
  /\ pc[p] = "waiting"
  /\ pc' = [pc EXCEPT ![p] = "cancelling"]
  /\ UNCHANGED <<mu, limit, active, waiters, granted>>

(* append(s.waiters[:i], s.waiters[i+1:]...)                               *)
Without(seq, i) == SubSeq(seq, 1, i - 1) \o SubSeq(seq, i + 1, Len(seq))

(* The cancelled Acquire looks for its channel in the queue, removes it    *)
(* when it is there, and returns ctx.Err().                                *)
Abandon(p) ==
  /\ pc[p] = "cancelling"
  /\ mu = None
  /\ \/ \E i \in DOMAIN waiters :
          waiters[i] = p /\ waiters' = Without(waiters, i)
     \/ /\ \A i \in DOMAIN waiters : waiters[i] # p
        /\ UNCHANGED waiters
  /\ granted' = granted \ {p}
  /\ pc' = [pc EXCEPT ![p] = "idle"]
  /\ UNCHANGED <<mu, limit, active>>

(* Release: gives the slot back and enters notifyWaiters.                  *)
Release(p) ==
  /\ pc[p] = "holding"
  /\ mu = None
  /\ active' = active - 1
  /\ mu' = p
  /\ pc' = [pc EXCEPT ![p] = "notifying"]
  /\ UNCHANGED <<limit, waiters, granted>>

\* mutant: Resize without notifyWaiters
ResizeSilent(p, newLimit) ==
  /\ pc[p] = "idle"
  /\ mu = None
  /\ limit' = newLimit
  /\ UNCHANGED <<mu, active, waiters, granted, pc>>

(* Resize: changes the limit and enters notifyWaiters.                     *)
Resize(p, newLimit) ==
  /\ pc[p] = "idle"
  /\ mu = None
  /\ limit' = newLimit
  /\ mu' = p
  /\ pc' = [pc EXCEPT ![p] = "notifying"]
  /\ UNCHANGED <<active, waiters, granted>>

(* The loop condition of notifyWaiters.                                    *)
CanNotify == active < limit /\ Len(waiters) > 0

\* mutant: the woken goroutine's slot is not counted
NotifyUncounted(p) ==
  /\ mu = p
  /\ CanNotify
  /\ granted' = granted \cup {Head(waiters)}
  /\ waiters' = Tail(waiters)
  /\ UNCHANGED <<mu, limit, active, pc>>

\* mutant: the newest waiter is woken first
NotifyNewest(p) ==
  /\ mu = p
  /\ CanNotify
  /\ granted' = granted \cup {waiters[Len(waiters)]}
  /\ waiters' = SubSeq(waiters, 1, Len(waiters) - 1)
  /\ active' = active + 1
  /\ UNCHANGED <<mu, limit, pc>>

(* One iteration of the loop of notifyWaiters.                             *)
NotifyOne(p) ==
  /\ mu = p
  /\ CanNotify
  /\ granted' = granted \cup {Head(waiters)}
  /\ waiters' = Tail(waiters)
  /\ active' = active + 1
  /\ UNCHANGED <<mu, limit, pc>>

(* The loop ends and the deferred s.mu.Unlock() runs.                      *)
NotifyDone(p) ==
  /\ mu = p
  /\ ~CanNotify
  /\ mu' = None
  /\ pc' = [pc EXCEPT ![p] = "idle"]
  /\ UNCHANGED <<limit, active, waiters, granted>>

Next ==
  \E p \in Procs :
    \/ Acquire(p)
    \/ Receive(p)
    \/ CtxDone(p)
    \/ Abandon(p)
    \/ Release(p)
    \/ \E n \in Limits : Resize(p, n)
    \/ NotifyOne(p)
    \/ NotifyDone(p)

Spec == Init /\ [][Next]_vars

(* A goroutine inside the package keeps running, and the owner of a slot   *)
(* gives it back in the end.  Release and Abandon need s.mu, which others  *)
(* keep taking: the starvation mode of sync.Mutex makes that strong        *)
(* fairness.  Nothing is assumed of Acquire, Resize or cancellation.       *)
Fairness ==
  \A p \in Procs :
    /\ WF_vars(Receive(p))
    /\ WF_vars(NotifyOne(p) \/ NotifyDone(p))
    /\ SF_vars(Abandon(p))
    /\ SF_vars(Release(p))

-----------------------------------------------------------------------------

Where == {"idle", "waiting", "cancelling", "holding", "notifying"}

(* Every variable has its type, and s.active never goes below zero although *)
(* Release decrements it without a check (semaphore.go:68).                 *)
TypeOK ==
  /\ mu \in Procs \cup {None}
  /\ limit \in Nat
  /\ active \in Nat
  /\ waiters \in Seq(Procs)
  /\ granted \in SUBSET Procs
  /\ pc \in [Procs -> Where]

Holding == {p \in Procs : pc[p] = "holding"}

(* A slot is never handed out twice: the goroutines that hold one, together *)
(* with those whose channel is closed and who are about to wake with one,   *)
(* are never more than the slots s.active accounts for.                     *)
SlotsAccounted == Cardinality(Holding \cup granted) <= active

(* No lost wake-up: with s.mu free, nobody is queued while a slot is free.  *)
(* Release and Resize both have to run the loop to the end for this.        *)
NoLostWakeup == mu = None => (waiters = <<>> \/ active >= limit)

(* The queue holds exactly the channels that are still open: a blocked      *)
(* goroutine is queued once or has been granted, never both and never       *)
(* neither.                                                                 *)
QueueExact ==
  /\ \A i, j \in DOMAIN waiters : waiters[i] = waiters[j] => i = j
  /\ \A i \in DOMAIN waiters :
       /\ pc[waiters[i]] \in {"waiting", "cancelling"}
       /\ waiters[i] \notin granted
  /\ \A p \in Procs :
       pc[p] \in {"waiting", "cancelling"} =>
         (p \in granted \/ \E i \in DOMAIN waiters : waiters[i] = p)
  /\ \A p \in granted : pc[p] \in {"waiting", "cancelling"}

(* Who holds a slot and who waits for one is counted exactly, through every *)
(* cancellation that races a Release (semaphore.go:44-61, 81-89).           *)
SlotSafe == TypeOK /\ SlotsAccounted /\ QueueExact

(* The semaphore is a SlotGate whose channels, loops and s.mu are hidden:   *)
(* an Acquire never overtakes a queued goroutine, although it tests only    *)
(* s.active, and notifyWaiters hands out only what is free.                 *)
Gate == INSTANCE SlotGate WITH
          used <- active, holders <- Holding \cup granted, queue <- waiters

ImplementsGate == Gate!Spec

(* "If the context is cancelled while waiting, the waiter is removed from   *)
(* the queue and the context error is returned" (doc.go:21-23): whoever     *)
(* returns an error keeps no slot, so every slot s.active counts belongs to *)
(* a goroutine that holds it or is about to wake with it.                   *)
NoSlotLeak == active <= Cardinality(Holding \cup granted)

(* As long as no slot has leaked, every queued goroutine gets a slot or is  *)
(* cancelled, whatever Resize does, unless the limit stays at zero for ever.*)
WaiterServed ==
  []NoSlotLeak /\ []<>(limit > 0) =>
    \A p \in Procs :
      pc[p] = "waiting" ~> pc[p] \in {"holding", "cancelling"}

=============================================================================
