------------------------------ MODULE KeyLock ------------------------------
(***************************************************************************)
(* The key-based mutex of sync/keylock/keylock.go.                         *)
(*                                                                         *)
(* The sections under km.mu are atomic; the mutex of a refCounter is taken *)
(* and released outside them, in actions of its own.  A goroutine uses one *)
(* key at a time.  A refCounter that neither the map nor a goroutine       *)
(* refers to is garbage, and its name may be used again.                   *)
(***************************************************************************)
EXTENDS Integers, FiniteSets

CONSTANTS
  Procs,   \* goroutines
  Keys,    \* keys
  Refs,    \* names for refCounter objects
  Forced,  \* keys ForceUnlock is called with
  NoRef,   \* "not in km.locks"
  None     \* "the mutex is unlocked"

KeyLockAssumption ==
  /\ IsFiniteSet(Procs)
  /\ Keys # {}
  /\ Forced \subseteq Keys
  /\ NoRef \notin Refs
  /\ None \notin Procs

VARIABLES
  locks,  \* km.locks
  count,  \* refCounter.count
  owner,  \* holder of refCounter.mu
  pc,     \* where each goroutine is
  key,    \* the key it is using or, outside the package, AnyKey
  ref     \* its local variable ref

vars == <<locks, count, owner, pc, key, ref>>

-----------------------------------------------------------------------------
(* Goroutines whose ++ on the counter has not been undone.                 *)
Counted == {"locking", "held", "trying", "backing"}

(* ...and those that are about to unlock their ref.                        *)
InUse == Counted \cup {"unlocking", "forcing"}

(* What the key of a goroutine outside the package is: nobody reads it.    *)
AnyKey == CHOOSE k \in Keys : TRUE

Unused(r) ==
  /\ \A k \in Keys : locks[k] # r
  /\ \A p \in Procs : pc[p] \in InUse => ref[p] # r

(* The name a new refCounter gets: which of the unused ones does not matter.*)
Fresh(r) == Unused(r) /\ r = CHOOSE s \in Refs : Unused(s)

(* New.                                                                    *)
Init ==
  /\ locks = [k \in Keys |-> NoRef]
  /\ count = [r \in Refs |-> 0]
  /\ owner = [r \in Refs |-> None]
  /\ pc = [p \in Procs |-> "idle"]
  /\ key = [p \in Procs |-> AnyKey]
  /\ ref = [p \in Procs |-> NoRef]

(* A fatal error ends the process.                                         *)
Running == \A p \in Procs : pc[p] # "fatal"

At(p, place) == Running /\ pc[p] = place

(* The section under km.mu that Lock and TryLock begin with.               *)
Enter(p, k, next) ==
  /\ At(p, "idle")
  /\ \/ /\ locks[k] # NoRef
        /\ ref' = [ref EXCEPT ![p] = locks[k]]
        /\ count' = [count EXCEPT ![locks[k]] = @ + 1]
        /\ UNCHANGED <<locks, owner>>
     \/ /\ locks[k] = NoRef
        /\ \E r \in Refs :
             /\ Fresh(r)
             /\ ref' = [ref EXCEPT ![p] = r]
             /\ locks' = [locks EXCEPT ![k] = r]
             /\ count' = [count EXCEPT ![r] = 1]
             /\ owner' = [owner EXCEPT ![r] = None]
  /\ key' = [key EXCEPT ![p] = k]
  /\ pc' = [pc EXCEPT ![p] = next]

(* ref.count--, and the entry is deleted when nobody is left.              *)
Leave(k, r) ==
  /\ count' = [count EXCEPT ![r] = @ - 1]
  /\ locks' = IF count[r] = 1 THEN [locks EXCEPT ![k] = NoRef] ELSE locks

Lock(p, k) == Enter(p, k, "locking")

(* ref.mu.Lock() of Lock.                                                  *)
LockAcquire(p) ==
  /\ At(p, "locking")
  /\ owner[ref[p]] = None
  /\ owner' = [owner EXCEPT ![ref[p]] = p]
  /\ pc' = [pc EXCEPT ![p] = "held"]
  /\ UNCHANGED <<locks, count, key, ref>>

\* mutant: the entry is deleted whatever the counter says
UnlockDeletes(p) ==
  /\ At(p, "held")
  /\ locks[key[p]] # NoRef
  /\ ref' = [ref EXCEPT ![p] = locks[key[p]]]
  /\ count' = [count EXCEPT ![locks[key[p]]] = @ - 1]
  /\ locks' = [locks EXCEPT ![key[p]] = NoRef]
  /\ pc' = [pc EXCEPT ![p] = "unlocking"]
  /\ UNCHANGED <<owner, key>>

\* mutant: with others waiting, Unlock returns before ref.mu.Unlock()
UnlockReturns(p) ==
  LET r == locks[key[p]] IN
  /\ At(p, "held")
  /\ r # NoRef
  /\ Leave(key[p], r)
  /\ ref' = [ref EXCEPT ![p] = r]
  /\ pc' = [pc EXCEPT ![p] = IF count[r] > 1 THEN "idle" ELSE "unlocking"]
  /\ key' = IF count[r] > 1 THEN [key EXCEPT ![p] = AnyKey] ELSE key
  /\ UNCHANGED owner

(* The section of Unlock under km.mu; its holder calls it once.            *)
Unlock(p) ==
  LET r == locks[key[p]] IN
  /\ At(p, "held")
  /\ \/ /\ r = NoRef
        /\ pc' = [pc EXCEPT ![p] = "panicked"]
        /\ UNCHANGED <<locks, count, ref>>
     \/ /\ r # NoRef
        /\ Leave(key[p], r)
        /\ ref' = [ref EXCEPT ![p] = r]
        /\ pc' = [pc EXCEPT ![p] = "unlocking"]
  /\ UNCHANGED <<owner, key>>

(* ref.mu.Unlock(): whoever holds it, and fatal, beyond any recover, when  *)
(* nobody does.                                                            *)
MutexUnlock(p, at) ==
  /\ At(p, at)
  /\ owner' = [owner EXCEPT ![ref[p]] = None]
  /\ pc' = [pc EXCEPT ![p] = IF owner[ref[p]] = None THEN "fatal" ELSE "idle"]
  /\ ref' = [ref EXCEPT ![p] = NoRef]
  /\ key' = [key EXCEPT ![p] = IF owner[ref[p]] = None THEN @ ELSE AnyKey]
  /\ UNCHANGED <<locks, count>>

UnlockRelease(p) == MutexUnlock(p, "unlocking")

TryLock(p, k) == Enter(p, k, "trying")

(* ref.mu.TryLock() of TryLock, which may also fail on a free mutex.       *)
TryAttempt(p) ==
  /\ At(p, "trying")
  /\ \/ /\ owner[ref[p]] = None
        /\ owner' = [owner EXCEPT ![ref[p]] = p]
        /\ pc' = [pc EXCEPT ![p] = "held"]
     \/ /\ pc' = [pc EXCEPT ![p] = "backing"]
        /\ UNCHANGED owner
  /\ UNCHANGED <<locks, count, key, ref>>

\* mutant: a failed TryLock keeps its reference
BackoutKeeps(p) ==
  /\ At(p, "backing")
  /\ pc' = [pc EXCEPT ![p] = "idle"]
  /\ ref' = [ref EXCEPT ![p] = NoRef]
  /\ key' = [key EXCEPT ![p] = AnyKey]
  /\ UNCHANGED <<locks, count, owner>>

(* The second section of a TryLock that failed.                            *)
TryBackout(p) ==
  /\ At(p, "backing")
  /\ Leave(key[p], ref[p])
  /\ pc' = [pc EXCEPT ![p] = "idle"]
  /\ ref' = [ref EXCEPT ![p] = NoRef]
  /\ key' = [key EXCEPT ![p] = AnyKey]
  /\ UNCHANGED owner

(* ForceUnlock: the section under km.mu, then ref.mu.Unlock().             *)
ForceUnlock(p, k) ==
  /\ At(p, "idle")
  /\ locks[k] # NoRef
  /\ ref' = [ref EXCEPT ![p] = locks[k]]
  /\ key' = [key EXCEPT ![p] = k]
  /\ locks' = [locks EXCEPT ![k] = NoRef]
  /\ pc' = [pc EXCEPT ![p] = "forcing"]
  /\ UNCHANGED <<count, owner>>

ForceRelease(p) == MutexUnlock(p, "forcing")

Next ==
  \E p \in Procs :
    \/ \E k \in Keys : Lock(p, k) \/ TryLock(p, k)
    \/ LockAcquire(p)
    \/ Unlock(p)
    \/ UnlockRelease(p)
    \/ TryAttempt(p)
    \/ TryBackout(p)
    \/ \E k \in Forced : ForceUnlock(p, k)
    \/ ForceRelease(p)

Spec == Init /\ [][Next]_vars

(* A goroutine inside the package keeps going and the holder of a key      *)
(* unlocks it; sync.Mutex lets every blocked Lock have its turn.           *)
Fairness ==
  \A p \in Procs :
    /\ WF_vars(Unlock(p) \/ UnlockRelease(p) \/ ForceRelease(p))
    /\ SF_vars(LockAcquire(p))

FairSpec == Spec /\ Fairness

-----------------------------------------------------------------------------
(* Every variable has its type, and no operation goes on without a ref.    *)
TypeOK ==
  /\ locks \in [Keys -> Refs \cup {NoRef}]
  /\ count \in [Refs -> Int]
  /\ owner \in [Refs -> Procs \cup {None}]
  /\ pc \in [Procs -> InUse \cup {"idle", "panicked", "fatal"}]
  /\ key \in [Procs -> Keys]
  /\ ref \in [Procs -> Refs \cup {NoRef}]
  /\ \A p \in Procs : pc[p] \in InUse => ref[p] \in Refs

Safe == Keys \ Forced

(* Two goroutines never hold one key, as long as nobody calls ForceUnlock   *)
(* on that very key; ForceUnlock on other keys does not matter.             *)
MutualExclusion ==
  \A p, q \in Procs :
    pc[p] = "held" /\ pc[q] = "held" /\ key[p] = key[q] /\ key[p] \in Safe
      => p = q

Users(k) == {p \in Procs : pc[p] \in Counted /\ key[p] = k}

(* "keys are automatically cleaned up via reference counting when no        *)
(* goroutine holds them" (doc.go:11-12): a key is in the map exactly while  *)
(* a goroutine holds it, waits for it or tries it, its counter is the       *)
(* number of those goroutines, and all of them share one mutex.  Nobody     *)
(* panics in Unlock or unlocks an unlocked mutex on a key ForceUnlock is    *)
(* not called on (keylock.go:101-116).                                      *)
RefsCounted ==
  /\ TypeOK
  /\ \A k \in Safe :
    /\ locks[k] = NoRef <=> Users(k) = {}
    /\ locks[k] # NoRef => count[locks[k]] = Cardinality(Users(k))
    /\ \A p \in Users(k) : ref[p] = locks[k]
  /\ \A p \in Procs : pc[p] \in {"panicked", "fatal"} => key[p] \in Forced

(* A blocked Lock gets its key in the end, on a key ForceUnlock is not      *)
(* called on, unless the process dies.                                      *)
LockServed ==
  []Running =>
    \A p \in Procs :
      pc[p] = "locking" /\ key[p] \in Safe ~> pc[p] = "held"

=============================================================================
