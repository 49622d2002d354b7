---------------------------- MODULE KeyLockProofs ----------------------------
(***************************************************************************)
(* Proofs that the key lock excludes, counts and never panics, for any     *)
(* number of goroutines and keys, on every key ForceUnlock is not called   *)
(* on, whatever it does to the others.                                     *)
(***************************************************************************)
EXTENDS KeyLock, FiniteSetTheorems, TLAPS

(* A refCounter belongs to one key: to the one that maps to it and to the  *)
(* one of the goroutines that still use it.                                *)
OneKeyPerRef ==
  /\ \A j, k \in Keys : locks[j] = locks[k] /\ locks[j] # NoRef => j = k
  /\ \A p \in Procs, k \in Keys :
       pc[p] \in InUse /\ locks[k] = ref[p] => k = key[p]
  /\ \A p, q \in Procs :
       pc[p] \in InUse /\ pc[q] \in InUse /\ ref[p] = ref[q] => key[p] = key[q]

(* The users of a safe key share the mutex in the map, which counts them.  *)
Counting(k) ==
  /\ locks[k] = NoRef <=> Users(k) = {}
  /\ locks[k] # NoRef => count[locks[k]] = Cardinality(Users(k))
  /\ \A p \in Users(k) : ref[p] = locks[k]

SafeCounted == \A k \in Safe : Counting(k)

(* Whoever holds a safe key, or is about to unlock it, owns its mutex.     *)
Owned ==
  \A p \in Procs :
    pc[p] \in {"held", "unlocking"} /\ key[p] \in Safe => owner[ref[p]] = p

OnlyForced ==
  \A p \in Procs : pc[p] \in {"forcing", "panicked", "fatal"} => key[p] \in Forced

(* The inductive invariant.                                                *)
IInv == TypeOK /\ OneKeyPerRef /\ SafeCounted /\ Owned /\ OnlyForced

-----------------------------------------------------------------------------
(* The users of a key are a finite set.                                    *)
LEMMA UsersFinite ==
  ASSUME KeyLockAssumption, NEW k
  PROVE  IsFiniteSet(Users(k)) /\ Cardinality(Users(k)) \in Nat
BY FS_Subset, FS_CardinalityType DEF Users, KeyLockAssumption

(* A set without one of its elements, and its size.                        *)
LEMMA OneLess ==
  ASSUME NEW S, IsFiniteSet(S), NEW x \in S
  PROVE  /\ Cardinality(S \ {x}) = Cardinality(S) - 1
         /\ Cardinality(S) \in Nat
         /\ S \ {x} = {} <=> Cardinality(S) = 1
<1>1. Cardinality(S \ {x}) = Cardinality(S) - 1 /\ Cardinality(S) \in Nat
  BY FS_RemoveElement, FS_CardinalityType
<1>2. IsFiniteSet(S \ {x})
  BY FS_RemoveElement
<1>3. S \ {x} = {} <=> Cardinality(S \ {x}) = 0
  BY <1>2, FS_EmptySet
<1> QED BY <1>1, <1>3

(* The key of a goroutine outside the package is a key.                    *)
LEMMA AnyKeyIsKey ==
  ASSUME KeyLockAssumption
  PROVE  AnyKey \in Keys
BY DEF KeyLockAssumption, AnyKey

(* At first the map is empty and nobody uses a key.                        *)
LEMMA InitIInv ==
  ASSUME KeyLockAssumption, Init
  PROVE  IInv
<1>1. \A k \in Keys : Users(k) = {}
  BY DEF Init, Users, Counted
<1> QED
  BY <1>1, AnyKeyIsKey
  DEF KeyLockAssumption, Init, IInv, TypeOK, OneKeyPerRef, SafeCounted, Counting,
      Owned, OnlyForced, InUse, Counted, Safe

(* The first section of Lock and of TryLock.                               *)
LEMMA EnterIInv ==
  ASSUME KeyLockAssumption, IInv, NEW p \in Procs, NEW k \in Keys, NEW next \in {"locking", "trying"},
         Enter(p, k, next)
  PROVE  IInv'
<1> USE DEF IInv, InUse, Counted
<1>1. pc[p] = "idle" /\ p \notin Users(k)
  BY DEF Enter, At, Users
<1>2. Users(k)' = Users(k) \cup {p}
  BY <1>1 DEF Enter, Users, TypeOK
<1>3. \A j \in Keys : j # k => Users(j)' = Users(j)
  BY <1>1 DEF Enter, Users, TypeOK
<1>4. Cardinality(Users(k)') = Cardinality(Users(k)) + 1
  BY <1>1, <1>2, UsersFinite, FS_AddElement
<1>5. CASE locks[k] # NoRef
  <2>1. /\ locks' = locks /\ owner' = owner
        /\ ref' = [ref EXCEPT ![p] = locks[k]]
        /\ count' = [count EXCEPT ![locks[k]] = @ + 1]
        /\ key' = [key EXCEPT ![p] = k]
        /\ pc' = [pc EXCEPT ![p] = next]
    BY <1>5 DEF Enter
  <2>2. TypeOK'
    BY <1>5, <2>1 DEF TypeOK
  <2>3. OneKeyPerRef'
    BY <1>5, <2>1 DEF OneKeyPerRef, TypeOK
  <2>4. ASSUME NEW j \in Safe PROVE Counting(j)'
    <3>1. Counting(j)
      BY DEF SafeCounted
    <3>2. CASE j = k
      BY <1>2, <1>4, <1>5, <2>1, <3>1, <3>2 DEF Counting, TypeOK, Users
    <3>3. CASE j # k
      <4>1. Users(j)' = Users(j) /\ locks'[j] = locks[j]
        BY <1>3, <2>1, <3>3 DEF Safe
      <4>2. locks[j] # NoRef => count'[locks[j]] = count[locks[j]]
        BY <2>1, <3>3 DEF TypeOK, Safe, OneKeyPerRef
      <4>3. \A q \in Users(j) : ref'[q] = ref[q]
        BY <1>1, <2>1 DEF Users, TypeOK
      <4> QED BY <3>1, <4>1, <4>2, <4>3 DEF Counting
    <3> QED BY <3>2, <3>3
  <2>5. Owned' /\ OnlyForced'
    BY <2>1 DEF Owned, OnlyForced, TypeOK
  <2> QED BY <2>2, <2>3, <2>4, <2>5 DEF SafeCounted
<1>6. CASE locks[k] = NoRef
  <2>1. PICK r \in Refs :
          /\ Fresh(r)
          /\ ref' = [ref EXCEPT ![p] = r]
          /\ locks' = [locks EXCEPT ![k] = r]
          /\ count' = [count EXCEPT ![r] = 1]
          /\ owner' = [owner EXCEPT ![r] = None]
          /\ key' = [key EXCEPT ![p] = k]
          /\ pc' = [pc EXCEPT ![p] = next]
    BY <1>6 DEF Enter
  <2>2. TypeOK'
    BY <2>1 DEF TypeOK
  <2>3. OneKeyPerRef'
    BY <1>6, <2>1 DEF OneKeyPerRef, TypeOK, Fresh, Unused, KeyLockAssumption
  <2>4. ASSUME NEW j \in Safe PROVE Counting(j)'
    <3>1. CASE j = k
      <4>1. Users(k) = {}
        BY <1>6, <3>1 DEF SafeCounted, Counting
      <4>2. Cardinality(Users(k)') = 1 /\ Users(k)' = {p}
        BY <1>2, <4>1, FS_Singleton
      <4> QED BY <2>1, <3>1, <4>2 DEF Counting, TypeOK, KeyLockAssumption
    <3>2. CASE j # k
      <4>1. Users(j)' = Users(j) /\ locks'[j] = locks[j] /\ locks[j] # r
        BY <1>3, <2>1, <3>2 DEF Safe, Fresh, Unused, TypeOK
      <4>2. locks[j] # NoRef => count'[locks[j]] = count[locks[j]]
        BY <2>1, <4>1 DEF TypeOK, Safe
      <4>3. \A q \in Users(j) : ref'[q] = ref[q]
        BY <1>1, <2>1 DEF Users, TypeOK
      <4> QED BY <4>1, <4>2, <4>3 DEF SafeCounted, Counting
    <3> QED BY <3>1, <3>2
  <2>5. Owned' /\ OnlyForced'
    BY <2>1 DEF Owned, OnlyForced, TypeOK, Fresh, Unused
  <2> QED BY <2>2, <2>3, <2>4, <2>5 DEF SafeCounted
<1> QED BY <1>5, <1>6

(* The ++ of p on the counter of its safe key is undone: what Unlock and   *)
(* the second section of TryLock have in common.                           *)
LEMMA LeaveCounts ==
  ASSUME KeyLockAssumption, IInv, NEW p \in Procs, NEW k \in Keys, NEW r \in Refs,
         pc[p] \in Counted, key[p] = k, Leave(k, r),
         k \in Safe => r = locks[k],
         \A j \in Keys : locks[j] = r => j = k,
         \A j \in Keys : Users(j)' = Users(j) \ {p},
         \A q \in Procs : q # p => ref'[q] = ref[q]
  PROVE  SafeCounted'
<1> SUFFICES ASSUME NEW j \in Safe PROVE Counting(j)'
  BY DEF SafeCounted
<1> USE DEF IInv
<1>1. Counting(j) /\ j \in Keys
  BY DEF SafeCounted, Safe
<1>2. \A q \in Users(j)' : ref'[q] = ref[q] /\ q \in Users(j)
  BY <1>1 DEF Users
<1>3. CASE j = k
  <2>1. p \in Users(k) /\ locks[k] = r /\ r # NoRef
    BY <1>3 DEF Users, KeyLockAssumption
  <2>2. /\ Cardinality(Users(k)') = Cardinality(Users(k)) - 1
        /\ Users(k)' = {} <=> Cardinality(Users(k)) = 1
    BY <2>1, UsersFinite, OneLess
  <2>3. count[r] = Cardinality(Users(k))
    BY <1>1, <1>3, <2>1 DEF Counting
  <2>4. CASE count[r] = 1
    <3>1. locks'[k] = NoRef
      BY <2>4 DEF Leave, TypeOK
    <3> QED BY <1>3, <2>2, <2>3, <2>4, <3>1 DEF Counting
  <2>5. CASE count[r] # 1
    <3>1. locks'[k] = r /\ count'[r] = count[r] - 1
      BY <2>1, <2>5 DEF Leave, TypeOK
    <3> QED BY <1>1, <1>2, <1>3, <2>1, <2>2, <2>3, <2>5, <3>1 DEF Counting
  <2> QED BY <2>4, <2>5
<1>4. CASE j # k
  <2>1. Users(j)' = Users(j)
    BY <1>1, <1>4 DEF Users
  <2>2. locks'[j] = locks[j]
    BY <1>1, <1>4 DEF Leave, TypeOK
  <2>3. locks[j] # NoRef => count'[locks[j]] = count[locks[j]]
    BY <1>1, <1>4 DEF Leave, TypeOK
  <2> QED BY <1>1, <1>2, <2>1, <2>2, <2>3 DEF Counting
<1> QED BY <1>3, <1>4

(* Unlock.                                                                 *)
LEMMA UnlockIInv ==
  ASSUME KeyLockAssumption, IInv, NEW p \in Procs, Unlock(p)
  PROVE  IInv'
<1> USE DEF IInv, InUse, Counted
<1>1. /\ pc[p] = "held" /\ owner' = owner /\ key' = key
      /\ key[p] \in Keys /\ ref[p] \in Refs
  BY DEF Unlock, At, TypeOK
<1>2. \A j \in Keys : Users(j)' = Users(j) \ {p}
  BY <1>1 DEF Unlock, Users, TypeOK
<1>3. key[p] \in Safe => locks[key[p]] = ref[p] /\ ref[p] # NoRef
  BY <1>1 DEF SafeCounted, Counting, Users, KeyLockAssumption
<1>4. CASE locks[key[p]] = NoRef
  <2>1. /\ key[p] \in Forced /\ pc' = [pc EXCEPT ![p] = "panicked"]
        /\ UNCHANGED <<locks, count, ref>>
    BY <1>1, <1>3, <1>4 DEF Unlock, Safe
  <2>2. TypeOK' /\ OneKeyPerRef'
    BY <1>1, <2>1 DEF TypeOK, OneKeyPerRef
  <2>3. ASSUME NEW j \in Safe PROVE Counting(j)'
    <3>1. Users(j)' = Users(j)
      BY <1>2, <2>1 DEF Safe, Users
    <3> QED BY <2>1, <3>1 DEF SafeCounted, Counting
  <2>4. Owned' /\ OnlyForced'
    BY <1>1, <2>1 DEF Owned, OnlyForced, TypeOK, Safe
  <2> QED BY <2>2, <2>3, <2>4 DEF SafeCounted
<1>5. CASE locks[key[p]] # NoRef
  <2> DEFINE r == locks[key[p]]
  <2>1. /\ r \in Refs /\ Leave(key[p], r)
        /\ ref' = [ref EXCEPT ![p] = r]
        /\ pc' = [pc EXCEPT ![p] = "unlocking"]
    BY <1>1, <1>5 DEF Unlock, TypeOK
  <2>2. \A j \in Keys : locks[j] = r => j = key[p]
    BY <1>1, <1>5 DEF OneKeyPerRef
  <2>3. TypeOK'
    BY <1>1, <2>1 DEF TypeOK, Leave
  <2>4. OneKeyPerRef'
    <3>1. \A j \in Keys : locks'[j] = locks[j] \/ locks'[j] = NoRef
      BY <1>1 DEF Unlock, Leave, TypeOK
    <3>2. \A q \in Procs : q # p => pc'[q] = pc[q] /\ ref'[q] = ref[q]
      BY <2>1 DEF TypeOK
    <3>3. ref'[p] = r /\ pc'[p] = "unlocking"
      BY <2>1 DEF TypeOK
    <3>4. \A q \in Procs : pc'[q] \in InUse => pc[q] \in InUse /\ ref'[q] # NoRef
      BY <1>1, <2>3, <3>2 DEF TypeOK, KeyLockAssumption
    <3> HIDE DEF r, InUse
    <3> QED BY <1>1, <2>1, <2>2, <3>1, <3>2, <3>3, <3>4
        DEF KeyLockAssumption, OneKeyPerRef, r
  <2>5. SafeCounted'
    <3>1. \A q \in Procs : q # p => ref'[q] = ref[q]
      BY <2>1 DEF TypeOK
    <3> HIDE DEF IInv, r
    <3> QED BY <1>1, <1>2, <2>1, <2>2, <3>1, LeaveCounts DEF r
  <2>6. Owned'
    BY <1>1, <1>3, <2>1 DEF Owned, TypeOK
  <2>7. OnlyForced'
    BY <1>1, <2>1 DEF OnlyForced, TypeOK
  <2> QED BY <2>3, <2>4, <2>5, <2>6, <2>7
<1> QED BY <1>4, <1>5

(* A mutex is taken: by LockAcquire, or by a TryAttempt that succeeds.     *)
LEMMA TakeIInv ==
  ASSUME KeyLockAssumption, IInv, NEW p \in Procs, pc[p] \in {"locking", "trying"},
         owner[ref[p]] = None,
         owner' = [owner EXCEPT ![ref[p]] = p],
         pc' = [pc EXCEPT ![p] = "held"],
         UNCHANGED <<locks, count, key, ref>>
  PROVE  IInv'
<1> USE DEF IInv, InUse, Counted
<1>1. TypeOK' /\ OneKeyPerRef' /\ OnlyForced'
  BY DEF TypeOK, OneKeyPerRef, OnlyForced
<1>2. \A j \in Keys : Users(j)' = Users(j)
  BY DEF Users, TypeOK
<1>3. SafeCounted'
  BY <1>2 DEF SafeCounted, Counting, Safe
<1>4. Owned'
  BY DEF Owned, TypeOK, KeyLockAssumption
<1> QED BY <1>1, <1>3, <1>4

(* A mutex is unlocked: by Unlock and by ForceUnlock.                      *)
LEMMA MutexIInv ==
  ASSUME KeyLockAssumption, IInv, NEW p \in Procs, NEW at \in {"unlocking", "forcing"}, MutexUnlock(p, at)
  PROVE  IInv'
<1> USE DEF IInv, InUse, Counted
<1>1. /\ pc[p] = at /\ ref[p] \in Refs /\ key[p] \in Keys
      /\ owner' = [owner EXCEPT ![ref[p]] = None]
      /\ pc' = [pc EXCEPT ![p] = IF owner[ref[p]] = None THEN "fatal" ELSE "idle"]
      /\ ref' = [ref EXCEPT ![p] = NoRef]
      /\ key' = [key EXCEPT ![p] = IF owner[ref[p]] = None THEN key[p] ELSE AnyKey]
      /\ UNCHANGED <<locks, count>>
  BY DEF MutexUnlock, At, TypeOK
<1>2. key[p] \in Safe => owner[ref[p]] = p /\ p # None
  BY <1>1 DEF Owned, OnlyForced, Safe, KeyLockAssumption
<1>a. /\ \A q \in Procs : q # p =>
           pc'[q] = pc[q] /\ ref'[q] = ref[q] /\ key'[q] = key[q]
      /\ pc'[p] \in {"idle", "fatal"}
      /\ pc'[p] = "fatal" => owner[ref[p]] = None /\ key'[p] = key[p]
  BY <1>1 DEF TypeOK
<1>3. TypeOK'
  BY <1>1, AnyKeyIsKey DEF TypeOK
<1>b. OneKeyPerRef'
  BY <1>1, <1>a DEF OneKeyPerRef
<1>4. ASSUME NEW j \in Safe PROVE Counting(j)'
  <2>1. Users(j)' = Users(j) /\ \A q \in Users(j) : ref'[q] = ref[q]
    BY <1>1, <1>a DEF Users
  <2> QED BY <1>1, <2>1 DEF SafeCounted, Counting
<1>5. Owned'
  <2> SUFFICES ASSUME NEW q \in Procs, pc'[q] \in {"held", "unlocking"}, key'[q] \in Safe
               PROVE  owner'[ref'[q]] = q
    BY <1>1 DEF Owned, Safe
  <2>1. /\ q # p /\ pc[q] = pc'[q] /\ ref'[q] = ref[q] /\ ref[q] \in Refs
        /\ key[q] \in Safe
    BY <1>a DEF TypeOK
  <2>2. owner[ref[q]] = q
    BY <2>1 DEF Owned
  <2>3. ref[q] # ref[p]
    <3>1. CASE key[p] \in Safe
      BY <1>2, <2>1, <2>2, <3>1
    <3>2. CASE key[p] \notin Safe
      BY <1>1, <2>1, <3>2 DEF OneKeyPerRef
    <3> QED BY <3>1, <3>2
  <2> QED BY <1>1, <2>1, <2>2, <2>3 DEF TypeOK
<1>6. OnlyForced'
  BY <1>1, <1>2, <1>a DEF OnlyForced, Safe
<1> QED BY <1>3, <1>b, <1>4, <1>5, <1>6 DEF SafeCounted

(* The second section of a TryLock that failed.                            *)
LEMMA BackoutIInv ==
  ASSUME KeyLockAssumption, IInv, NEW p \in Procs, TryBackout(p)
  PROVE  IInv'
<1> USE DEF IInv, InUse, Counted
<1>1. /\ pc[p] = "backing" /\ ref[p] \in Refs /\ key[p] \in Keys
      /\ Leave(key[p], ref[p])
      /\ pc' = [pc EXCEPT ![p] = "idle"]
      /\ ref' = [ref EXCEPT ![p] = NoRef]
      /\ key' = [key EXCEPT ![p] = AnyKey]
      /\ UNCHANGED owner
  BY DEF TryBackout, At, TypeOK
<1>2. /\ \A j \in Keys : locks'[j] = locks[j] \/ locks'[j] = NoRef
      /\ \A j \in Keys : locks[j] = ref[p] => j = key[p]
  BY <1>1 DEF Leave, TypeOK, OneKeyPerRef
<1>3. TypeOK'
  BY <1>1, AnyKeyIsKey DEF TypeOK, Leave
<1>4. OneKeyPerRef'
  <2>1. \A q \in Procs : pc'[q] \in InUse =>
          /\ pc[q] \in InUse /\ ref'[q] = ref[q] /\ ref'[q] # NoRef
          /\ key'[q] = key[q]
    BY <1>1 DEF TypeOK, KeyLockAssumption
  <2> HIDE DEF InUse
  <2> QED BY <1>1, <1>2, <2>1 DEF OneKeyPerRef
<1>5. \A j \in Keys : Users(j)' = Users(j) \ {p}
  BY <1>1 DEF Users, TypeOK
<1>6. key[p] \in Safe => ref[p] = locks[key[p]]
  BY <1>1 DEF SafeCounted, Counting, Users
<1>7. \A q \in Procs : q # p => ref'[q] = ref[q]
  BY <1>1 DEF TypeOK
<1>8. SafeCounted'
  <2> HIDE DEF IInv
  <2> QED BY <1>1, <1>2, <1>5, <1>6, <1>7, LeaveCounts
<1>9. Owned' /\ OnlyForced'
  BY <1>1 DEF Owned, OnlyForced, TypeOK
<1> QED BY <1>3, <1>4, <1>8, <1>9

(* The section of ForceUnlock under km.mu touches no safe key.             *)
LEMMA ForceIInv ==
  ASSUME KeyLockAssumption, IInv, NEW p \in Procs, NEW k \in Forced, ForceUnlock(p, k)
  PROVE  IInv'
<1> USE DEF IInv, InUse, Counted
<1>1. /\ pc[p] = "idle" /\ k \in Keys /\ locks[k] \in Refs
      /\ ref' = [ref EXCEPT ![p] = locks[k]]
      /\ key' = [key EXCEPT ![p] = k]
      /\ locks' = [locks EXCEPT ![k] = NoRef]
      /\ pc' = [pc EXCEPT ![p] = "forcing"]
      /\ UNCHANGED <<count, owner>>
  BY DEF ForceUnlock, At, TypeOK, KeyLockAssumption
<1>2. TypeOK'
  BY <1>1 DEF TypeOK
<1>3. OneKeyPerRef'
  BY <1>1 DEF OneKeyPerRef, TypeOK, KeyLockAssumption
<1>4. ASSUME NEW j \in Safe PROVE Counting(j)'
  <2>1. j # k /\ locks'[j] = locks[j]
    BY <1>1 DEF Safe, TypeOK
  <2>2. Users(j)' = Users(j) /\ \A q \in Users(j) : ref'[q] = ref[q]
    BY <1>1, <2>1 DEF Users, TypeOK
  <2> QED BY <1>1, <2>1, <2>2 DEF SafeCounted, Counting
<1>5. Owned' /\ OnlyForced'
  BY <1>1 DEF Owned, OnlyForced, TypeOK
<1> QED BY <1>2, <1>3, <1>4, <1>5 DEF SafeCounted

(* Every action preserves the invariant.                                   *)
LEMMA NextIInv ==
  ASSUME KeyLockAssumption, IInv, [Next]_vars
  PROVE  IInv'
<1>1. ASSUME NEW p \in Procs, NEW k \in Keys, Lock(p, k) \/ TryLock(p, k)
      PROVE  IInv'
  BY <1>1, EnterIInv DEF Lock, TryLock
<1>2. ASSUME NEW p \in Procs, LockAcquire(p) PROVE IInv'
  BY <1>2, TakeIInv DEF LockAcquire, At
<1>3. ASSUME NEW p \in Procs, TryAttempt(p) PROVE IInv'
  <2>1. CASE pc' = [pc EXCEPT ![p] = "backing"] /\ UNCHANGED <<owner, locks, count, key, ref>>
    <3> USE DEF IInv, InUse, Counted
    <3>1. pc[p] = "trying"
      BY <1>3 DEF TryAttempt, At
    <3>2. \A j \in Keys : Users(j)' = Users(j)
      BY <2>1, <3>1 DEF Users, TypeOK
    <3>3. SafeCounted'
      BY <2>1, <3>2 DEF SafeCounted, Counting, Safe
    <3>4. TypeOK' /\ OneKeyPerRef' /\ Owned' /\ OnlyForced'
      BY <2>1, <3>1 DEF TypeOK, OneKeyPerRef, Owned, OnlyForced
    <3> QED BY <3>3, <3>4
  <2>2. CASE /\ owner[ref[p]] = None
             /\ owner' = [owner EXCEPT ![ref[p]] = p]
             /\ pc' = [pc EXCEPT ![p] = "held"]
             /\ UNCHANGED <<locks, count, key, ref>>
    BY <1>3, <2>2, TakeIInv DEF TryAttempt, At
  <2> QED BY <1>3, <2>1, <2>2 DEF TryAttempt
<1>4. ASSUME NEW p \in Procs, Unlock(p) PROVE IInv'
  BY <1>4, UnlockIInv
<1>5. ASSUME NEW p \in Procs, UnlockRelease(p) \/ ForceRelease(p) PROVE IInv'
  BY <1>5, MutexIInv DEF UnlockRelease, ForceRelease
<1>6. ASSUME NEW p \in Procs, TryBackout(p) PROVE IInv'
  BY <1>6, BackoutIInv
<1>7. ASSUME NEW p \in Procs, NEW k \in Forced, ForceUnlock(p, k) PROVE IInv'
  BY <1>7, ForceIInv
<1>8. CASE UNCHANGED vars
  <2>1. UNCHANGED <<locks, count, owner, pc, key, ref>>
    BY <1>8 DEF vars
  <2>2. \A j \in Keys : Users(j)' = Users(j)
    BY <2>1 DEF Users
  <2>3. SafeCounted'
    BY <2>1, <2>2 DEF IInv, SafeCounted, Counting, Safe
  <2>4. TypeOK' /\ OneKeyPerRef' /\ Owned' /\ OnlyForced'
    BY <2>1 DEF IInv, TypeOK, OneKeyPerRef, Owned, OnlyForced
  <2> QED BY <2>3, <2>4 DEF IInv
<1> QED BY <1>1, <1>2, <1>3, <1>4, <1>5, <1>6, <1>7, <1>8 DEF Next

(* The inductive invariant of the key lock.                                *)
THEOREM Invariance ==
  ASSUME KeyLockAssumption
  PROVE  Spec => []IInv
<1>1. Init => IInv
  BY InitIInv
<1>2. IInv /\ [Next]_vars => IInv'
  BY NextIInv
<1> QED BY <1>1, <1>2, PTL DEF Spec

(* Two goroutines that hold one safe key share its mutex, which has one    *)
(* owner (keylock.go:79-116).                                              *)
THEOREM Exclusion ==
  ASSUME KeyLockAssumption
  PROVE  Spec => []MutualExclusion
<1>1. ASSUME IInv, NEW p \in Procs, NEW q \in Procs,
             pc[p] = "held", pc[q] = "held", key[p] = key[q], key[p] \in Safe
      PROVE  p = q
  <2>1. p \in Users(key[p]) /\ q \in Users(key[p])
    BY <1>1 DEF Users, Counted
  <2>2. ref[p] = ref[q]
    BY <1>1, <2>1 DEF IInv, SafeCounted, Counting
  <2>3. owner[ref[p]] = p /\ owner[ref[q]] = q
    BY <1>1 DEF IInv, Owned
  <2> QED BY <2>2, <2>3
<1>2. IInv => MutualExclusion
  BY <1>1 DEF MutualExclusion
<1> QED BY <1>2, Invariance, PTL

(* The map holds the keys in use with their exact counts, and no Unlock    *)
(* panics, on a safe key (keylock.go:79-149).                              *)
THEOREM CountSafety ==
  ASSUME KeyLockAssumption
  PROVE  Spec => []RefsCounted
<1>1. IInv => RefsCounted
  BY DEF IInv, SafeCounted, Counting, OnlyForced, RefsCounted
<1> QED BY <1>1, Invariance, PTL
=============================================================================
