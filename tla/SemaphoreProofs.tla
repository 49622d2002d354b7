-------------------------- MODULE SemaphoreProofs --------------------------
(***************************************************************************)
(* Proofs that the semaphore, for any number of goroutines and any limits, *)
(* never hands out a slot twice, never loses a wake-up and never lets a    *)
(* newcomer overtake a queued goroutine.                                   *)
(***************************************************************************)
EXTENDS Semaphore, QueueLemmas

(* TypeOK without the sign of s.active, which only SlotsAccounted gives.   *)
TypeInt ==
  /\ mu \in Procs \cup {None}
  /\ limit \in Nat
  /\ active \in Int
  /\ waiters \in Seq(Procs)
  /\ granted \in SUBSET Procs
  /\ pc \in [Procs -> Where]

(* s.mu is held across actions exactly by a goroutine in notifyWaiters.    *)
MuOwner == \A p \in Procs : pc[p] = "notifying" <=> mu = p

(* The inductive invariant.                                                *)
IInv == TypeInt /\ MuOwner /\ QueueExact /\ SlotsAccounted /\ NoLostWakeup

Owed == Holding \cup granted

-----------------------------------------------------------------------------

(* What Without leaves of the queue.                                       *)
LEMMA WithoutProperties ==
  ASSUME NEW S, NEW seq \in Seq(S), NEW i \in 1..Len(seq)
  PROVE  /\ Without(seq, i) \in Seq(S)
         /\ Len(Without(seq, i)) = Len(seq) - 1
         /\ \A k \in 1..(Len(seq) - 1) :
              Without(seq, i)[k] = IF k < i THEN seq[k] ELSE seq[k + 1]
BY RemovedProperties DEF Without

(* Facts on the sets behind SlotsAccounted.                                *)
LEMMA OwedFinite ==
  ASSUME NEW S \in SUBSET Procs
  PROVE  IsFiniteSet(S) /\ Cardinality(S) \in Nat
BY SemaphoreAssumption, FS_Subset, FS_CardinalityType

(* One more goroutine is owed a slot: the count grows by at most one.      *)
LEMMA OwedGrows ==
  ASSUME NEW S \in SUBSET Procs, NEW p \in Procs
  PROVE  Cardinality(S \cup {p}) <= Cardinality(S) + 1
<1>1. IsFiniteSet(S) /\ Cardinality(S) \in Nat
  BY OwedFinite
<1>2. Cardinality(S \cup {p}) =
        IF p \in S THEN Cardinality(S) ELSE Cardinality(S) + 1
  BY <1>1, FS_AddElement
<1> QED BY <1>1, <1>2

(* A holder leaves: the count shrinks by one.                              *)
LEMMA OwedShrinks ==
  ASSUME NEW S \in SUBSET Procs, NEW p \in S
  PROVE  Cardinality(S \ {p}) = Cardinality(S) - 1
<1>1. IsFiniteSet(S) /\ Cardinality(S) \in Nat
  BY OwedFinite
<1> QED BY <1>1, FS_RemoveElement

-----------------------------------------------------------------------------

(* A new semaphore satisfies the invariant.                                *)
LEMMA InitIInv == Init => IInv
<1> SUFFICES ASSUME Init PROVE IInv
  OBVIOUS
<1> USE SemaphoreAssumption DEF Init, New
<1>1. TypeInt
  BY DEF TypeInt, Where
<1>2. MuOwner
  BY DEF MuOwner
<1>3. QueueExact
  BY DEF QueueExact
<1>4. SlotsAccounted
  <2>1. Holding \cup granted = {}
    BY DEF Holding
  <2> QED BY <2>1, FS_EmptySet DEF SlotsAccounted
<1>5. NoLostWakeup
  BY DEF NoLostWakeup
<1> QED BY <1>1, <1>2, <1>3, <1>4, <1>5 DEF IInv

(* Every step of the code keeps the invariant.                             *)
LEMMA NextIInv == IInv /\ [Next]_vars => IInv'
<1> SUFFICES ASSUME IInv, [Next]_vars PROVE IInv'
  OBVIOUS
<1> USE SemaphoreAssumption
<1>t. TypeInt /\ MuOwner /\ QueueExact /\ SlotsAccounted /\ NoLostWakeup
  BY DEF IInv
<1>h. Owed \in SUBSET Procs /\ Cardinality(Owed) \in Nat /\ Cardinality(Owed) <= active
  BY <1>t, OwedFinite DEF TypeInt, Owed, Holding, SlotsAccounted
<1>s. Len(waiters) \in Nat /\ DOMAIN waiters = 1..Len(waiters)
  BY <1>t, LenProperties DEF TypeInt
<1>1. ASSUME NEW p \in Procs, Acquire(p) PROVE IInv'
  <2>1. CASE active < limit /\ active' = active + 1
             /\ pc' = [pc EXCEPT ![p] = "holding"] /\ UNCHANGED waiters
    <3>1. TypeInt' /\ MuOwner' /\ QueueExact'
      BY <1>t, <1>1, <2>1 DEF TypeInt, Where, MuOwner, QueueExact, Acquire
    <3>2. NoLostWakeup'
      BY <1>t, <1>1, <2>1 DEF TypeInt, NoLostWakeup, Acquire
    <3>3. (Holding \cup granted)' = Owed \cup {p}
      BY <1>t, <1>1, <2>1 DEF TypeInt, Holding, Owed, Acquire
    <3>4. Cardinality((Holding \cup granted)') <= active'
      BY <1>t, <1>h, <2>1, <3>3, OwedGrows, OwedFinite DEF TypeInt
    <3> QED BY <3>1, <3>2, <3>4 DEF IInv, SlotsAccounted
  <2>2. CASE active >= limit /\ waiters' = Append(waiters, p)
             /\ pc' = [pc EXCEPT ![p] = "waiting"] /\ UNCHANGED active
    <3>1. TypeInt' /\ MuOwner' /\ NoLostWakeup'
      BY <1>t, <1>1, <2>2 DEF TypeInt, Where, MuOwner, NoLostWakeup, Acquire
    <3>2. QueueExact'
      <4>1. /\ Len(waiters') = Len(waiters) + 1
            /\ DOMAIN waiters' = 1..(Len(waiters) + 1)
            /\ \A i \in 1..Len(waiters) : waiters'[i] = waiters[i]
            /\ waiters'[Len(waiters) + 1] = p
        BY <1>t, <1>s, <2>2, AppendProperties DEF TypeInt
      <4>2. \A i \in 1..Len(waiters) : waiters[i] \in Procs /\ waiters[i] # p
        BY <1>t, <1>1, <1>s, ElementOfSeq DEF TypeInt, QueueExact, Acquire
      <4>3. p \notin granted
        BY <1>t, <1>1 DEF QueueExact, Acquire
      <4>4. \A i, j \in DOMAIN waiters' : waiters'[i] = waiters'[j] => i = j
        BY <1>t, <1>s, <4>1, <4>2 DEF QueueExact
      <4>5. granted' = granted /\ \A q \in Procs : q # p => pc'[q] = pc[q]
        BY <1>t, <1>1, <2>2 DEF TypeInt, Acquire
      <4>6. pc'[p] = "waiting"
        BY <1>t, <2>2 DEF TypeInt
      <4>7. \A i \in DOMAIN waiters' :
              /\ pc'[waiters'[i]] \in {"waiting", "cancelling"}
              /\ waiters'[i] \notin granted'
        <5> TAKE i \in DOMAIN waiters'
        <5>1. CASE i = Len(waiters) + 1
          BY <4>1, <4>3, <4>5, <4>6, <5>1
        <5>2. CASE i \in 1..Len(waiters)
          BY <1>t, <1>s, <4>1, <4>2, <4>5, <5>2 DEF QueueExact
        <5> QED BY <1>s, <4>1, <5>1, <5>2
      <4>8. \A q \in Procs : pc'[q] \in {"waiting", "cancelling"} =>
              q \in granted' \/ \E i \in DOMAIN waiters' : waiters'[i] = q
        <5> TAKE q \in Procs
        <5>1. CASE q = p
          BY <1>s, <4>1, <5>1
        <5>2. CASE q # p
          BY <1>t, <1>s, <4>1, <4>5, <5>2 DEF QueueExact
        <5> QED BY <5>1, <5>2
      <4>9. \A q \in granted' : pc'[q] \in {"waiting", "cancelling"}
        BY <1>t, <4>3, <4>5 DEF TypeInt, QueueExact
      <4> QED BY <4>4, <4>7, <4>8, <4>9 DEF QueueExact
    <3>3. (Holding \cup granted)' = Owed
      BY <1>t, <1>1, <2>2 DEF TypeInt, Holding, Owed, Acquire
    <3> QED BY <1>h, <2>2, <3>1, <3>2, <3>3 DEF IInv, SlotsAccounted
  <2> QED BY <1>1, <2>1, <2>2 DEF Acquire
<1>2. ASSUME NEW p \in Procs, Receive(p) PROVE IInv'
  <2>1. TypeInt' /\ MuOwner' /\ NoLostWakeup'
    BY <1>t, <1>2 DEF TypeInt, Where, MuOwner, NoLostWakeup, Receive
  <2>2. QueueExact'
    BY <1>t, <1>2 DEF TypeInt, QueueExact, Receive
  <2>3. (Holding \cup granted)' = Owed
    BY <1>t, <1>2 DEF TypeInt, Holding, Owed, Receive
  <2> QED BY <1>h, <1>2, <2>1, <2>2, <2>3 DEF IInv, SlotsAccounted, Receive
<1>3. ASSUME NEW p \in Procs, CtxDone(p) PROVE IInv'
  <2>1. TypeInt' /\ MuOwner' /\ NoLostWakeup' /\ QueueExact'
    BY <1>t, <1>3
       DEF TypeInt, Where, MuOwner, NoLostWakeup, QueueExact, CtxDone
  <2>2. (Holding \cup granted)' = Owed
    BY <1>t, <1>3 DEF TypeInt, Holding, Owed, CtxDone
  <2> QED BY <1>h, <1>3, <2>1, <2>2 DEF IInv, SlotsAccounted, CtxDone
<1>4. ASSUME NEW p \in Procs, Abandon(p) PROVE IInv'
  <2>1. /\ waiters' \in Seq(Procs)
        /\ waiters = <<>> => waiters' = <<>>
        /\ QueueExact'
    <3>1. CASE \E i \in DOMAIN waiters :
                 waiters[i] = p /\ waiters' = Without(waiters, i)
      <4>1. PICK i \in 1..Len(waiters) :
                 waiters[i] = p /\ waiters' = Without(waiters, i)
        BY <1>s, <3>1
      <4>2. /\ waiters' \in Seq(Procs)
            /\ Len(waiters') = Len(waiters) - 1
            /\ \A k \in 1..(Len(waiters) - 1) :
                 waiters'[k] = IF k < i THEN waiters[k] ELSE waiters[k + 1]
        BY <1>t, <4>1, WithoutProperties DEF TypeInt
      <4>3. DOMAIN waiters' = 1..(Len(waiters) - 1)
        BY <4>2, LenProperties
      <4>4. \A k \in 1..Len(waiters) : waiters[k] = p => k = i
        BY <1>t, <1>s, <4>1 DEF QueueExact
      <4>5. \A k \in 1..(Len(waiters) - 1) :
              \E m \in 1..Len(waiters) : waiters'[k] = waiters[m] /\ m # i
        BY <1>s, <4>2
      <4>6. \A m \in 1..Len(waiters) : m # i =>
              \E k \in 1..(Len(waiters) - 1) : waiters'[k] = waiters[m]
        <5> TAKE m \in 1..Len(waiters)
        <5>1. CASE m < i
          BY <1>s, <4>1, <4>2, <5>1
        <5>2. CASE m > i
          <6>1. m - 1 \in 1..(Len(waiters) - 1) /\ ~(m - 1 < i)
            BY <1>s, <4>1, <5>2
          <6>2. waiters'[m - 1] = waiters[(m - 1) + 1]
            BY <4>2, <6>1
          <6> QED BY <1>s, <6>1, <6>2
        <5> QED BY <1>s, <5>1, <5>2
      <4>7. \A k, l \in 1..(Len(waiters) - 1) :
              waiters'[k] = waiters'[l] => k = l
        <5> TAKE k, l \in 1..(Len(waiters) - 1)
        <5> DEFINE shift(x) == IF x < i THEN x ELSE x + 1
        <5>1. /\ shift(k) \in 1..Len(waiters) /\ shift(l) \in 1..Len(waiters)
              /\ waiters'[k] = waiters[shift(k)]
              /\ waiters'[l] = waiters[shift(l)]
          BY <1>s, <4>2
        <5>2. waiters[shift(k)] = waiters[shift(l)] => shift(k) = shift(l)
          BY <1>t, <1>s, <5>1 DEF QueueExact
        <5> QED BY <1>s, <5>1, <5>2
      <4>8. waiters # <<>>
        BY <1>s, <4>1
      <4>9. p \notin granted
        BY <1>t, <1>s, <4>1 DEF QueueExact
      <4>10. \A k \in 1..(Len(waiters) - 1) :
               /\ waiters'[k] # p
               /\ waiters'[k] \in Procs
               /\ pc[waiters'[k]] \in {"waiting", "cancelling"}
               /\ waiters'[k] \notin granted
        BY <1>t, <1>s, <4>4, <4>5, ElementOfSeq DEF TypeInt, QueueExact
      <4>11. \A q \in Procs : q # p /\ pc[q] \in {"waiting", "cancelling"} =>
               q \in granted \/ \E k \in 1..(Len(waiters) - 1) : waiters'[k] = q
        <5> TAKE q \in Procs
        <5> HAVE q # p /\ pc[q] \in {"waiting", "cancelling"}
        <5>1. CASE q \in granted
          BY <5>1
        <5>2. CASE q \notin granted
          <6>1. PICK m \in 1..Len(waiters) : waiters[m] = q
            BY <1>t, <1>s, <5>2 DEF QueueExact
          <6> QED BY <4>1, <4>6, <6>1
        <5> QED BY <5>1, <5>2
      <4>12. QueueExact'
        <5>1. /\ granted' = granted
              /\ pc'[p] = "idle"
              /\ \A q \in Procs : q # p => pc'[q] = pc[q]
          BY <1>t, <1>4, <4>9 DEF TypeInt, Abandon
        <5>2. \A k \in DOMAIN waiters' :
                /\ pc'[waiters'[k]] \in {"waiting", "cancelling"}
                /\ waiters'[k] \notin granted'
          BY <4>3, <4>10, <5>1
        <5>3. \A q \in Procs : pc'[q] \in {"waiting", "cancelling"} =>
                q \in granted' \/ \E k \in DOMAIN waiters' : waiters'[k] = q
          BY <4>3, <4>11, <5>1
        <5>4. \A q \in granted' : pc'[q] \in {"waiting", "cancelling"}
          BY <1>t, <4>9, <5>1 DEF TypeInt, QueueExact
        <5> QED BY <4>3, <4>7, <5>2, <5>3, <5>4 DEF QueueExact
      <4> QED BY <4>2, <4>8, <4>12
    <3>2. CASE (\A i \in DOMAIN waiters : waiters[i] # p) /\ UNCHANGED waiters
      BY <1>t, <1>4, <3>2 DEF TypeInt, QueueExact, Abandon
    <3> QED BY <1>4, <3>1, <3>2 DEF Abandon
  <2>2. TypeInt' /\ MuOwner' /\ NoLostWakeup'
    BY <1>t, <1>4, <2>1 DEF TypeInt, Where, MuOwner, NoLostWakeup, Abandon
  <2>3. (Holding \cup granted)' \subseteq Owed
    BY <1>t, <1>4 DEF TypeInt, Holding, Owed, Abandon
  <2>4. Cardinality((Holding \cup granted)') <= Cardinality(Owed)
    BY <1>h, <2>3, OwedFinite, FS_Subset
  <2>5. Cardinality((Holding \cup granted)') \in Nat
    BY <1>h, <2>3, OwedFinite
  <2> QED BY <1>t, <1>h, <1>4, <2>1, <2>2, <2>4, <2>5
          DEF IInv, SlotsAccounted, Abandon, TypeInt
<1>5. ASSUME NEW p \in Procs, Release(p) PROVE IInv'
  <2>1. TypeInt' /\ MuOwner' /\ NoLostWakeup' /\ QueueExact'
    BY <1>t, <1>5
       DEF TypeInt, Where, MuOwner, NoLostWakeup, QueueExact, Release
  <2>2. (Holding \cup granted)' = Owed \ {p} /\ p \in Owed
    BY <1>t, <1>5 DEF TypeInt, QueueExact, Holding, Owed, Release
  <2>3. Cardinality((Holding \cup granted)') = Cardinality(Owed) - 1
    BY <1>h, <2>2, OwedShrinks
  <2> QED BY <1>t, <1>h, <1>5, <2>1, <2>3
          DEF IInv, SlotsAccounted, Release, TypeInt
<1>6. ASSUME NEW p \in Procs, NEW n \in Limits, Resize(p, n) PROVE IInv'
  <2>1. TypeInt' /\ MuOwner' /\ NoLostWakeup' /\ QueueExact'
    BY <1>t, <1>6
       DEF TypeInt, Where, MuOwner, NoLostWakeup, QueueExact, Resize
  <2>2. (Holding \cup granted)' = Owed
    BY <1>t, <1>6 DEF TypeInt, Holding, Owed, Resize
  <2> QED BY <1>h, <1>6, <2>1, <2>2 DEF IInv, SlotsAccounted, Resize
<1>7. ASSUME NEW p \in Procs, NotifyOne(p) PROVE IInv'
  <2> DEFINE q == Head(waiters)
  <2>1. /\ waiters # <<>> /\ waiters' = Tail(waiters)
        /\ Len(waiters) >= 1
    BY <1>s, <1>7 DEF NotifyOne, CanNotify
  <2>2. /\ waiters' \in Seq(Procs)
        /\ Len(waiters') = Len(waiters) - 1
        /\ DOMAIN waiters' = 1..(Len(waiters) - 1)
        /\ \A k \in 1..(Len(waiters) - 1) : waiters'[k] = waiters[k + 1]
        /\ q = waiters[1] /\ q \in Procs
    BY <1>t, <1>s, <2>1, HeadTailProperties, LenProperties, ElementOfSeq
       DEF TypeInt
  <2> HIDE DEF q
  <2>3. /\ granted' = granted \cup {q}
        /\ active' = active + 1
        /\ UNCHANGED <<mu, limit, pc>>
        /\ mu = p
    BY <1>7 DEF NotifyOne, q
  <2>4. TypeInt' /\ MuOwner' /\ NoLostWakeup'
    BY <1>t, <2>2, <2>3 DEF TypeInt, MuOwner, NoLostWakeup
  <2>5. QueueExact'
    <3>1. \A k \in 1..(Len(waiters) - 1) :
            /\ waiters'[k] # q
            /\ pc[waiters'[k]] \in {"waiting", "cancelling"}
            /\ waiters'[k] \notin granted
      BY <1>t, <1>s, <2>1, <2>2 DEF QueueExact
    <3>2. ASSUME NEW k \in 1..(Len(waiters) - 1), NEW l \in 1..(Len(waiters) - 1),
                 waiters'[k] = waiters'[l]
          PROVE  k = l
      <4>1. k + 1 \in DOMAIN waiters /\ l + 1 \in DOMAIN waiters
        BY <1>s
      <4>2. waiters[k + 1] = waiters[l + 1]
        BY <2>2, <3>2
      <4>3. k + 1 = l + 1
        BY <1>t, <4>1, <4>2 DEF QueueExact
      <4> QED BY <4>3
    <3>3. \A m \in 1..Len(waiters) : waiters[m] # q =>
            \E k \in 1..(Len(waiters) - 1) : waiters'[k] = waiters[m]
      <4> TAKE m \in 1..Len(waiters)
      <4> HAVE waiters[m] # q
      <4>1. m - 1 \in 1..(Len(waiters) - 1)
        BY <1>s, <2>2
      <4>2. waiters'[m - 1] = waiters[(m - 1) + 1]
        BY <2>2, <4>1
      <4> QED BY <1>s, <4>1, <4>2
    <3>4. pc[q] \in {"waiting", "cancelling"}
      BY <1>t, <1>s, <2>1, <2>2 DEF QueueExact
    <3>5. \A k \in DOMAIN waiters' :
            /\ pc'[waiters'[k]] \in {"waiting", "cancelling"}
            /\ waiters'[k] \notin granted'
      BY <2>2, <2>3, <3>1
    <3>6. ASSUME NEW r \in Procs, pc'[r] \in {"waiting", "cancelling"}
          PROVE  r \in granted' \/ \E k \in DOMAIN waiters' : waiters'[k] = r
      <4>1. CASE r \in granted \cup {q}
        BY <2>3, <4>1
      <4>2. CASE r \notin granted \cup {q}
        <5>1. PICK m \in 1..Len(waiters) : waiters[m] = r
          BY <1>t, <1>s, <2>3, <3>6, <4>2 DEF QueueExact
        <5> QED BY <2>2, <3>3, <4>2, <5>1
      <4> QED BY <4>1, <4>2
    <3>7. \A r \in granted' : pc'[r] \in {"waiting", "cancelling"}
      BY <1>t, <2>3, <3>4 DEF QueueExact
    <3> QED BY <2>2, <3>2, <3>5, <3>6, <3>7 DEF QueueExact
  <2>6. (Holding \cup granted)' = Owed \cup {q}
    BY <2>3 DEF Holding, Owed
  <2>7. Cardinality((Holding \cup granted)') <= active'
    <3>1. Cardinality(Owed \cup {q}) <= Cardinality(Owed) + 1
      BY <1>h, <2>2, OwedGrows
    <3>2. Cardinality(Owed \cup {q}) \in Nat
      BY <1>h, <2>2, OwedFinite
    <3>3. Cardinality(Owed \cup {q}) <= active + 1
      <4>1. active \in Int
        BY <1>t DEF TypeInt
      <4> QED BY <1>h, <3>1, <3>2, <4>1
    <3> QED BY <2>3, <2>6, <3>3
  <2> QED BY <2>4, <2>5, <2>7 DEF IInv, SlotsAccounted
<1>8. ASSUME NEW p \in Procs, NotifyDone(p) PROVE IInv'
  <2>1. TypeInt' /\ MuOwner' /\ QueueExact'
    BY <1>t, <1>8 DEF TypeInt, Where, MuOwner, QueueExact, NotifyDone
  <2>2. NoLostWakeup'
    <3>1. ~(active < limit) \/ waiters = <<>>
      BY <1>t, <1>s, <1>8, EmptySeq DEF TypeInt, NotifyDone, CanNotify
    <3> QED BY <1>t, <1>8, <3>1 DEF TypeInt, NoLostWakeup, NotifyDone
  <2>3. (Holding \cup granted)' = Owed
    BY <1>t, <1>8 DEF TypeInt, MuOwner, Holding, Owed, NotifyDone
  <2> QED BY <1>h, <1>8, <2>1, <2>2, <2>3 DEF IInv, SlotsAccounted, NotifyDone
<1>9. CASE UNCHANGED vars
  BY <1>t, <1>9 DEF vars, IInv, TypeInt, MuOwner, QueueExact, SlotsAccounted,
                    NoLostWakeup, Holding
<1> QED BY <1>1, <1>2, <1>3, <1>4, <1>5, <1>6, <1>7, <1>8, <1>9 DEF Next

(* The invariant holds in every reachable state.                           *)
THEOREM Invariance == Spec => []IInv
BY InitIInv, NextIInv, PTL DEF Spec

(* The type invariant; s.active is never negative because every Release is *)
(* paid for by a goroutine that SlotsAccounted counts.                     *)
THEOREM TypeCorrect == Spec => []TypeOK
<1>1. IInv => TypeOK
  <2> SUFFICES ASSUME IInv PROVE TypeOK
    OBVIOUS
  <2>1. Cardinality(Owed) \in Nat /\ Cardinality(Owed) <= active
    BY OwedFinite DEF IInv, TypeInt, Owed, Holding, SlotsAccounted
  <2> QED BY <2>1 DEF IInv, TypeInt, TypeOK
<1> QED BY <1>1, Invariance, PTL

(* A slot is never handed out twice, and s.active never negative.          *)
THEOREM SlotSafety == Spec => []SlotSafe
<1>1. IInv => SlotsAccounted /\ QueueExact
  BY DEF IInv
<1> QED BY <1>1, Invariance, TypeCorrect, PTL DEF SlotSafe

(* No wake-up is lost by Release, Resize or a cancelled Acquire.           *)
THEOREM WakeupSafety == Spec => []NoLostWakeup
<1>1. IInv => NoLostWakeup
  BY DEF IInv
<1> QED BY <1>1, Invariance, PTL

(* The queue holds exactly the open channels.                              *)
THEOREM QueueSafety == Spec => []QueueExact
<1>1. IInv => QueueExact
  BY DEF IInv
<1> QED BY <1>1, Invariance, PTL

-----------------------------------------------------------------------------

(* A step of the semaphore is a step of the gate or changes nothing there. *)
LEMMA GateStep == IInv /\ [Next]_vars => [Gate!Next]_(Gate!gateVars)
<1> SUFFICES ASSUME IInv, [Next]_vars
             PROVE  Gate!Next \/ UNCHANGED Gate!gateVars
  OBVIOUS
<1> USE SemaphoreAssumption DEF Gate!gateVars
<1>t. TypeInt /\ MuOwner /\ QueueExact /\ NoLostWakeup
  BY DEF IInv
<1>s. Len(waiters) \in Nat /\ DOMAIN waiters = 1..Len(waiters)
  BY <1>t, LenProperties DEF TypeInt
<1>i. limit \in Int /\ active \in Int
  BY <1>t DEF TypeInt
(* Serve(gone, 0), which Release and Resize are.                           *)
<1>0. ASSUME NEW gone \in {{}} \cup {{p} : p \in Owed},
             limit' \in Int, active' = active - (IF gone = {} THEN 0 ELSE 1),
             Owed' = Owed \ gone, waiters' = waiters
      PROVE  Gate!Next
  <2>1. waiters = SubSeq(waiters, 0 + 1, Len(waiters))
    BY <1>t, <1>s, SubSeqProperties, ElementOfSeq, SeqEqual DEF TypeInt
  <2>2. {waiters[i] : i \in 1..0} = {} /\ 0 \in 0..Len(waiters) /\ ~(0 > 0)
    BY <1>s
  <2>3. Gate!Serve(gone, 0)
    BY <1>0, <1>i, <2>1, <2>2 DEF Gate!Serve, Owed
  <2> QED BY <2>2, <2>3 DEF Gate!Next, Owed
<1>1. ASSUME NEW p \in Procs, Acquire(p) PROVE Gate!Next
  <2>1. p \notin Owed
    BY <1>t, <1>1 DEF QueueExact, Acquire, Owed, Holding
  <2>2. CASE active < limit /\ active' = active + 1
             /\ pc' = [pc EXCEPT ![p] = "holding"] /\ UNCHANGED waiters
    <3>1. waiters = <<>>
      BY <1>t, <1>1, <2>2 DEF TypeInt, NoLostWakeup, Acquire
    <3>2. Owed' = Owed \cup {p}
      BY <1>t, <1>1, <2>2 DEF TypeInt, Holding, Owed, Acquire
    <3>3. Gate!Enter(p)
      BY <1>1, <2>1, <2>2, <3>1, <3>2 DEF Gate!Enter, Owed, Acquire
    <3> QED BY <3>3 DEF Gate!Next
  <2>3. CASE active >= limit /\ waiters' = Append(waiters, p)
             /\ pc' = [pc EXCEPT ![p] = "waiting"] /\ UNCHANGED active
    <3>1. Owed' = Owed
      BY <1>t, <1>1, <2>3 DEF TypeInt, Holding, Owed, Acquire
    <3>2. Gate!Arrive(p)
      BY <1>1, <2>1, <2>3, <3>1 DEF Gate!Arrive, Owed, Acquire
    <3> QED BY <3>2 DEF Gate!Next
  <2> QED BY <1>1, <2>2, <2>3 DEF Acquire
<1>2. ASSUME NEW p \in Procs, Receive(p) \/ CtxDone(p) \/ NotifyDone(p)
      PROVE  UNCHANGED Gate!gateVars
  <2>1. Owed' = Owed
    BY <1>t, <1>2 DEF TypeInt, MuOwner, Holding, Owed, Receive, CtxDone, NotifyDone
  <2> QED BY <1>2, <2>1 DEF Receive, CtxDone, NotifyDone, Owed
<1>3. ASSUME NEW p \in Procs, Abandon(p) PROVE Gate!Next
  <2>1. CASE \E i \in DOMAIN waiters :
               waiters[i] = p /\ waiters' = Without(waiters, i)
    <3>1. PICK i \in DOMAIN waiters :
                 waiters[i] = p /\ waiters' = Without(waiters, i)
      BY <2>1
    <3>2. Owed' = Owed
      BY <1>t, <1>3, <3>1 DEF TypeInt, QueueExact, Holding, Owed, Abandon
    <3>3. Gate!GiveUp(i)
      BY <1>3, <3>1, <3>2 DEF Gate!GiveUp, Without, Owed, Abandon
    <3> QED BY <3>1, <3>3 DEF Gate!Next
  <2>2. CASE UNCHANGED waiters
    <3>1. Owed' = Owed \ {p}
      BY <1>t, <1>3 DEF TypeInt, Holding, Owed, Abandon
    <3>2. Gate!Lose(p)
      BY <1>3, <2>2, <3>1 DEF Gate!Lose, Owed, Abandon
    <3> QED BY <3>2 DEF Gate!Next
  <2> QED BY <1>3, <2>1, <2>2 DEF Abandon
<1>4. ASSUME NEW p \in Procs, Release(p) PROVE Gate!Next
  <2>1. Owed' = Owed \ {p} /\ p \in Owed
    BY <1>t, <1>4 DEF TypeInt, QueueExact, Holding, Owed, Release
  <2>2. active' = active - 1 /\ limit' \in Int /\ waiters' = waiters
    BY <1>i, <1>4 DEF Release
  <2> QED BY <1>0, <2>1, <2>2
<1>5. ASSUME NEW p \in Procs, NEW n \in Limits, Resize(p, n) PROVE Gate!Next
  <2>1. Owed' = Owed \ {}
    BY <1>t, <1>5 DEF TypeInt, Holding, Owed, Resize
  <2>2. active' = active - 0 /\ limit' \in Int /\ waiters' = waiters
    BY <1>i, <1>5 DEF Resize
  <2> QED BY <1>0, <2>1, <2>2
<1>6. ASSUME NEW p \in Procs, NotifyOne(p) PROVE Gate!Next
  <2>1. Len(waiters) > 0 /\ waiters # <<>> /\ active < limit
    BY <1>6, <1>s DEF NotifyOne, CanNotify
  <2>2. /\ waiters' = SubSeq(waiters, 1 + 1, Len(waiters))
        /\ Head(waiters) = waiters[1]
    BY <1>6, <1>s, <2>1 DEF NotifyOne
  <2>3. {waiters[i] : i \in 1..1} = {Head(waiters)} /\ 1 \in 0..Len(waiters)
    BY <1>s, <2>1, <2>2
  <2>4. Owed' = (Owed \ {}) \cup {waiters[i] : i \in 1..1}
    BY <1>6, <2>3 DEF Holding, Owed, NotifyOne
  <2>5. Gate!Serve({}, 1)
    BY <1>6, <1>i, <2>1, <2>2, <2>4 DEF Gate!Serve, Owed, NotifyOne
  <2> QED BY <2>3, <2>5 DEF Gate!Next
<1>7. CASE UNCHANGED vars
  BY <1>7 DEF vars, Holding
<1> QED BY <1>1, <1>2, <1>3, <1>4, <1>5, <1>6, <1>7 DEF Next

(* The semaphore implements the gate: slots go out in the order of arrival *)
(* and only while fewer than the limit are in use.                         *)
THEOREM Refinement == Spec => ImplementsGate
<1>1. Init => Gate!Init
  BY SemaphoreAssumption DEF Init, New, Gate!Init, Holding
<1> QED BY <1>1, GateStep, Invariance, PTL DEF Spec, ImplementsGate, Gate!Spec

=============================================================================
