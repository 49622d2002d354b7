---------------------------- MODULE QueueLemmas ----------------------------
(***************************************************************************)
(* Facts on queues that the proofs about the semaphore and the adaptive    *)
(* limiter share.                                                          *)
(***************************************************************************)
EXTENDS Integers, Sequences, FiniteSets, FiniteSetTheorems, SequenceTheorems,
        TLAPS

(* Removing position i from a queue keeps the others in their order: the   *)
(* append(s.waiters[:i], s.waiters[i+1:]...) of a cancelled Acquire.       *)
LEMMA RemovedProperties ==
  ASSUME NEW S, NEW seq \in Seq(S), NEW i \in 1..Len(seq)
  PROVE  LET rest == SubSeq(seq, 1, i - 1) \o SubSeq(seq, i + 1, Len(seq))
         IN  /\ rest \in Seq(S)
             /\ Len(rest) = Len(seq) - 1
             /\ \A k \in 1..(Len(seq) - 1) :
                  rest[k] = IF k < i THEN seq[k] ELSE seq[k + 1]
<1> DEFINE a == SubSeq(seq, 1, i - 1)
           b == SubSeq(seq, i + 1, Len(seq))
<1>1. Len(seq) \in Nat /\ DOMAIN seq = 1..Len(seq)
  BY LenProperties
<1>2. /\ a \in Seq(S)
      /\ Len(a) = i - 1
      /\ \A k \in 1..(i - 1) : a[k] = seq[k]
  <2>1. \A k \in 1..(i - 1) : seq[k] \in S
    BY <1>1, ElementOfSeq
  <2>2. /\ SubSeq(seq, 1, i - 1) \in Seq(S)
        /\ Len(SubSeq(seq, 1, i - 1)) = IF 1 <= i - 1 THEN i - 1 - 1 + 1 ELSE 0
        /\ \A k \in 1..(i - 1 - 1 + 1) : SubSeq(seq, 1, i - 1)[k] = seq[1 + k - 1]
    BY <1>1, <2>1, SubSeqProperties
  <2> QED BY <1>1, <2>2
<1>3. /\ b \in Seq(S)
      /\ Len(b) = Len(seq) - i
      /\ \A k \in 1..(Len(seq) - i) : b[k] = seq[i + k]
  <2> DEFINE n == Len(seq)
  <2>1. \A k \in (i + 1)..n : seq[k] \in S
    BY <1>1, ElementOfSeq
  <2>2. /\ SubSeq(seq, i + 1, n) \in Seq(S)
        /\ Len(SubSeq(seq, i + 1, n)) = IF i + 1 <= n THEN n - (i + 1) + 1 ELSE 0
        /\ \A k \in 1..(n - (i + 1) + 1) :
             SubSeq(seq, i + 1, n)[k] = seq[(i + 1) + k - 1]
    BY <1>1, <2>1, SubSeqProperties
  <2>3. \A k \in 1..(n - i) :
          k \in 1..(n - (i + 1) + 1) /\ (i + 1) + k - 1 = i + k
    BY <1>1
  <2>4. \A k \in 1..(n - i) : SubSeq(seq, i + 1, n)[k] = seq[i + k]
    BY <2>2, <2>3
  <2>5. Len(SubSeq(seq, i + 1, n)) = n - i
    <3>1. Len(SubSeq(seq, i + 1, n)) = IF i + 1 <= n THEN n - (i + 1) + 1 ELSE 0
      BY <2>2
    <3>2. n \in Int /\ i \in Int /\ i <= n
      BY <1>1
    <3> HIDE DEF n
    <3> QED BY <3>1, <3>2
  <2> QED BY <2>2, <2>4, <2>5
<1>4. /\ a \o b \in Seq(S)
      /\ Len(a \o b) = Len(a) + Len(b)
      /\ \A k \in 1..(Len(a) + Len(b)) :
           (a \o b)[k] = IF k <= Len(a) THEN a[k] ELSE b[k - Len(a)]
  BY <1>2, <1>3, ConcatProperties
<1> HIDE DEF a, b
<1>5. ASSUME NEW k \in 1..(Len(seq) - 1)
      PROVE  (a \o b)[k] = IF k < i THEN seq[k] ELSE seq[k + 1]
  <2>1. CASE k < i
    BY <1>1, <1>2, <1>3, <1>4, <2>1
  <2>2. CASE ~(k < i)
    <3>1. k - (i - 1) \in 1..(Len(seq) - i) /\ i + (k - (i - 1)) = k + 1
      BY <1>1, <2>2
    <3>2. b[k - (i - 1)] = seq[k + 1]
      BY <1>3, <3>1
    <3>3. (a \o b)[k] = b[k - Len(a)]
      <4>1. k \in 1..(Len(a) + Len(b)) /\ ~(k <= Len(a))
        BY <1>1, <1>2, <1>3, <2>2
      <4> QED BY <1>4, <4>1
    <3> QED BY <1>1, <1>2, <2>2, <3>2, <3>3
  <2> QED BY <2>1, <2>2
<1>6. Len(a \o b) = Len(seq) - 1
  BY <1>1, <1>2, <1>3, <1>4
<1> QED BY <1>4, <1>5, <1>6 DEF a, b

(* The first k places of a queue hold at most k goroutines.                *)
LEMMA PrefixSize ==
  ASSUME NEW S, NEW seq \in Seq(S), NEW k \in 0..Len(seq)
  PROVE  /\ {seq[i] : i \in 1..k} \subseteq S
         /\ IsFiniteSet({seq[i] : i \in 1..k})
         /\ Cardinality({seq[i] : i \in 1..k}) <= k
<1> DEFINE first == {seq[i] : i \in 1..k}
           f == [i \in 1..k |-> seq[i]]
<1>1. Len(seq) \in Nat /\ k \in Nat
  BY LenProperties
<1>2. \A i \in 1..k : seq[i] \in S
  BY <1>1, ElementOfSeq
<1>3. f \in Surjection(1..k, first)
  BY DEF Surjection
<1>4. IsFiniteSet(1..k) /\ Cardinality(1..k) = k
  BY <1>1, FS_Interval
<1>5. IsFiniteSet(first) /\ Cardinality(first) <= k
  BY <1>3, <1>4, FS_Surjection
<1> QED BY <1>2, <1>5

(* What the loop of Release leaves in the queue when it has woken k.       *)
LEMMA SuffixProperties ==
  ASSUME NEW S, NEW seq \in Seq(S), NEW k \in 0..Len(seq)
  PROVE  LET rest == SubSeq(seq, k + 1, Len(seq))
         IN  /\ rest \in Seq(S)
             /\ Len(rest) = Len(seq) - k
             /\ \A i \in 1..(Len(seq) - k) : rest[i] = seq[k + i]
<1> DEFINE n == Len(seq)
<1>1. n \in Nat /\ k \in Nat
  BY LenProperties
<1>2. \A i \in (k + 1)..n : seq[i] \in S
  BY <1>1, ElementOfSeq
<1>3. /\ SubSeq(seq, k + 1, n) \in Seq(S)
      /\ Len(SubSeq(seq, k + 1, n)) = IF k + 1 <= n THEN n - (k + 1) + 1 ELSE 0
      /\ \A i \in 1..(n - (k + 1) + 1) :
           SubSeq(seq, k + 1, n)[i] = seq[(k + 1) + i - 1]
  BY <1>1, <1>2, SubSeqProperties
<1>4. \A i \in 1..(n - k) : i \in 1..(n - (k + 1) + 1) /\ (k + 1) + i - 1 = k + i
  BY <1>1
<1>5. Len(SubSeq(seq, k + 1, n)) = n - k
  BY <1>1, <1>3
<1> QED BY <1>3, <1>4, <1>5
=============================================================================
