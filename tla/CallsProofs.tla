----------------------------- MODULE CallsProofs -----------------------------
(***************************************************************************)
(* Proofs about the components of MCCalls, each under its own assumption   *)
(* and for every value of its parameters: SingleFlight, the adaptive       *)
(* limiter, DataLoader, ParallelForEach, Process, Stream and the keyed     *)
(* limiter.  Every part states the inductive invariant of its component,   *)
(* then that each action keeps it, then what follows from it.  The key     *)
(* locks have their proofs in KeyLockProofs.                               *)
(***************************************************************************)
EXTENDS MCCalls, QueueLemmas

(* A set without two different elements.                                   *)
LEMMA AtMostOne ==
  ASSUME NEW S, \A x, y \in S : x = y
  PROVE  IsFiniteSet(S) /\ Cardinality(S) \in {0, 1}
<1>1. CASE S = {}
  BY <1>1, FS_EmptySet
<1>2. CASE S # {}
  <2>1. PICK x : S = {x}
    BY <1>2
  <2>2. IsFiniteSet({x}) /\ Cardinality({x}) = 1
    BY FS_Singleton, Zenon
  <2> QED BY <2>1, <2>2
<1> QED BY <1>1, <1>2

-----------------------------------------------------------------------------
(* SingleFlight.                                                           *)

(* What a goroutine is at, with the call it is in.                         *)
FlightPlaces == {Flight!Idle} \cup [at : {"wait", "run", "delete"}, key : Keys, call : 1..made]

FlightTypes ==
  /\ made \in 0..MaxCalls
  /\ m \in [Keys -> 0..made]
  /\ done \in SUBSET (1..made)
  /\ panicked \in SUBSET (1..made)
  /\ doing \in [Procs -> FlightPlaces]

Leading(p) == doing[p].at \in {"run", "delete"}

(* A leader finds its own call in the map, so it is its key's only one; a  *)
(* call is that of one key, and it has its result when it is deleted.      *)
LeadersOwn ==
  /\ \A p \in Procs : Leading(p) => m[doing[p].key] = doing[p].call
  /\ \A p, q \in Procs :
       Leading(p) /\ Leading(q) /\ doing[p].key = doing[q].key => p = q
  /\ \A k, l \in Keys : m[k] = m[l] /\ m[k] # 0 => k = l
  /\ \A p \in Procs : doing[p].at = "delete" => doing[p].call \in done

(* A call in the map has a leader, or has lost it to a panic.              *)
MapLed ==
  \A k \in Keys :
    /\ m[k] # 0 /\ m[k] \notin panicked =>
         \E p \in Procs : Leading(p) /\ doing[p].key = k
    /\ m[k] \in panicked =>
         \A p \in Procs : Leading(p) => doing[p].key # k

WaitersInMap ==
  \A p \in Procs :
    doing[p].at = "wait" /\ doing[p].call \notin done =>
      m[doing[p].key] = doing[p].call

(* The inductive invariant.                                                *)
FlightInv == FlightTypes /\ LeadersOwn /\ MapLed /\ WaitersInMap

(* The invariant holds at first: nobody is in Do and no key has a call.    *)
LEMMA FlightInit == ASSUME Flight!FlightAssumption, Flight!Init PROVE FlightInv
BY DEF Flight!FlightAssumption, Flight!Init, FlightInv, FlightTypes, LeadersOwn,
       MapLed, WaitersInMap, Leading, FlightPlaces, Flight!Idle

(* Each section of Do preserves it.                                        *)
LEMMA FlightStep ==
  ASSUME Flight!FlightAssumption, FlightInv, [Flight!Next]_(Flight!vars)
  PROVE  FlightInv'
<1> USE DEF FlightInv, FlightTypes, Leading, FlightPlaces, Flight!Idle, Flight!In,
            Flight!FlightAssumption
<1>1. ASSUME NEW p \in Procs, NEW k \in Keys, Flight!Join(p, k) PROVE FlightInv'
  BY <1>1 DEF Flight!Join, LeadersOwn, MapLed, WaitersInMap
<1>2. ASSUME NEW p \in Procs, NEW k \in Keys, Flight!Lead(p, k) PROVE FlightInv'
  <2>1. FlightTypes'
    BY <1>2 DEF Flight!Lead
  <2>2. \A q \in Procs : Leading(q) => doing[q].key # k
    BY <1>2 DEF Flight!Lead, LeadersOwn
  <2>3. LeadersOwn'
    BY <1>2, <2>2 DEF Flight!Lead, LeadersOwn
  <2>4. MapLed'
    BY <1>2 DEF Flight!Lead, MapLed
  <2>5. WaitersInMap'
    BY <1>2 DEF Flight!Lead, WaitersInMap
  <2> QED BY <2>1, <2>3, <2>4, <2>5
<1>3. ASSUME NEW p \in Procs, Flight!FnReturns(p) PROVE FlightInv'
  BY <1>3 DEF Flight!FnReturns, LeadersOwn, MapLed, WaitersInMap
<1>4. ASSUME NEW p \in Procs, Flight!FnPanics(p) PROVE FlightInv'
  <2>1. FlightTypes'
    <3>1. doing[p].call \in 1..made
      BY <1>4 DEF Flight!FnPanics
    <3>2. doing' \in [Procs -> FlightPlaces]
      BY <1>4 DEF Flight!FnPanics
    <3> QED BY <1>4, <3>1, <3>2 DEF Flight!FnPanics
  <2>2. LeadersOwn' /\ WaitersInMap'
    BY <1>4 DEF Flight!FnPanics, LeadersOwn, WaitersInMap
  <2>3. /\ doing[p].key \in Keys /\ doing[p].call # 0
        /\ m[doing[p].key] = doing[p].call
        /\ \A k \in Keys : m[k] = doing[p].call => k = doing[p].key
        /\ \A q \in Procs : Leading(q) /\ doing[q].key = doing[p].key => q = p
    BY <1>4 DEF Flight!FnPanics, LeadersOwn
  <2>4. /\ m' = m /\ panicked' = panicked \cup {doing[p].call}
        /\ Leading(p) /\ ~Leading(p)'
        /\ \A q \in Procs : q # p => doing'[q] = doing[q]
    BY <1>4 DEF Flight!FnPanics
  <2> HIDE DEF FlightTypes, FlightPlaces, Flight!Idle, Flight!In,
            Flight!FlightAssumption
  <2>5. MapLed'
    BY <2>3, <2>4 DEF MapLed
  <2> QED BY <2>1, <2>2, <2>5
<1>5. ASSUME NEW p \in Procs, Flight!Delete(p) PROVE FlightInv'
  BY <1>5 DEF Flight!Delete, LeadersOwn, MapLed, WaitersInMap
<1>6. ASSUME NEW p \in Procs, Flight!WaitReturns(p) PROVE FlightInv'
  BY <1>6 DEF Flight!WaitReturns, LeadersOwn, MapLed, WaitersInMap
<1>7. CASE UNCHANGED Flight!vars
  BY <1>7 DEF Flight!vars, LeadersOwn, MapLed, WaitersInMap
<1> QED BY <1>1, <1>2, <1>3, <1>4, <1>5, <1>6, <1>7 DEF Flight!Next

(* The inductive invariant of SingleFlight.Do.                             *)
THEOREM FlightInvariance == ASSUME Flight!FlightAssumption PROVE Flight!Spec => []FlightInv
<1>1. Flight!Init => FlightInv
  BY FlightInit
<1>2. FlightInv /\ [Flight!Next]_(Flight!vars) => FlightInv'
  BY FlightStep
<1> QED BY <1>1, <1>2, PTL DEF Flight!Spec

(* One function per key: the delete of Do removes its own call, and a call *)
(* without a leader is one whose function panicked (concurrency.go:146-166).*)
THEOREM FlightSafety == ASSUME Flight!FlightAssumption PROVE Flight!Spec => []OneFlight
<1>1. FlightInv => OneFlight
  <2> SUFFICES ASSUME FlightInv PROVE OneFlight
    OBVIOUS
  <2>1. Flight!TypeOK
    BY DEF FlightInv, FlightTypes, Flight!TypeOK, FlightPlaces, Flight!Idle
  <2>2. ASSUME NEW k \in Keys
        PROVE  /\ Flight!Cardinality(Flight!Leaders(k)) <= 1
               /\ \A p \in Flight!Leaders(k) : m[k] = doing[p].call
               /\ m[k] # 0 => (Flight!Leaders(k) # {} \/ m[k] \in panicked)
               /\ m[k] \in panicked => Flight!Leaders(k) = {}
    <3>1. \A p, q \in Flight!Leaders(k) : p = q
      BY DEF FlightInv, LeadersOwn, Flight!Leaders, Leading
    <3>2. Cardinality(Flight!Leaders(k)) \in {0, 1}
      BY <3>1, AtMostOne
    <3>3. Flight!Cardinality(Flight!Leaders(k)) <= 1
      BY <3>2 DEF Flight!Cardinality, Cardinality
    <3>4. \A p \in Flight!Leaders(k) : m[k] = doing[p].call
      BY DEF FlightInv, LeadersOwn, Flight!Leaders, Leading
    <3>5. /\ m[k] # 0 => (Flight!Leaders(k) # {} \/ m[k] \in panicked)
          /\ m[k] \in panicked => Flight!Leaders(k) = {}
      BY DEF FlightInv, MapLed, Flight!Leaders, Leading
    <3> QED BY <3>3, <3>4, <3>5
  <2>3. \A p \in Procs :
          doing[p].at = "wait" /\ doing[p].call \notin done =>
            m[doing[p].key] = doing[p].call
    BY DEF FlightInv, WaitersInMap
  <2> QED BY <2>1, <2>2, <2>3 DEF OneFlight, Flight!OneFlight
<1> QED BY <1>1, FlightInvariance, PTL

(* A function that still runs has left no result.                          *)
StillRuns == \A p \in Procs : doing[p].at = "run" => doing[p].call \notin done

(* The end of one function is not the end of another.                      *)
LEMMA StillRunsStep ==
  ASSUME Flight!FlightAssumption, FlightInv, StillRuns, [Flight!Next]_(Flight!vars)
  PROVE  StillRuns'
<1> USE DEF FlightInv, FlightTypes, FlightPlaces, Flight!Idle, Flight!In,
            Flight!FlightAssumption, StillRuns
<1>1. ASSUME NEW p \in Procs, NEW k \in Keys, Flight!Join(p, k) \/ Flight!Lead(p, k)
      PROVE  StillRuns'
  <2>1. made \in Nat /\ done \subseteq 1..made
    OBVIOUS
  <2>2. made + 1 \notin done
    BY <2>1
  <2> QED BY <1>1, <2>2 DEF Flight!Join, Flight!Lead
<1>2. ASSUME NEW p \in Procs, Flight!FnReturns(p) PROVE StillRuns'
  <2>1. \A q \in Procs : doing[q].at = "run" /\ doing[q].call = doing[p].call => q = p
    BY <1>2 DEF Flight!FnReturns, LeadersOwn, Leading
  <2> QED BY <1>2, <2>1 DEF Flight!FnReturns
<1>3. ASSUME NEW p \in Procs,
             Flight!FnPanics(p) \/ Flight!Delete(p) \/ Flight!WaitReturns(p)
      PROVE  StillRuns'
  BY <1>3 DEF Flight!FnPanics, Flight!Delete, Flight!WaitReturns
<1>4. CASE UNCHANGED Flight!vars
  BY <1>4 DEF Flight!vars
<1> QED BY <1>1, <1>2, <1>3, <1>4 DEF Flight!Next

(* What a caller of SingleFlight shares, and when it has its answer.       *)
LEMMA FlightShares ==
  ASSUME FlightTypes, NEW k \in Keys, NEW p \in Procs
  PROVE  /\ Flight!Sharing(k)[p] = IF doing[p].at # "idle" /\ doing[p].key = k
                                   THEN doing[p].call ELSE 0
         /\ p \in Flight!Answered(k) <=> /\ doing[p].at # "idle" /\ doing[p].key = k
                                         /\ doing[p].call \in done
         /\ doing[p].at # "idle" => doing[p].call # 0 /\ doing[p].call <= made
<1>1. doing[p].at = "idle" <=> doing[p] = Flight!Idle
  BY DEF FlightTypes, FlightPlaces, Flight!Idle
<1> QED BY <1>1 DEF Flight!Sharing, Flight!Answered, FlightTypes, FlightPlaces, Flight!Idle

(* A section of Do by p, who is in k before or after it, changes only what *)
(* p shares.                                                               *)
LEMMA FlightMoves ==
  ASSUME NEW p \in Procs, NEW k \in Keys,
         \A q \in Procs : q # p => doing'[q] = doing[q]
  PROVE  Flight!Sharing(k)' =
           [Flight!Sharing(k) EXCEPT ![p] =
              IF doing'[p] # Flight!Idle /\ doing'[p].key = k THEN doing'[p].call ELSE 0]
<1>1. ASSUME NEW q \in Procs
      PROVE  (IF doing'[q] # Flight!Idle /\ doing'[q].key = k THEN doing'[q].call ELSE 0)
               = IF q = p THEN (IF doing'[p] # Flight!Idle /\ doing'[p].key = k
                                THEN doing'[p].call ELSE 0)
                 ELSE Flight!Sharing(k)[q]
  BY DEF Flight!Sharing
<1> QED BY <1>1 DEF Flight!Sharing

(* The first section of Do.                                                *)
LEMMA FlightComes ==
  ASSUME Flight!FlightAssumption, FlightInv, NEW k \in Keys,
         NEW p \in Procs, NEW l \in Keys, Flight!Join(p, l) \/ Flight!Lead(p, l)
  PROVE  Flight!Shared(k)!Next \/ UNCHANGED Flight!Shared(k)!callVars
<1>t. /\ FlightTypes /\ made \in Nat /\ done \subseteq 1..made /\ MaxCalls \in Nat
      /\ m \in [Keys -> 0..made]
  BY DEF FlightInv, FlightTypes, Flight!FlightAssumption
<1>1. /\ doing[p] = Flight!Idle /\ done' = done
      /\ \A q \in Procs : q # p => doing'[q] = doing[q]
  BY <1>t DEF Flight!Join, Flight!Lead, FlightTypes
<1>2. doing[p].at = "idle" /\ Flight!Sharing(k)[p] = 0 /\ p \notin Flight!Answered(k)
  BY <1>1 DEF Flight!Sharing, Flight!Answered, Flight!Idle
<1>3. CASE Flight!Join(p, l)
  <2> DEFINE in == Flight!In("wait", l, m[l])
  <2>1. /\ doing' = [doing EXCEPT ![p] = in] /\ doing'[p] = in
        /\ m[l] # 0 /\ m' = m
    BY <1>t, <1>3 DEF Flight!Join, FlightTypes
  <2>2. in # Flight!Idle /\ in.key = l /\ in.call = m[l]
    <3>1. in.at = "wait" /\ in.key = l /\ in.call = m[l]
      BY DEF Flight!In
    <3> QED BY <3>1 DEF Flight!Idle
  <2> HIDE DEF in
  <2>3. Flight!Sharing(k)' =
          [Flight!Sharing(k) EXCEPT ![p] = IF l = k THEN m[k] ELSE 0]
    BY <1>1, <2>1, <2>2, FlightMoves
  <2>4. Flight!Answered(k)' = IF l = k /\ m[k] \in done THEN Flight!Answered(k) \cup {p}
                              ELSE Flight!Answered(k)
    BY <1>1, <1>2, <2>1, <2>2 DEF Flight!Answered
  <2>5. CASE l = k
    <3>1. Flight!Shared(k)!Join(p)
      BY <1>1, <1>2, <2>1, <2>3, <2>4, <2>5 DEF Flight!Shared!Join
    <3> QED BY <3>1 DEF Flight!Shared!Next
  <2>6. CASE l # k
    <3>1. Flight!Sharing(k)' = Flight!Sharing(k)
      BY <1>2, <2>3, <2>6 DEF Flight!Sharing
    <3> QED BY <1>1, <2>1, <2>4, <2>6, <3>1 DEF Flight!Shared!callVars
  <2> QED BY <2>5, <2>6
<1>4. CASE Flight!Lead(p, l)
  <2> DEFINE in == Flight!In("run", l, made + 1)
  <2>1. /\ doing' = [doing EXCEPT ![p] = in] /\ doing'[p] = in
        /\ m[l] = 0 /\ made < MaxCalls
        /\ m'[l] = made + 1 /\ \A i \in Keys : i # l => m'[i] = m[i]
    BY <1>t, <1>4 DEF Flight!Lead, FlightTypes
  <2>2. in # Flight!Idle /\ in.key = l /\ in.call = made + 1
    <3>1. in.at = "run" /\ in.key = l /\ in.call = made + 1
      BY DEF Flight!In
    <3> QED BY <3>1 DEF Flight!Idle
  <2> HIDE DEF in
  <2>3. /\ made + 1 \in 1..MaxCalls /\ made + 1 \notin done /\ made + 1 # 0
        /\ 0 \notin done
    BY <1>t, <2>1
  <2>4. Flight!Sharing(k)' =
          [Flight!Sharing(k) EXCEPT ![p] = IF l = k THEN made + 1 ELSE 0]
    BY <1>1, <2>1, <2>2, FlightMoves
  <2>5. Flight!Answered(k)' = Flight!Answered(k)
    BY <1>1, <1>2, <2>1, <2>2, <2>3 DEF Flight!Answered
  <2>6. CASE l = k
    <3>1. \A q \in Procs : Flight!Sharing(k)[q] # made + 1
      <4>1. \A q \in Procs : Flight!Sharing(k)[q] \in 0..made
        BY <1>t, FlightShares DEF FlightTypes, FlightPlaces, Flight!Idle
      <4> QED BY <1>t, <4>1
    <3>2. Flight!Shared(k)!Begin(p, made + 1)
      BY <1>1, <1>2, <2>1, <2>3, <2>4, <2>5, <2>6, <3>1
      DEF Flight!Shared!Begin, Flight!Shared!Sharers
    <3> QED BY <2>3, <3>2 DEF Flight!Shared!Next
  <2>7. CASE l # k
    <3>1. Flight!Sharing(k)' = Flight!Sharing(k)
      BY <1>2, <2>4, <2>7 DEF Flight!Sharing
    <3> QED BY <1>1, <2>1, <2>5, <2>7, <3>1 DEF Flight!Shared!callVars
  <2> QED BY <2>6, <2>7
<1> QED BY <1>3, <1>4

(* The result of a function is there for all who share its call.           *)
LEMMA FlightEnds ==
  ASSUME Flight!FlightAssumption, FlightInv, StillRuns, NEW k \in Keys,
         NEW p \in Procs, Flight!FnReturns(p)
  PROVE  Flight!Shared(k)!Next \/ UNCHANGED Flight!Shared(k)!callVars
<1>t. /\ FlightTypes /\ LeadersOwn /\ WaitersInMap
      /\ made \in Nat /\ made <= MaxCalls /\ MaxCalls \in Nat
  BY DEF FlightInv, FlightTypes, Flight!FlightAssumption
<1> DEFINE c == doing[p].call
           l == doing[p].key
<1>1. /\ doing[p].at = "run" /\ m' = m /\ done' = done \cup {c} /\ c \notin done
      /\ doing' = [doing EXCEPT ![p].at = "delete"]
  BY DEF Flight!FnReturns, StillRuns
<1>2. doing[p] # Flight!Idle /\ l \in Keys /\ c \in 1..made
  BY <1>t, <1>1 DEF FlightTypes, FlightPlaces, Flight!Idle
<1>3. c \in 1..MaxCalls /\ c # 0
  <2>1. c \in Nat /\ made \in Nat /\ 1 <= c /\ c <= made
    BY <1>t, <1>2
  <2> QED BY <1>t, <2>1
<1>4. m[l] = c /\ \A i \in Keys : m[i] = c => i = l
  BY <1>t, <1>1, <1>2, <1>3 DEF LeadersOwn, Leading
<1>5. /\ doing'[p].at = "delete" /\ doing'[p].key = l /\ doing'[p].call = c
      /\ \A q \in Procs : q # p => doing'[q] = doing[q]
  <2>1. doing[p] \in [at : {"wait", "run", "delete"}, key : Keys, call : 1..made]
    BY <1>t, <1>1 DEF FlightTypes, FlightPlaces, Flight!Idle
  <2>2. doing'[p] = [doing[p] EXCEPT !.at = "delete"]
    BY <1>t, <1>1 DEF FlightTypes
  <2> QED BY <1>t, <1>1, <2>1, <2>2 DEF FlightTypes
<1>6. doing'[p] # Flight!Idle
  BY <1>5 DEF Flight!Idle
<1>7. \A q \in Procs : doing[q] # Flight!Idle /\ doing[q].call = c => doing[q].key = l
  <2> SUFFICES ASSUME NEW q \in Procs, doing[q] # Flight!Idle, doing[q].call = c
               PROVE  doing[q].key = l
    OBVIOUS
  <2>1. doing[q].at \in {"wait", "run", "delete"} /\ doing[q].key \in Keys
    BY <1>t DEF FlightTypes, FlightPlaces, Flight!Idle
  <2>2. m[doing[q].key] = c
    BY <1>t, <1>1, <2>1 DEF LeadersOwn, Leading, WaitersInMap
  <2> QED BY <1>4, <2>1, <2>2
<1> HIDE DEF c, l
<1>8. Flight!Sharing(k)' = Flight!Sharing(k)
  BY <1>2, <1>5, <1>6 DEF Flight!Sharing, c, l
<1>9. CASE k = l
  <2>1. \A q \in Procs : Flight!Sharing(k)[q] = c <=>
          doing[q] # Flight!Idle /\ doing[q].key = k /\ doing[q].call = c
    BY <1>3 DEF Flight!Sharing
  <2>2. /\ Flight!Shared(k)!Sharers(c) # {}
        /\ Flight!Shared(k)!Sharers(c) \cap Flight!Answered(k) = {}
    BY <1>1, <1>2, <1>9, <2>1 DEF Flight!Shared!Sharers, Flight!Answered, c, l
  <2>3. Flight!Answered(k)' = Flight!Answered(k) \cup Flight!Shared(k)!Sharers(c)
    BY <1>1, <1>2, <1>5, <1>6, <1>9, <2>1 DEF Flight!Shared!Sharers, Flight!Answered, c, l
  <2>4. Flight!Shared(k)!End(c)
    BY <1>1, <1>4, <1>8, <1>9, <2>2, <2>3 DEF Flight!Shared!End
  <2> QED BY <1>3, <2>4 DEF Flight!Shared!Next
<1>10. CASE k # l
  <2>1. Flight!Answered(k)' = Flight!Answered(k)
    BY <1>1, <1>2, <1>5, <1>6, <1>7, <1>10 DEF Flight!Answered, c, l
  <2>2. m[k] \in done' <=> m[k] \in done
    BY <1>1, <1>4, <1>10
  <2> QED BY <1>1, <1>8, <2>1, <2>2 DEF Flight!Shared!callVars
<1> QED BY <1>9, <1>10

(* Who leaves Do shares nothing any more.                                  *)
LEMMA FlightGoes ==
  ASSUME Flight!FlightAssumption, FlightInv, StillRuns, NEW k \in Keys,
         NEW p \in Procs, Flight!FnPanics(p) \/ Flight!Delete(p) \/ Flight!WaitReturns(p)
  PROVE  Flight!Shared(k)!Next \/ UNCHANGED Flight!Shared(k)!callVars
<1>t. /\ FlightTypes /\ LeadersOwn
      /\ made \in Nat /\ done \subseteq 1..made
  BY DEF FlightInv, FlightTypes
<1> DEFINE c == doing[p].call
           l == doing[p].key
<1>1. /\ doing[p].at \in {"wait", "run", "delete"} /\ done' = done
      /\ doing' = [doing EXCEPT ![p] = Flight!Idle]
  BY DEF Flight!FnPanics, Flight!Delete, Flight!WaitReturns
<1>2. doing[p] # Flight!Idle /\ l \in Keys /\ c \in 1..made
  BY <1>t, <1>1 DEF FlightTypes, FlightPlaces, Flight!Idle
<1>3. c # 0 /\ 0 \notin done
  BY <1>t, <1>2
<1>4. /\ doing'[p] = Flight!Idle
      /\ \A q \in Procs : q # p => doing'[q] = doing[q]
  BY <1>t, <1>1 DEF FlightTypes
<1> HIDE DEF c, l
<1>5. Flight!Sharing(k)' = [Flight!Sharing(k) EXCEPT ![p] = 0]
  BY <1>4, FlightMoves
<1>6. Flight!Answered(k)' = Flight!Answered(k) \ {p}
  BY <1>1, <1>4 DEF Flight!Answered
<1>7. CASE k # l
  <2>1. Flight!Sharing(k)[p] = 0 /\ p \notin Flight!Answered(k)
    BY <1>7 DEF Flight!Sharing, Flight!Answered, l
  <2>2. Flight!Sharing(k)' = Flight!Sharing(k)
    BY <1>5, <2>1 DEF Flight!Sharing
  <2>3. m'[k] = m[k]
    BY <1>t, <1>7 DEF Flight!FnPanics, Flight!Delete, Flight!WaitReturns, FlightTypes, l
  <2> QED BY <1>1, <1>6, <2>1, <2>2, <2>3 DEF Flight!Shared!callVars
<1>8. CASE k = l
  <2>1. Flight!Sharing(k)[p] = c
    BY <1>2, <1>8 DEF Flight!Sharing, c, l
  <2>2. p \in Flight!Answered(k) <=> c \in done
    BY <1>2, <1>8 DEF Flight!Answered, c, l
  <2>3. CASE Flight!FnPanics(p)
    <3>1. c \notin done /\ m' = m
      BY <2>3 DEF Flight!FnPanics, StillRuns, c
    <3>2. Flight!Shared(k)!GiveUp(p)
      BY <1>1, <1>3, <1>5, <1>6, <2>1, <2>2, <3>1 DEF Flight!Shared!GiveUp
    <3> QED BY <3>2 DEF Flight!Shared!Next
  <2>4. CASE Flight!Delete(p)
    <3>1. c \in done /\ m[k] = c
      BY <1>t, <1>8, <2>4 DEF Flight!Delete, LeadersOwn, Leading, c, l
    <3>2. m'[k] = 0
      BY <1>t, <1>8, <2>4 DEF Flight!Delete, FlightTypes, l
    <3>3. Flight!Shared(k)!Return(p)
      BY <1>1, <1>3, <1>5, <1>6, <2>2, <3>1, <3>2 DEF Flight!Shared!Return
    <3> QED BY <3>3 DEF Flight!Shared!Next
  <2>5. CASE Flight!WaitReturns(p)
    <3>1. c \in done /\ m' = m
      BY <2>5 DEF Flight!WaitReturns, c
    <3>2. Flight!Shared(k)!Return(p)
      BY <1>1, <1>5, <1>6, <2>2, <3>1 DEF Flight!Shared!Return
    <3> QED BY <3>2 DEF Flight!Shared!Next
  <2> QED BY <2>3, <2>4, <2>5
<1> QED BY <1>7, <1>8

(* A section of Do is for each key a step of its SharedCall, or none.      *)
LEMMA FlightSharedStep ==
  ASSUME Flight!FlightAssumption, FlightInv, StillRuns, [Flight!Next]_(Flight!vars),
         NEW k \in Keys
  PROVE  Flight!Shared(k)!Next \/ UNCHANGED Flight!Shared(k)!callVars
<1>1. CASE UNCHANGED Flight!vars
  BY <1>1 DEF Flight!vars, Flight!Shared!callVars, Flight!Sharing, Flight!Answered
<1> QED BY <1>1, FlightComes, FlightEnds, FlightGoes DEF Flight!Next

(* All who come for a key while its call is in the map get the result of   *)
(* that call and no other, also who comes after its end, and only a free   *)
(* key gets a new one (concurrency.go:137-165).                            *)
THEOREM FlightRefinement ==
  ASSUME Flight!FlightAssumption PROVE Flight!Spec => Flight!SharesCall
<1>1. Flight!Init => StillRuns /\ \A k \in Keys : Flight!Shared(k)!Init
  <2> SUFFICES ASSUME Flight!Init
               PROVE  StillRuns /\ \A k \in Keys : Flight!Shared(k)!Init
    OBVIOUS
  <2>1. StillRuns
    BY DEF Flight!Init, StillRuns, Flight!Idle
  <2>2. ASSUME NEW k \in Keys PROVE Flight!Shared(k)!Init
    <3>1. /\ Flight!Sharing(k) = [p \in Procs |-> 0] /\ Flight!Answered(k) = {}
          /\ m[k] = 0 /\ 0 \notin done
      BY DEF Flight!Init, Flight!Sharing, Flight!Answered
    <3> QED BY <3>1 DEF Flight!Shared!Init
  <2> QED BY <2>1, <2>2
<1>2. FlightInv /\ StillRuns /\ [Flight!Next]_(Flight!vars) =>
        /\ StillRuns'
        /\ \A k \in Keys : [Flight!Shared(k)!Next]_(Flight!Shared(k)!callVars)
  BY StillRunsStep, FlightSharedStep
<1> QED BY <1>1, <1>2, FlightInvariance, PTL DEF Flight!Spec, Flight!SharesCall

-----------------------------------------------------------------------------
(* The adaptive limiter.                                                   *)

(* TypeOK without the sign of l.active, which only Accounted gives.        *)
LimitTypes ==
  /\ initial \in Nat /\ initial \in Initials
  /\ limitNow \in Int
  /\ inUse \in Int
  /\ waitChs \in Seq(Procs)
  /\ closedChs \in SUBSET Procs
  /\ place \in [Procs -> {"idle", "waiting", "cancelling", "holding"}]

LimitBlocked == {"waiting", "cancelling"}

(* Whoever is in l.waitChs is blocked in Acquire, there once, and has not  *)
(* been granted a slot; only the blocked have.                             *)
LimitQueue ==
  /\ \A i, j \in DOMAIN waitChs : waitChs[i] = waitChs[j] => i = j
  /\ \A i \in DOMAIN waitChs :
       place[waitChs[i]] \in LimitBlocked /\ waitChs[i] \notin closedChs
  /\ \A p \in closedChs : place[p] \in LimitBlocked

LimitOwed == Lim!Holding \cup closedChs

(* l.active counts whoever holds a slot or has been granted one.           *)
LimitAccounted == Cardinality(LimitOwed) <= inUse

LimitWakes == waitChs # <<>> => inUse >= limitNow

LimitInRange ==
  /\ limitNow >= initial \/ limitNow >= Beta - 1
  /\ limitNow <= initial \/ limitNow <= MaxLimit

(* The inductive invariant.                                                *)
LimitInv == LimitTypes /\ LimitQueue /\ LimitAccounted /\ LimitWakes /\ LimitInRange

LEMMA LimitFinite ==
  ASSUME Lim!LimiterAssumption, NEW S \in SUBSET Procs
  PROVE  IsFiniteSet(S) /\ Cardinality(S) \in Nat
BY FS_Subset, FS_CardinalityType DEF Lim!IsFiniteSet, IsFiniteSet, Lim!LimiterAssumption

(* A new limiter satisfies the invariant.                                  *)
LEMMA LimitInit == ASSUME Lim!LimiterAssumption, Lim!Init PROVE LimitInv
<1> USE DEF Lim!Init, Lim!LimiterAssumption
<1>1. LimitTypes
  BY DEF LimitTypes
<1>2. LimitQueue /\ LimitWakes
  BY DEF LimitQueue, LimitWakes
<1>3. LimitAccounted
  <2>1. LimitOwed = {}
    BY DEF LimitOwed, Lim!Holding
  <2> QED BY <2>1, FS_EmptySet DEF LimitAccounted
<1>4. LimitInRange
  BY <1>1 DEF LimitInRange, LimitTypes
<1> QED BY <1>1, <1>2, <1>3, <1>4 DEF LimitInv

(* Acquire takes a slot or joins the end of the queue.                     *)
LEMMA LimitAcquire ==
  ASSUME Lim!LimiterAssumption, LimitInv, NEW p \in Procs, Lim!Acquire(p)
  PROVE  LimitInv'
<1>t. LimitTypes /\ LimitQueue /\ LimitAccounted /\ LimitWakes /\ LimitInRange
  BY DEF LimitInv
<1>s. Len(waitChs) \in Nat /\ DOMAIN waitChs = 1..Len(waitChs)
  BY <1>t, LenProperties DEF LimitTypes
<1>1. CASE /\ inUse < limitNow /\ inUse' = inUse + 1
           /\ place' = [place EXCEPT ![p] = "holding"] /\ UNCHANGED waitChs
  <2>1. LimitTypes'
    BY <1>t, <1>1 DEF LimitTypes, Lim!Acquire
  <2>2. LimitQueue' /\ LimitWakes' /\ LimitInRange'
    BY <1>t, <1>1 DEF LimitTypes, Lim!Acquire, LimitQueue, LimitWakes, LimitInRange, LimitBlocked
  <2>3. LimitOwed' = LimitOwed \cup {p}
    BY <1>t, <1>1 DEF LimitTypes, Lim!Acquire, LimitOwed, Lim!Holding
  <2>4. LimitOwed \in SUBSET Procs
    BY <1>t DEF LimitTypes, LimitOwed, Lim!Holding
  <2>5. Cardinality(LimitOwed') <= Cardinality(LimitOwed) + 1 /\ Cardinality(LimitOwed) \in Nat
    BY <2>3, <2>4, LimitFinite, FS_AddElement
  <2>6. Cardinality(LimitOwed') \in Nat
    BY <2>3, <2>4, LimitFinite
  <2> QED BY <1>t, <1>1, <2>1, <2>2, <2>5, <2>6 DEF LimitInv, LimitAccounted, LimitTypes
<1>2. CASE /\ inUse >= limitNow /\ waitChs' = Append(waitChs, p)
           /\ place' = [place EXCEPT ![p] = "waiting"] /\ UNCHANGED inUse
  <2>1. /\ Len(waitChs') = Len(waitChs) + 1
        /\ DOMAIN waitChs' = 1..(Len(waitChs) + 1)
        /\ \A i \in 1..Len(waitChs) : waitChs'[i] = waitChs[i]
        /\ waitChs'[Len(waitChs) + 1] = p
        /\ waitChs' \in Seq(Procs)
    BY <1>t, <1>s, <1>2, AppendProperties DEF LimitTypes
  <2>2. \A i \in 1..Len(waitChs) : waitChs[i] \in Procs /\ waitChs[i] # p
    BY <1>t, <1>s, ElementOfSeq DEF LimitTypes, LimitQueue, Lim!Acquire, LimitBlocked
  <2>3. p \notin closedChs /\ place'[p] = "waiting" /\ closedChs' = closedChs
    BY <1>t, <1>2 DEF LimitTypes, LimitQueue, Lim!Acquire, LimitBlocked
  <2>4. \A q \in Procs : q # p => place'[q] = place[q]
    BY <1>t, <1>2 DEF LimitTypes
  <2>5. LimitTypes'
    BY <1>t, <1>2, <2>1 DEF LimitTypes, Lim!Acquire
  <2>6. LimitQueue'
    <3>1. \A i, j \in DOMAIN waitChs' : waitChs'[i] = waitChs'[j] => i = j
      BY <1>t, <1>s, <2>1, <2>2 DEF LimitQueue
    <3>2. \A i \in DOMAIN waitChs' :
            place'[waitChs'[i]] \in LimitBlocked /\ waitChs'[i] \notin closedChs'
      <4> TAKE i \in DOMAIN waitChs'
      <4>1. CASE i = Len(waitChs) + 1
        BY <2>1, <2>3, <4>1 DEF LimitBlocked
      <4>2. CASE i \in 1..Len(waitChs)
        BY <1>t, <1>s, <2>1, <2>2, <2>3, <2>4, <4>2 DEF LimitQueue
      <4> QED BY <1>s, <2>1, <4>1, <4>2
    <3>3. \A q \in closedChs' : place'[q] \in LimitBlocked
      BY <1>t, <2>3, <2>4 DEF LimitQueue, LimitTypes
    <3> QED BY <3>1, <3>2, <3>3 DEF LimitQueue
  <2>7. LimitWakes' /\ LimitInRange'
    BY <1>t, <1>2 DEF LimitWakes, LimitInRange, Lim!Acquire
  <2>8. LimitOwed' = LimitOwed
    BY <1>t, <1>2 DEF LimitTypes, Lim!Acquire, LimitOwed, Lim!Holding
  <2> QED BY <1>t, <1>2, <2>5, <2>6, <2>7, <2>8 DEF LimitInv, LimitAccounted
<1> QED BY <1>1, <1>2 DEF Lim!Acquire

(* The channel is received from, or the context is done.                   *)
LEMMA LimitSelect ==
  ASSUME LimitInv, NEW p \in Procs, Lim!Receive(p) \/ Lim!CtxDone(p)
  PROVE  LimitInv'
<1>t. LimitTypes /\ LimitQueue /\ LimitAccounted /\ LimitWakes /\ LimitInRange
  BY DEF LimitInv
<1>1. LimitTypes'
  BY <1>t DEF LimitTypes, Lim!Receive, Lim!CtxDone
<1>2. LimitOwed' = LimitOwed
  BY <1>t DEF LimitTypes, LimitOwed, Lim!Holding, Lim!Receive, Lim!CtxDone
<1>3. inUse' = inUse /\ limitNow' = limitNow /\ initial' = initial /\ waitChs' = waitChs
  BY DEF Lim!Receive, Lim!CtxDone
<1>4. LimitQueue'
  <2>1. CASE Lim!Receive(p)
    BY <1>t, <2>1 DEF LimitTypes, LimitQueue, Lim!Receive, LimitBlocked
  <2>2. CASE Lim!CtxDone(p)
    BY <1>t, <2>2 DEF LimitTypes, LimitQueue, Lim!CtxDone, LimitBlocked
  <2> QED BY <2>1, <2>2
<1> QED BY <1>t, <1>1, <1>2, <1>3, <1>4 DEF LimitInv, LimitAccounted, LimitWakes, LimitInRange

(* A cancelled Acquire is not in the queue once it has left.               *)
LEMMA LimitAbandon ==
  ASSUME Lim!LimiterAssumption, LimitInv, NEW p \in Procs, Lim!Abandon(p)
  PROVE  LimitInv'
<1>t. LimitTypes /\ LimitQueue /\ LimitAccounted /\ LimitWakes /\ LimitInRange
  BY DEF LimitInv
<1>s. Len(waitChs) \in Nat /\ DOMAIN waitChs = 1..Len(waitChs)
  BY <1>t, LenProperties DEF LimitTypes
<1>1. /\ place[p] = "cancelling" /\ place' = [place EXCEPT ![p] = "idle"]
      /\ closedChs' = closedChs \ {p}
      /\ inUse' = inUse /\ limitNow' = limitNow /\ initial' = initial
  BY DEF Lim!Abandon
<1>2. /\ waitChs' \in Seq(Procs) /\ DOMAIN waitChs' = 1..Len(waitChs')
      /\ waitChs' # <<>> => waitChs # <<>>
      /\ \A i, j \in DOMAIN waitChs' : waitChs'[i] = waitChs'[j] => i = j
      /\ \A i \in DOMAIN waitChs' :
           waitChs'[i] # p /\ \E j \in DOMAIN waitChs : waitChs'[i] = waitChs[j]
  <2>1. CASE \A i \in DOMAIN waitChs : waitChs[i] # p
    <3>1. waitChs' = waitChs
      BY <2>1 DEF Lim!Abandon
    <3> QED BY <1>t, <1>s, <2>1, <3>1 DEF LimitTypes, LimitQueue
  <2>2. CASE \E i \in DOMAIN waitChs : waitChs[i] = p
    <3>1. PICK i \in DOMAIN waitChs : waitChs[i] = p /\ waitChs' = Lim!Without(waitChs, i)
      BY <2>2 DEF Lim!Abandon
    <3>2. /\ waitChs' \in Seq(Procs)
          /\ Len(waitChs') = Len(waitChs) - 1
          /\ \A k \in 1..(Len(waitChs) - 1) :
               waitChs'[k] = IF k < i THEN waitChs[k] ELSE waitChs[k + 1]
      BY <1>t, <1>s, <3>1, RemovedProperties DEF Lim!Without, LimitTypes
    <3>3. DOMAIN waitChs' = 1..(Len(waitChs) - 1)
      BY <3>2, LenProperties
    <3>4. ASSUME NEW k \in DOMAIN waitChs'
          PROVE  \E j \in DOMAIN waitChs :
                   j = (IF k < i THEN k ELSE k + 1) /\ j # i /\ waitChs'[k] = waitChs[j]
      <4>1. CASE k < i
        BY <1>s, <3>2, <3>3, <4>1
      <4>2. CASE ~(k < i)
        BY <1>s, <3>2, <3>3, <4>2
      <4> QED BY <4>1, <4>2
    <3>5. \A k \in DOMAIN waitChs' :
            waitChs'[k] # p /\ \E j \in DOMAIN waitChs : waitChs'[k] = waitChs[j]
      BY <1>t, <3>1, <3>4 DEF LimitQueue
    <3>6. \A k, l \in DOMAIN waitChs' : waitChs'[k] = waitChs'[l] => k = l
      <4> TAKE k, l \in DOMAIN waitChs'
      <4>1. k \in Int /\ l \in Int /\ i \in Int
        BY <1>s, <3>3
      <4>2. PICK a \in DOMAIN waitChs :
              a = (IF k < i THEN k ELSE k + 1) /\ a # i /\ waitChs'[k] = waitChs[a]
        BY <3>4
      <4>3. PICK b \in DOMAIN waitChs :
              b = (IF l < i THEN l ELSE l + 1) /\ b # i /\ waitChs'[l] = waitChs[b]
        BY <3>4
      <4>4. waitChs'[k] = waitChs'[l] => a = b
        BY <1>t, <4>2, <4>3 DEF LimitQueue
      <4>5. a = b => k = l
        BY <4>1, <4>2, <4>3
      <4> QED BY <4>4, <4>5
    <3>7. waitChs # <<>>
      BY <1>s, <3>1
    <3>8. DOMAIN waitChs' = 1..Len(waitChs')
      BY <3>2, <3>3
    <3> QED BY <3>2, <3>5, <3>6, <3>7, <3>8
  <2> QED BY <2>1, <2>2
<1>3. LimitTypes'
  BY <1>t, <1>1, <1>2 DEF LimitTypes
<1>4. LimitQueue'
  <2>1. \A q \in Procs : q # p => place'[q] = place[q]
    BY <1>t, <1>1 DEF LimitTypes
  <2>2. \A i \in DOMAIN waitChs' : waitChs'[i] \in Procs
    BY <1>2, ElementOfSeq
  <2>3. \A i \in DOMAIN waitChs' :
          place'[waitChs'[i]] \in LimitBlocked /\ waitChs'[i] \notin closedChs'
    BY <1>t, <1>1, <1>2, <2>1, <2>2 DEF LimitQueue
  <2>4. \A q \in closedChs' : place'[q] \in LimitBlocked
    BY <1>t, <1>1, <2>1 DEF LimitQueue, LimitTypes
  <2> QED BY <1>2, <2>3, <2>4 DEF LimitQueue
<1>5. LimitWakes' /\ LimitInRange'
  BY <1>t, <1>1, <1>2 DEF LimitWakes, LimitInRange
<1>6. LimitAccounted'
  <2>1. LimitOwed' = LimitOwed \ {p} /\ LimitOwed \in SUBSET Procs
    BY <1>t, <1>1 DEF LimitTypes, LimitOwed, Lim!Holding
  <2>2. /\ Cardinality(LimitOwed') \in Nat /\ Cardinality(LimitOwed) \in Nat
        /\ Cardinality(LimitOwed') <= Cardinality(LimitOwed)
    BY <2>1, LimitFinite, FS_Subset
  <2> QED BY <1>t, <1>1, <2>2 DEF LimitAccounted, LimitTypes
<1> QED BY <1>3, <1>4, <1>5, <1>6 DEF LimitInv

(* What Release does, for the number k of goroutines it wakes.             *)
LEMMA LimitReleaseFacts ==
  ASSUME Lim!LimiterAssumption, LimitInv, NEW p \in Procs, Lim!Release(p)
  PROVE  /\ place[p] = "holding" /\ place' = [place EXCEPT ![p] = "idle"]
         /\ initial' = initial /\ limitNow' \in Int /\ LimitInRange'
         /\ \E k \in 0..Len(waitChs) :
              /\ inUse' = inUse - 1 + k
              /\ k > 0 => inUse' <= limitNow'
              /\ k < Len(waitChs) => inUse' >= limitNow'
              /\ closedChs' = closedChs \cup {waitChs[i] : i \in 1..k}
              /\ waitChs' = SubSeq(waitChs, k + 1, Len(waitChs))
<1>t. LimitTypes /\ LimitInRange /\ Len(waitChs) \in Nat
  BY LenProperties DEF LimitInv, LimitTypes
<1>1. PICK new \in Lim!Adjusted :
        /\ place[p] = "holding" /\ place' = [place EXCEPT ![p] = "idle"]
        /\ initial' = initial /\ limitNow' = new
        /\ inUse' = inUse - 1 + Lim!Woken(new)
        /\ closedChs' = closedChs \cup {waitChs[i] : i \in 1..Lim!Woken(new)}
        /\ waitChs' = SubSeq(waitChs, Lim!Woken(new) + 1, Len(waitChs))
  BY DEF Lim!Release
<1>2. /\ new \in Int /\ (new >= initial \/ new >= Beta - 1)
      /\ new <= initial \/ new <= MaxLimit
  BY <1>t DEF LimitTypes, LimitInRange, Lim!Adjusted, Lim!LimiterAssumption
<1>3. /\ Lim!Woken(new) \in 0..Len(waitChs)
      /\ Lim!Woken(new) > 0 => inUse - 1 + Lim!Woken(new) <= new
      /\ Lim!Woken(new) < Len(waitChs) => inUse - 1 + Lim!Woken(new) >= new
  BY <1>t, <1>2 DEF Lim!Woken, LimitTypes
<1> HIDE DEF Lim!Woken
<1> QED BY <1>1, <1>2, <1>3 DEF LimitInRange

(* Release gives a slot back and wakes the first of the queue.             *)
LEMMA LimitRelease ==
  ASSUME Lim!LimiterAssumption, LimitInv, NEW p \in Procs, Lim!Release(p)
  PROVE  LimitInv'
<1>t. LimitTypes /\ LimitQueue /\ LimitAccounted /\ LimitWakes /\ LimitInRange
  BY DEF LimitInv
<1>s. Len(waitChs) \in Nat /\ DOMAIN waitChs = 1..Len(waitChs)
  BY <1>t, LenProperties DEF LimitTypes
<1>1. /\ place[p] = "holding" /\ place' = [place EXCEPT ![p] = "idle"]
      /\ initial' = initial /\ limitNow' \in Int /\ LimitInRange'
  BY LimitReleaseFacts
<1>2. PICK k \in 0..Len(waitChs) :
        /\ inUse' = inUse - 1 + k
        /\ k > 0 => inUse' <= limitNow'
        /\ k < Len(waitChs) => inUse' >= limitNow'
        /\ closedChs' = closedChs \cup {waitChs[i] : i \in 1..k}
        /\ waitChs' = SubSeq(waitChs, k + 1, Len(waitChs))
  BY LimitReleaseFacts
<1> DEFINE first == {waitChs[i] : i \in 1..k}
<1>3. first \subseteq Procs /\ IsFiniteSet(first) /\ Cardinality(first) <= k
  <2>1. waitChs \in Seq(Procs)
    BY <1>t DEF LimitTypes
  <2> QED BY <2>1, PrefixSize
<1>4. /\ waitChs' \in Seq(Procs)
      /\ Len(waitChs') = Len(waitChs) - k
      /\ \A i \in 1..(Len(waitChs) - k) : waitChs'[i] = waitChs[k + i]
  BY <1>t, <1>2, SuffixProperties DEF LimitTypes
<1>5. DOMAIN waitChs' = 1..(Len(waitChs) - k)
  BY <1>4, LenProperties
<1>6. \A i \in DOMAIN waitChs' : k + i \in DOMAIN waitChs /\ k + i > k
  BY <1>s, <1>5
<1>7. LimitTypes'
  BY <1>t, <1>1, <1>2, <1>3, <1>4 DEF LimitTypes
<1>8. \A q \in first : place[q] \in LimitBlocked
  BY <1>t, <1>s DEF LimitQueue
<1>9. LimitQueue'
  <2>1. \A i, j \in DOMAIN waitChs' : waitChs'[i] = waitChs'[j] => i = j
    <3> TAKE i, j \in DOMAIN waitChs'
    <3>1. waitChs'[i] = waitChs'[j] => k + i = k + j
      BY <1>t, <1>4, <1>5, <1>6 DEF LimitQueue
    <3>2. i \in Int /\ j \in Int /\ k \in Int
      BY <1>s, <1>5
    <3> QED BY <3>1, <3>2
  <2>2. ASSUME NEW i \in DOMAIN waitChs'
        PROVE  place'[waitChs'[i]] \in LimitBlocked /\ waitChs'[i] \notin closedChs'
    <3>1. k + i \in DOMAIN waitChs /\ waitChs'[i] = waitChs[k + i]
      BY <1>4, <1>5, <1>6
    <3>2. /\ waitChs[k + i] \in Procs /\ waitChs[k + i] \notin closedChs
          /\ place[waitChs[k + i]] \in LimitBlocked
      BY <1>t, <3>1, ElementOfSeq DEF LimitTypes, LimitQueue
    <3>3. waitChs[k + i] \notin first
      <4> SUFFICES ASSUME NEW j \in 1..k PROVE waitChs[j] # waitChs[k + i]
        OBVIOUS
      <4>1. j \in DOMAIN waitChs /\ j # k + i
        BY <1>s, <1>6
      <4> QED BY <1>t, <3>1, <4>1 DEF LimitQueue
    <3>4. waitChs[k + i] # p
      BY <1>1, <3>2 DEF LimitBlocked
    <3> QED BY <1>t, <1>1, <1>2, <3>1, <3>2, <3>3, <3>4 DEF LimitTypes
  <2>3. \A q \in closedChs' : place'[q] \in LimitBlocked
    <3> TAKE q \in closedChs'
    <3>1. q \in Procs /\ place[q] \in LimitBlocked
      BY <1>t, <1>2, <1>3, <1>8 DEF LimitQueue, LimitTypes
    <3>2. q # p
      BY <1>1, <3>1 DEF LimitBlocked
    <3> QED BY <1>t, <1>1, <3>1, <3>2 DEF LimitTypes
  <2> QED BY <2>1, <2>2, <2>3 DEF LimitQueue
<1>10. LimitWakes'
  <2>1. waitChs' # <<>> => k < Len(waitChs)
    BY <1>s, <1>4, EmptySeq
  <2> QED BY <1>2, <2>1 DEF LimitWakes
<1>11. LimitOwed' = (LimitOwed \ {p}) \cup first /\ p \in LimitOwed /\ LimitOwed \in SUBSET Procs
  <2>1. p \notin closedChs /\ p \notin first
    BY <1>t, <1>1, <1>8 DEF LimitQueue, LimitBlocked
  <2> QED BY <1>t, <1>1, <1>2, <2>1 DEF LimitTypes, LimitOwed, Lim!Holding
<1>12. LimitAccounted'
  <2>1. /\ IsFiniteSet(LimitOwed \ {p}) /\ Cardinality(LimitOwed) \in Nat
        /\ Cardinality(LimitOwed \ {p}) = Cardinality(LimitOwed) - 1
    BY <1>11, LimitFinite, FS_RemoveElement
  <2>2. Cardinality(LimitOwed') = Cardinality(LimitOwed \ {p}) + Cardinality(first)
                              - Cardinality((LimitOwed \ {p}) \cap first)
    BY <1>3, <1>11, <2>1, FS_Union
  <2>3. Cardinality((LimitOwed \ {p}) \cap first) \in Nat /\ Cardinality(first) \in Nat
    <3>1. (LimitOwed \ {p}) \cap first \in SUBSET Procs
      BY <1>3
    <3> QED BY <1>3, <3>1, LimitFinite
  <2>4. k \in Int /\ inUse \in Int /\ Cardinality(LimitOwed) <= inUse
    BY <1>t, <1>s DEF LimitTypes, LimitAccounted
  <2> HIDE DEF first
  <2> QED BY <1>2, <1>3, <2>1, <2>2, <2>3, <2>4 DEF LimitAccounted
<1> QED BY <1>1, <1>7, <1>9, <1>10, <1>12 DEF LimitInv

(* Every step of the code preserves the invariant.                         *)
LEMMA LimitStep == ASSUME Lim!LimiterAssumption, LimitInv, [Lim!Next]_(Lim!vars) PROVE LimitInv'
<1>1. CASE UNCHANGED Lim!vars
  BY <1>1 DEF Lim!vars, LimitInv, LimitTypes, LimitQueue, LimitAccounted, LimitOwed, Lim!Holding,
              LimitWakes, LimitInRange
<1>2. CASE Lim!Next
  BY <1>2, LimitAcquire, LimitSelect, LimitAbandon, LimitRelease DEF Lim!Next
<1> QED BY <1>1, <1>2

(* The inductive invariant of the adaptive limiter.                        *)
THEOREM LimitInvariance == ASSUME Lim!LimiterAssumption PROVE Lim!Spec => []LimitInv
<1>1. Lim!Init => LimitInv
  BY LimitInit
<1>2. LimitInv /\ [Lim!Next]_(Lim!vars) => LimitInv'
  BY LimitStep
<1> QED BY <1>1, <1>2, PTL DEF Lim!Spec

(* Nobody waits in front of a free slot, and the limit stays between        *)
(* beta - 1 and maxLimit, or in between these and where it began            *)
(* (limiter.go:64-114).                                                     *)
THEOREM LimitSafety == ASSUME Lim!LimiterAssumption PROVE Lim!Spec => []LimitSound
<1>1. ASSUME LimitInv PROVE LimitSound
  <2>1. inUse \in Nat
    <3>1. LimitOwed \in SUBSET Procs
      BY <1>1 DEF LimitInv, LimitTypes, LimitOwed, Lim!Holding
    <3>2. Cardinality(LimitOwed) \in Nat
      BY <3>1, LimitFinite
    <3> QED BY <1>1, <3>2 DEF LimitInv, LimitTypes, LimitAccounted
  <2>2. Lim!TypeOK
    BY <1>1, <2>1 DEF LimitInv, LimitTypes, Lim!TypeOK
  <2> QED BY <1>1, <2>2 DEF LimitInv, LimitSound, Lim!LimitSound, LimitWakes, LimitInRange
<1> QED BY <1>1, LimitInvariance, PTL

(* A step of the limiter is a step of the gate or changes nothing there.   *)
LEMMA LimitGateStep ==
  ASSUME Lim!LimiterAssumption, LimitInv, [Lim!Next]_(Lim!vars)
  PROVE  Lim!Gate!Next \/ UNCHANGED Lim!Gate!gateVars
<1>t. LimitTypes /\ LimitQueue /\ LimitWakes
  BY DEF LimitInv
<1> USE DEF Lim!Gate!gateVars
<1>1. ASSUME NEW p \in Procs, Lim!Acquire(p) PROVE Lim!Gate!Next
  <2>1. p \notin LimitOwed
    BY <1>t, <1>1 DEF LimitQueue, Lim!Acquire, LimitOwed, Lim!Holding, LimitBlocked
  <2>2. CASE /\ inUse < limitNow /\ inUse' = inUse + 1
             /\ place' = [place EXCEPT ![p] = "holding"] /\ UNCHANGED waitChs
    <3>1. waitChs = <<>>
      BY <1>t, <2>2 DEF LimitTypes, LimitWakes
    <3>2. LimitOwed' = LimitOwed \cup {p}
      BY <1>t, <1>1, <2>2 DEF LimitTypes, Lim!Holding, LimitOwed, Lim!Acquire
    <3>3. Lim!Gate!Enter(p)
      BY <1>1, <2>1, <2>2, <3>1, <3>2 DEF Lim!Gate!Enter, LimitOwed, Lim!Acquire
    <3> QED BY <3>3 DEF Lim!Gate!Next
  <2>3. CASE /\ inUse >= limitNow /\ waitChs' = Append(waitChs, p)
             /\ place' = [place EXCEPT ![p] = "waiting"] /\ UNCHANGED inUse
    <3>1. LimitOwed' = LimitOwed
      BY <1>t, <1>1, <2>3 DEF LimitTypes, Lim!Holding, LimitOwed, Lim!Acquire
    <3>2. Lim!Gate!Arrive(p)
      BY <1>1, <2>1, <2>3, <3>1 DEF Lim!Gate!Arrive, LimitOwed, Lim!Acquire
    <3> QED BY <3>2 DEF Lim!Gate!Next
  <2> QED BY <1>1, <2>2, <2>3 DEF Lim!Acquire
<1>2. ASSUME NEW p \in Procs, Lim!Receive(p) \/ Lim!CtxDone(p)
      PROVE  UNCHANGED Lim!Gate!gateVars
  <2>1. LimitOwed' = LimitOwed
    BY <1>t, <1>2 DEF LimitTypes, Lim!Holding, LimitOwed, Lim!Receive, Lim!CtxDone
  <2> QED BY <1>2, <2>1 DEF Lim!Receive, Lim!CtxDone, LimitOwed
<1>3. ASSUME NEW p \in Procs, Lim!Abandon(p) PROVE Lim!Gate!Next
  <2>1. CASE \E i \in DOMAIN waitChs : waitChs[i] = p
    <3>1. PICK i \in DOMAIN waitChs : waitChs[i] = p /\ waitChs' = Lim!Without(waitChs, i)
      BY <1>3, <2>1 DEF Lim!Abandon
    <3>2. LimitOwed' = LimitOwed
      BY <1>t, <1>3, <3>1 DEF LimitTypes, LimitQueue, Lim!Holding, LimitOwed, Lim!Abandon
    <3>3. Lim!Gate!GiveUp(i)
      BY <1>3, <3>1, <3>2 DEF Lim!Gate!GiveUp, Lim!Without, LimitOwed, Lim!Abandon
    <3> QED BY <3>1, <3>3 DEF Lim!Gate!Next
  <2>2. CASE \A i \in DOMAIN waitChs : waitChs[i] # p
    <3>1. LimitOwed' = LimitOwed \ {p} /\ waitChs' = waitChs
      BY <1>t, <1>3, <2>2 DEF LimitTypes, Lim!Holding, LimitOwed, Lim!Abandon
    <3>2. Lim!Gate!Lose(p)
      BY <1>3, <3>1 DEF Lim!Gate!Lose, LimitOwed, Lim!Abandon
    <3> QED BY <3>2 DEF Lim!Gate!Next
  <2> QED BY <2>1, <2>2
<1>4. ASSUME NEW p \in Procs, Lim!Release(p) PROVE Lim!Gate!Next
  <2>1. /\ place[p] = "holding" /\ place' = [place EXCEPT ![p] = "idle"] /\ limitNow' \in Int
    BY <1>4, LimitReleaseFacts
  <2>2. PICK k \in 0..Len(waitChs) :
          /\ inUse' = inUse - 1 + k
          /\ k > 0 => inUse' <= limitNow'
          /\ closedChs' = closedChs \cup {waitChs[i] : i \in 1..k}
          /\ waitChs' = SubSeq(waitChs, k + 1, Len(waitChs))
    BY <1>4, LimitReleaseFacts
  <2>3. p \in LimitOwed /\ p \notin closedChs
    BY <1>t, <2>1 DEF LimitQueue, LimitBlocked, LimitOwed, Lim!Holding
  <2>4. p \notin {waitChs[i] : i \in 1..k}
    <3>1. Len(waitChs) \in Nat /\ DOMAIN waitChs = 1..Len(waitChs)
      BY <1>t, LenProperties DEF LimitTypes
    <3> QED BY <1>t, <2>1, <3>1 DEF LimitQueue, LimitBlocked
  <2>5. LimitOwed' = (LimitOwed \ {p}) \cup {waitChs[i] : i \in 1..k}
    <3>1. Lim!Holding' = Lim!Holding \ {p}
      BY <1>t, <2>1 DEF LimitTypes, Lim!Holding
    <3> QED BY <2>2, <2>3, <2>4, <3>1 DEF LimitOwed
  <2>6. Lim!Gate!Serve({p}, k)
    BY <2>1, <2>2, <2>5 DEF Lim!Gate!Serve, LimitOwed
  <2> QED BY <2>3, <2>6 DEF Lim!Gate!Next, LimitOwed
<1>5. CASE UNCHANGED Lim!vars
  BY <1>5 DEF Lim!vars, Lim!Holding
<1> QED BY <1>1, <1>2, <1>3, <1>4, <1>5 DEF Lim!Next

(* The limiter implements the gate, although its limit moves with every    *)
(* Release (limiter.go:42-114).                                            *)
THEOREM LimitRefinement == ASSUME Lim!LimiterAssumption PROVE Lim!Spec => LimiterGate
<1>1. Lim!Init => Lim!Gate!Init
  BY DEF Lim!LimiterAssumption, Lim!Init, Lim!Gate!Init, Lim!Holding
<1>2. LimitInv /\ [Lim!Next]_(Lim!vars) => [Lim!Gate!Next]_(Lim!Gate!gateVars)
  BY LimitGateStep
<1> QED BY <1>1, <1>2, LimitInvariance, PTL
        DEF Lim!Spec, LimiterGate, Lim!LimiterGate, Lim!Gate!Spec

-----------------------------------------------------------------------------
(* DataLoader.  A load that has not begun is nowhere.                      *)
NewElsewhere ==
  \A l \in Loads :
    load[l] = "new" => l \notin pending \cup UNION batches /\ chan[l] = Nothing

(* The inductive invariant.                                                *)
LoaderInv == Loader!LoadsBatchedOnce /\ NewElsewhere

LEMMA LoaderInit ==
  ASSUME Loader!LoaderAssumption, Loader!Init PROVE LoaderInv
BY DEF Loader!LoaderAssumption, Loader!Init, LoaderInv, NewElsewhere,
       Loader!LoadsBatchedOnce, Loader!TypeOK

(* A load, the timer, a batch function and a context preserve it.          *)
LEMMA LoaderStep ==
  ASSUME Loader!LoaderAssumption, LoaderInv, [Loader!Next]_(Loader!vars)
  PROVE  LoaderInv'
<1> USE DEF LoaderInv, NewElsewhere, Loader!LoadsBatchedOnce, Loader!TypeOK,
            Loader!LoaderAssumption
<1>1. ASSUME NEW l \in Loads, Loader!Load(l) PROVE LoaderInv'
  BY <1>1 DEF Loader!Load
<1>2. CASE Loader!ExecuteBatch
  <2>1. /\ pending' = {} /\ timer' = FALSE /\ chan' = chan /\ load' = load
        /\ pending \cup UNION batches = UNION batches'
        /\ \A b \in batches' : b \in batches \/ (b = pending /\ pending # {})
    BY <1>2 DEF Loader!ExecuteBatch
  <2>2. \A b, c \in batches' : b # {} /\ (b # c => b \cap c = {})
    BY <2>1
  <2>3. batches' \subseteq SUBSET Loads
    BY <2>1
  <2> QED BY <2>1, <2>2, <2>3
<1>3. ASSUME NEW b \in batches, NEW found \in SUBSET Keys,
             Loader!BatchReturns(b, found)
      PROVE  LoaderInv'
  BY <1>3 DEF Loader!BatchReturns
<1>4. ASSUME NEW l \in Loads, Loader!Receive(l) PROVE LoaderInv'
  BY <1>4 DEF Loader!Receive
<1>5. ASSUME NEW l \in Loads, Loader!CtxDone(l) PROVE LoaderInv'
  BY <1>5 DEF Loader!CtxDone
<1>6. CASE UNCHANGED Loader!vars
  BY <1>6 DEF Loader!vars
<1> QED BY <1>1, <1>2, <1>3, <1>4, <1>5, <1>6 DEF Loader!Next

(* Every load of a DataLoader is in one place, the timer runs while one is *)
(* pending, and a value goes to the loads of its key                       *)
(* (concurrency.go:299-303, 318-354).                                      *)
THEOREM LoaderSafety ==
  ASSUME Loader!LoaderAssumption PROVE Loader!Spec => []LoadsBatchedOnce
<1>1. Loader!Init => LoaderInv
  BY LoaderInit
<1>2. LoaderInv /\ [Loader!Next]_(Loader!vars) => LoaderInv'
  BY LoaderStep
<1>3. LoaderInv => LoadsBatchedOnce
  BY DEF LoaderInv, LoadsBatchedOnce
<1> QED BY <1>1, <1>2, <1>3, PTL DEF Loader!Spec

-----------------------------------------------------------------------------
(* ParallelForEach.                                                        *)
FanTypes ==
  /\ size3 \in 1..MaxSize /\ bound \in Nat \ {0} /\ ctxDone3 \in BOOLEAN
  /\ next3 \in 1..(size3 + 1) /\ slots \in Nat
  /\ item \in [1..MaxSize -> {"new", "run", "returned", "released", "done"}]
  /\ errs3 \in Seq(1..size3) /\ firstErr3 \in 0..size3

(* The elements before next were started.                                  *)
FanStarted == \A i \in 1..MaxSize : item[i] = "new" <=> i >= next3

FanBusy == Fan!At({"run", "returned"})

FanSlots == slots = Cardinality(FanBusy) /\ slots <= bound

(* Until the call returns errs is empty only while nothing has failed; the *)
(* first error is taken from it after the last goroutine has ended.        *)
FanErrors ==
  /\ \A i \in failed3 : i \in 1..size3 /\ item[i] \notin {"new", "run"}
  /\ \A j \in DOMAIN errs3 : errs3[j] \in failed3
  /\ answer # "done" => (errs3 = <<>> <=> failed3 = {}) /\ firstErr3 = 0
  /\ answer = "done" =>
       /\ next3 = size3 + 1
       /\ \A i \in 1..size3 : item[i] = "done"
       /\ IF failed3 = {} THEN firstErr3 = 0 ELSE firstErr3 \in failed3

(* The inductive invariant.                                                *)
FanInv == FanTypes /\ FanStarted /\ FanSlots /\ FanErrors

LEMMA FanFinite ==
  ASSUME MaxSize \in Nat, NEW S \in SUBSET (1..MaxSize)
  PROVE  IsFiniteSet(S) /\ Cardinality(S) \in Nat
<1>1. IsFiniteSet(1..MaxSize)
  BY FS_Interval
<1> QED BY <1>1, FS_Subset, FS_CardinalityType

(* The call begins with no goroutine and no error.                         *)
LEMMA FanInit ==
  ASSUME Fan!FanoutAssumption, Fan!Init PROVE FanInv
<1> USE DEF Fan!FanoutAssumption, Fan!Init, Fan!Elements
<1>1. FanTypes /\ FanStarted /\ FanErrors
  <2>1. bound \in Nat \ {0}
    <3>0. FanLimits \subseteq Int
      OBVIOUS
    <3>1. PICK l \in FanLimits : bound = IF l <= 0 THEN 1 ELSE l
      OBVIOUS
    <3> QED BY <3>0, <3>1
  <2>2. /\ size3 \in 1..MaxSize /\ ctxDone3 = FALSE /\ next3 = 1 /\ slots = 0
        /\ item = [i \in 1..MaxSize |-> "new"] /\ errs3 = <<>> /\ failed3 = {}
        /\ answer = "new" /\ firstErr3 = 0 /\ MaxSize \in Nat
    OBVIOUS
  <2> HIDE DEF Fan!Init
  <2>3. FanTypes
    <3>1. item \in [1..MaxSize -> {"new", "run", "returned", "released", "done"}]
      BY <2>2
    <3>2. errs3 \in Seq(1..size3)
      BY <2>2
    <3>3. next3 \in 1..(size3 + 1) /\ slots \in Nat /\ firstErr3 \in 0..size3
      BY <2>2
    <3> QED BY <2>1, <2>2, <3>1, <3>2, <3>3 DEF FanTypes
  <2>4. FanStarted
    BY <2>2 DEF FanStarted
  <2>5. FanErrors
    BY <2>2 DEF FanErrors
  <2> QED BY <2>3, <2>4, <2>5
<1>2. FanBusy = {}
  BY DEF FanBusy, Fan!At
<1>3. FanSlots
  BY <1>1, <1>2, FS_EmptySet DEF FanSlots, FanTypes
<1> QED BY <1>1, <1>3 DEF FanInv

(* The loop starts an element with a slot.                                 *)
LEMMA FanSpawn ==
  ASSUME MaxSize \in Nat, FanInv, Fan!Spawn PROVE FanInv'
<1>t. FanTypes /\ FanStarted /\ FanSlots /\ FanErrors
  BY DEF FanInv
<1>1. next3 \in 1..size3 /\ next3 \in 1..MaxSize /\ item[next3] = "new"
  BY <1>t DEF Fan!Spawn, FanTypes, FanStarted
<1>2. /\ slots < bound /\ slots' = slots + 1 /\ next3' = next3 + 1
      /\ item' = [item EXCEPT ![next3] = "run"]
      /\ size3' = size3 /\ bound' = bound /\ ctxDone3' = ctxDone3
      /\ errs3' = errs3 /\ failed3' = failed3
      /\ answer = "running" /\ answer' = answer /\ firstErr3' = firstErr3
  BY DEF Fan!Spawn, Fan!HasSlot
<1>3. FanTypes'
  BY <1>t, <1>1, <1>2 DEF FanTypes
<1>4. FanStarted' /\ FanErrors'
  BY <1>t, <1>1, <1>2 DEF FanTypes, FanStarted, FanErrors
<1>5. FanSlots'
  <2>1. FanBusy' = FanBusy \cup {next3} /\ next3 \notin FanBusy
    BY <1>t, <1>1, <1>2 DEF FanBusy, Fan!At, Fan!Elements, FanTypes
  <2>2. IsFiniteSet(FanBusy)
    BY FanFinite DEF FanBusy, Fan!At, Fan!Elements
  <2>3. Cardinality(FanBusy') = Cardinality(FanBusy) + 1
    BY <2>1, <2>2, FS_AddElement
  <2> QED BY <1>t, <1>2, <2>3 DEF FanSlots, FanTypes
<1> QED BY <1>3, <1>4, <1>5 DEF FanInv

(* A function returns: its error finds room in errs, or errs is full and   *)
(* thus not empty.                                                         *)
LEMMA FanReturns ==
  ASSUME MaxSize \in Nat, FanInv, NEW i \in 1..MaxSize, NEW err \in BOOLEAN,
         Fan!FnReturns(i, err)
  PROVE  FanInv'
<1>t. FanTypes /\ FanStarted /\ FanSlots /\ FanErrors
  BY DEF FanInv
<1>1. /\ item[i] = "run" /\ item' = [item EXCEPT ![i] = "returned"]
      /\ failed3' = IF err THEN failed3 \cup {i} ELSE failed3
      /\ errs3' = IF err /\ Len(errs3) < size3 THEN Append(errs3, i) ELSE errs3
      /\ size3' = size3 /\ bound' = bound /\ ctxDone3' = ctxDone3
      /\ next3' = next3 /\ slots' = slots
      /\ answer' = answer /\ firstErr3' = firstErr3
  BY DEF Fan!FnReturns
<1>2. i \in 1..size3 /\ answer # "done"
  BY <1>t, <1>1 DEF FanTypes, FanStarted, FanErrors
<1>3. FanTypes' /\ FanStarted'
  <2>1. item' \in [1..MaxSize -> {"new", "run", "returned", "released", "done"}]
    BY <1>t, <1>1 DEF FanTypes
  <2>2. errs3' \in Seq(1..size3)
    BY <1>t, <1>1, <1>2, AppendProperties DEF FanTypes
  <2>3. FanTypes'
    BY <1>t, <1>1, <2>1, <2>2 DEF FanTypes
  <2>4. \A k \in 1..MaxSize : item'[k] = "new" <=> item[k] = "new"
    BY <1>t, <1>1 DEF FanTypes
  <2> QED BY <1>t, <1>1, <2>3, <2>4 DEF FanStarted
<1>4. FanBusy' = FanBusy
  BY <1>t, <1>1 DEF FanBusy, Fan!At, Fan!Elements, FanTypes
<1>5. FanErrors'
  <2>1. \A k \in failed3' : k \in 1..size3 /\ item'[k] \notin {"new", "run"}
    BY <1>t, <1>1, <1>2 DEF FanTypes, FanErrors
  <2>2. \A j \in DOMAIN errs3' : errs3'[j] \in failed3'
    BY <1>t, <1>1 DEF FanTypes, FanErrors
  <2>3. errs3' = <<>> <=> failed3' = {}
    <3>1. /\ errs3 \in Seq(1..size3) /\ size3 \in Nat \ {0}
          /\ errs3 = <<>> <=> failed3 = {}
      BY <1>t, <1>2 DEF FanTypes, FanErrors
    <3>2. CASE err /\ Len(errs3) < size3
      <4>1. errs3' = Append(errs3, i) /\ failed3' = failed3 \cup {i}
        BY <1>1, <3>2
      <4> QED BY <1>2, <3>1, <4>1, AppendProperties, EmptySeq
    <3>3. CASE err /\ ~(Len(errs3) < size3)
      <4>1. errs3' = errs3 /\ failed3' = failed3 \cup {i}
        BY <1>1, <3>3
      <4>2. errs3 # <<>>
        BY <3>1, <3>3, EmptySeq
      <4> QED BY <4>1, <4>2
    <3>4. CASE ~err
      BY <1>1, <3>1, <3>4
    <3> QED BY <3>2, <3>3, <3>4
  <2> QED BY <1>t, <1>1, <1>2, <2>1, <2>2, <2>3 DEF FanErrors
<1> QED BY <1>t, <1>1, <1>3, <1>4, <1>5 DEF FanInv, FanSlots

(* A goroutine gives its slot back and ends.                               *)
LEMMA FanEnds ==
  ASSUME MaxSize \in Nat, FanInv, NEW i \in 1..MaxSize,
         Fan!FreeSlot(i) \/ Fan!Done(i)
  PROVE  FanInv'
<1>t. FanTypes /\ FanStarted /\ FanSlots /\ FanErrors
  BY DEF FanInv
<1>1. /\ size3' = size3 /\ bound' = bound /\ ctxDone3' = ctxDone3
      /\ next3' = next3 /\ errs3' = errs3 /\ failed3' = failed3
      /\ answer' = answer /\ firstErr3' = firstErr3
  BY DEF Fan!FreeSlot, Fan!Done
<1>2. FanStarted' /\ FanErrors'
  <2>1. \A k \in 1..MaxSize :
          /\ item'[k] = "new" <=> item[k] = "new"
          /\ item'[k] = "run" <=> item[k] = "run"
          /\ item[k] = "done" => item'[k] = "done"
    BY <1>t DEF FanTypes, Fan!FreeSlot, Fan!Done
  <2> QED BY <1>t, <1>1, <2>1 DEF FanTypes, FanStarted, FanErrors
<1>3. CASE Fan!FreeSlot(i)
  <2>1. /\ item[i] = "returned" /\ slots' = slots - 1
        /\ item' = [item EXCEPT ![i] = "released"]
    BY <1>3 DEF Fan!FreeSlot
  <2>2. FanBusy' = FanBusy \ {i} /\ i \in FanBusy
    BY <1>t, <2>1 DEF FanBusy, Fan!At, Fan!Elements, FanTypes
  <2>3. IsFiniteSet(FanBusy) /\ FanBusy' \in SUBSET (1..MaxSize)
    BY <2>2, FanFinite DEF FanBusy, Fan!At, Fan!Elements
  <2>4. /\ Cardinality(FanBusy') = Cardinality(FanBusy) - 1
        /\ Cardinality(FanBusy') \in Nat
    BY <2>2, <2>3, FanFinite, FS_RemoveElement
  <2>5. FanSlots' /\ slots' \in Nat
    BY <1>t, <1>1, <2>1, <2>4 DEF FanSlots, FanTypes
  <2>6. FanTypes'
    BY <1>t, <1>1, <2>1, <2>5 DEF FanTypes
  <2> QED BY <1>2, <2>5, <2>6 DEF FanInv
<1>4. CASE Fan!Done(i)
  <2>1. /\ item[i] = "released" /\ slots' = slots
        /\ item' = [item EXCEPT ![i] = "done"]
    BY <1>4 DEF Fan!Done
  <2>2. FanBusy' = FanBusy
    BY <1>t, <2>1 DEF FanBusy, Fan!At, Fan!Elements, FanTypes
  <2>3. FanTypes'
    BY <1>t, <1>1, <2>1 DEF FanTypes
  <2> QED BY <1>t, <1>1, <1>2, <2>1, <2>2, <2>3 DEF FanInv, FanSlots
<1> QED BY <1>3, <1>4

(* The call returns once every element is done, with the first of errs.    *)
LEMMA FanReturn ==
  ASSUME MaxSize \in Nat, FanInv, Fan!Return PROVE FanInv'
<1>t. FanTypes /\ FanStarted /\ FanSlots /\ FanErrors
  BY DEF FanInv
<1>1. /\ answer = "running" /\ answer' = "done" /\ next3 = size3 + 1
      /\ \A i \in 1..size3 : item[i] = "done"
      /\ size3' = size3 /\ bound' = bound /\ ctxDone3' = ctxDone3
      /\ next3' = next3 /\ slots' = slots /\ item' = item /\ failed3' = failed3
  BY <1>t DEF Fan!Return, FanTypes
<1>2. FanBusy' = FanBusy
  BY <1>1 DEF FanBusy, Fan!At, Fan!Elements
<1>3. CASE errs3 = <<>>
  <2>1. errs3' = errs3 /\ firstErr3' = firstErr3
    BY <1>3 DEF Fan!Return
  <2> QED BY <1>t, <1>1, <1>2, <1>3, <2>1
          DEF FanInv, FanTypes, FanStarted, FanSlots, FanErrors
<1>4. CASE errs3 # <<>>
  <2>1. firstErr3' = Head(errs3) /\ errs3' = Tail(errs3)
    BY <1>4 DEF Fan!Return
  <2>2. /\ Head(errs3) \in failed3 /\ Head(errs3) \in 1..size3
        /\ Tail(errs3) \in Seq(1..size3)
        /\ \A j \in DOMAIN Tail(errs3) : Tail(errs3)[j] \in failed3
    <3>1. /\ errs3 \in Seq(1..size3) /\ Len(errs3) \in Nat \ {0}
          /\ DOMAIN errs3 = 1..Len(errs3)
      BY <1>t, <1>4, EmptySeq, LenProperties DEF FanTypes
    <3>2. /\ Head(errs3) = errs3[1] /\ 1 \in DOMAIN errs3
          /\ Tail(errs3) \in Seq(1..size3)
          /\ \A j \in DOMAIN Tail(errs3) :
               j + 1 \in DOMAIN errs3 /\ Tail(errs3)[j] = errs3[j + 1]
      BY <1>4, <3>1, HeadTailProperties
    <3> QED BY <1>t, <3>1, <3>2 DEF FanErrors
  <2>3. FanTypes'
    BY <1>t, <1>1, <2>1, <2>2 DEF FanTypes
  <2>4. FanErrors'
    BY <1>t, <1>1, <2>1, <2>2 DEF FanErrors
  <2> QED BY <1>t, <1>1, <1>2, <2>3, <2>4 DEF FanInv, FanStarted, FanSlots
<1> QED BY <1>3, <1>4

LEMMA FanStep ==
  ASSUME Fan!FanoutAssumption, FanInv, [Fan!Next]_(Fan!vars) PROVE FanInv'
<1>1. MaxSize \in Nat /\ Fan!Elements = 1..MaxSize
  BY DEF Fan!FanoutAssumption, Fan!Elements
<1>2. CASE Fan!Call \/ Fan!CtxDone \/ Fan!GiveUp
  <2>1. /\ answer # "done" \/ answer' = answer
        /\ answer' # "done" \/ answer' = answer
        /\ ctxDone3' \in BOOLEAN \/ ctxDone3' = ctxDone3
        /\ size3' = size3 /\ bound' = bound /\ next3' = next3 /\ slots' = slots
        /\ item' = item /\ errs3' = errs3 /\ failed3' = failed3
        /\ firstErr3' = firstErr3
    BY <1>2 DEF Fan!Call, Fan!CtxDone, Fan!GiveUp
  <2>2. FanBusy' = FanBusy
    BY <2>1 DEF FanBusy, Fan!At, Fan!Elements
  <2> QED BY <2>1, <2>2 DEF FanInv, FanTypes, FanStarted, FanSlots, FanErrors
<1>3. CASE UNCHANGED Fan!vars
  BY <1>3 DEF Fan!vars, FanInv, FanTypes, FanStarted, FanSlots, FanErrors,
              FanBusy, Fan!At, Fan!Elements
<1> QED BY <1>1, <1>2, <1>3, FanSpawn, FanReturns, FanEnds, FanReturn
        DEF Fan!Next, Fan!Goroutine

(* ParallelForEach keeps to its limit; it returns without an error only    *)
(* when every element was run and none has failed (concurrency.go:55-94).  *)
THEOREM FanoutSafety ==
  ASSUME Fan!FanoutAssumption PROVE Fan!Spec => []FanoutSound
<1>1. Fan!Init => FanInv
  BY FanInit
<1>2. FanInv /\ [Fan!Next]_(Fan!vars) => FanInv'
  BY FanStep
<1>3. ASSUME FanInv PROVE FanoutSound
  <2>t. FanTypes /\ FanStarted /\ FanSlots /\ FanErrors
    BY <1>3 DEF FanInv
  <2>1. Fan!TypeOK
    BY <2>t DEF FanTypes, Fan!TypeOK, Fan!Elements
  <2>2. slots = Fan!Cardinality(Fan!At({"run", "returned"})) /\ slots <= bound
    BY <2>t DEF FanSlots, FanBusy, Fan!Cardinality, Cardinality
  <2>3. answer = "done" => Fan!At({"done"}) = 1..size3
    <3> HAVE answer = "done"
    <3>1. /\ size3 \in 1..MaxSize /\ next3 = size3 + 1
          /\ \A i \in 1..size3 : item[i] = "done"
          /\ \A i \in 1..MaxSize : item[i] = "done" => i < next3
      BY <2>t DEF FanTypes, FanStarted, FanErrors
    <3>2. MaxSize \in Nat /\ size3 \in Nat /\ size3 <= MaxSize
      BY <3>1 DEF Fan!FanoutAssumption
    <3>3. \A i \in 1..MaxSize : item[i] = "done" <=> i \in 1..size3
      BY <3>1, <3>2
    <3>4. 1..size3 \subseteq 1..MaxSize
      BY <3>2
    <3>5. Fan!At({"done"}) = {i \in 1..MaxSize : item[i] = "done"}
      BY DEF Fan!At, Fan!Elements
    <3> QED BY <3>3, <3>4, <3>5
  <2> QED BY <2>t, <2>1, <2>2, <2>3 DEF FanErrors, FanoutSound, Fan!FanoutSound
<1> QED BY <1>1, <1>2, <1>3, PTL DEF Fan!Spec

-----------------------------------------------------------------------------
(* Process.  A record [at |-> place, task |-> i, late |-> b] per worker.   *)
ProcessTypes ==
  /\ size \in 1..MaxInputs /\ next \in 1..(size + 1)
  /\ results \in Seq([task : 1..size, failed : BOOLEAN])
  /\ worker \in [1..NumWorkers ->
                   [at : {"unborn", "select", "took", "limit", "map", "done"},
                    task : 0..size, late : BOOLEAN]]
  /\ outputs \in SUBSET (1..size) /\ collected \in SUBSET (1..size)
  /\ firstErr \in 0..size
  /\ pooled \in [1..MaxInputs -> 0..1]
  /\ result \in {"running", "outputs", "error"}

InHand(w) == worker[w].at \in {"took", "limit", "map"}

(* A task that was taken from tasksCh is with one worker, in resultsCh     *)
(* once, or back in the pool, and never in two of these places.            *)
TasksApart ==
  /\ \A w \in 1..NumWorkers :
       InHand(w) => worker[w].task \in 1..(next - 1) /\ pooled[worker[w].task] = 0
  /\ \A w, v \in 1..NumWorkers :
       InHand(w) /\ InHand(v) /\ worker[w].task = worker[v].task => w = v
  /\ \A j \in DOMAIN results :
       /\ results[j].task \in 1..(next - 1) /\ pooled[results[j].task] = 0
       /\ \A w \in 1..NumWorkers : InHand(w) => worker[w].task # results[j].task
  /\ \A j, k \in DOMAIN results : results[j].task = results[k].task => j = k
  /\ \A i \in next..size : pooled[i] = 0

TasksKept ==
  \A i \in 1..(next - 1) :
    \/ pooled[i] = 1
    \/ \E w \in 1..NumWorkers : InHand(w) /\ worker[w].task = i
    \/ \E j \in DOMAIN results : results[j].task = i

(* The workers start together and all have ended when Process returns; one *)
(* ends before the last task is taken only if the run is over, which it is *)
(* not by cancel() unless there is a first error.                          *)
WorkersRun ==
  /\ worker[1].at = "unborn" => \A w \in 1..NumWorkers : worker[w].at = "unborn"
  /\ result # "running" =>
       \/ \A w \in 1..NumWorkers : worker[w].at = "unborn"
       \/ \A w \in 1..NumWorkers : worker[w].at = "done"
  /\ result = "running" /\ worker[1].at = "done" => ctxDone \/ cancelled \/ next > size
  /\ result = "running" /\ cancelled => firstErr # 0
  /\ \A w \in 1..NumWorkers :
       worker[w].late => (ctxDone \/ cancelled) /\ worker[w].at \notin {"limit", "map"}

(* What was collected is in the answer.                                    *)
Answered ==
  /\ result = "running" =>
       \A i \in 1..size :
         pooled[i] = 1 => i \in outputs \/ firstErr # 0 \/ collected # {}
  /\ result # "running" /\ worker[1].at # "unborn" => \A i \in 1..size : pooled[i] = 1
  /\ result = "outputs" => outputs = 1..size

(* The inductive invariant.                                                *)
ProcessInv == ProcessTypes /\ TasksApart /\ TasksKept /\ WorkersRun /\ Answered

LEMMA ProcessInit ==
  ASSUME Process!ProcessAssumption, Process!Init PROVE ProcessInv
<1> USE DEF Process!ProcessAssumption, Process!Init, Process!At, Process!Workers
<1>1. /\ size \in 1..MaxInputs /\ next = 1 /\ results = <<>> /\ cancelled = FALSE
      /\ worker = [w \in 1..NumWorkers |-> [at |-> "unborn", task |-> 0, late |-> FALSE]]
      /\ outputs = {} /\ firstErr = 0 /\ collected = {}
      /\ pooled = [i \in 1..MaxInputs |-> 0] /\ result = "running"
      /\ NumWorkers \in Nat \ {0} /\ MaxInputs \in Nat
  OBVIOUS
<1> HIDE DEF Process!Init
<1>2. ProcessTypes
  BY <1>1 DEF ProcessTypes
<1>3. /\ worker[1].at = "unborn" /\ DOMAIN results = {}
      /\ \A w \in 1..NumWorkers : worker[w].at = "unborn" /\ ~worker[w].late /\ ~InHand(w)
  BY <1>1 DEF InHand
<1>4. TasksApart /\ TasksKept
  BY <1>1, <1>3 DEF TasksApart, TasksKept
<1>5. WorkersRun /\ Answered
  BY <1>1, <1>3 DEF WorkersRun, Answered
<1> QED BY <1>2, <1>4, <1>5 DEF ProcessInv

(* Steps that move no task keep the tasks apart and kept.                  *)
LEMMA TasksStand ==
  ASSUME ProcessInv, next' = next, size' = size, results' = results, pooled' = pooled,
         \A w \in 1..NumWorkers :
           /\ InHand(w)' <=> InHand(w)
           /\ InHand(w) => worker'[w].task = worker[w].task
  PROVE  TasksApart' /\ TasksKept'
<1>1. TasksApart /\ TasksKept
  BY DEF ProcessInv
<1>2. TasksApart'
  <2>1. \A w \in 1..NumWorkers :
          InHand(w)' => worker'[w].task \in 1..(next' - 1) /\ pooled'[worker'[w].task] = 0
    BY <1>1 DEF TasksApart
  <2>2. \A w, v \in 1..NumWorkers :
          InHand(w)' /\ InHand(v)' /\ worker'[w].task = worker'[v].task => w = v
    BY <1>1 DEF TasksApart
  <2>3. \A j \in DOMAIN results' :
          /\ results'[j].task \in 1..(next' - 1) /\ pooled'[results'[j].task] = 0
          /\ \A w \in 1..NumWorkers : InHand(w)' => worker'[w].task # results'[j].task
    BY <1>1 DEF TasksApart
  <2> QED BY <1>1, <2>1, <2>2, <2>3 DEF TasksApart
<1>3. TasksKept'
  BY <1>1 DEF TasksKept
<1> QED BY <1>2, <1>3

(* A worker sends the result of the task in its hand to resultsCh.         *)
LEMMA TaskSent ==
  ASSUME ProcessInv, NEW w \in 1..NumWorkers, NEW f \in BOOLEAN, InHand(w),
         results' = Append(results, [task |-> worker[w].task, failed |-> f]),
         ~InHand(w)',
         \A v \in 1..NumWorkers : v # w => worker'[v] = worker[v],
         next' = next, size' = size, pooled' = pooled
  PROVE  /\ results' \in Seq([task : 1..size, failed : BOOLEAN])
         /\ TasksApart' /\ TasksKept'
<1>1. TasksApart /\ TasksKept
  BY DEF ProcessInv
<1>2. PICK i : i = worker[w].task
  OBVIOUS
<1>3. PICK n : n = Len(results)
  OBVIOUS
<1>4. i \in 1..(next - 1) /\ i \in 1..size /\ pooled[i] = 0
  BY <1>1, <1>2 DEF TasksApart, ProcessInv, ProcessTypes
<1>5. n \in Nat /\ DOMAIN results = 1..n /\ results \in Seq([task : 1..size, failed : BOOLEAN])
  BY <1>3, LenProperties DEF ProcessInv, ProcessTypes
<1>6. [task |-> i, failed |-> f] \in [task : 1..size, failed : BOOLEAN]
  BY <1>4
<1>7. /\ results' \in Seq([task : 1..size, failed : BOOLEAN])
      /\ DOMAIN results' = 1..(n + 1)
      /\ \A j \in 1..n : results'[j] = results[j]
      /\ results'[n + 1] = [task |-> i, failed |-> f]
  BY <1>2, <1>3, <1>5, <1>6, AppendProperties
<1>8. results'[n + 1].task = i
  <2>1. [task |-> i, failed |-> f].task = i
    OBVIOUS
  <2> QED BY <1>7, <2>1
<1>9. \A v \in 1..NumWorkers : InHand(v)' => v # w /\ InHand(v) /\ worker'[v].task = worker[v].task
  BY DEF InHand
<1>10. TasksApart'
  <2>1. \A v \in 1..NumWorkers :
          InHand(v)' => worker'[v].task \in 1..(next' - 1) /\ pooled'[worker'[v].task] = 0
    BY <1>1, <1>9 DEF TasksApart
  <2>2. \A u, v \in 1..NumWorkers :
          InHand(u)' /\ InHand(v)' /\ worker'[u].task = worker'[v].task => u = v
    BY <1>1, <1>9 DEF TasksApart
  <2>3. ASSUME NEW j \in 1..(n + 1)
        PROVE  /\ results'[j].task \in 1..(next' - 1) /\ pooled'[results'[j].task] = 0
               /\ \A v \in 1..NumWorkers : InHand(v)' => worker'[v].task # results'[j].task
    <3>1. CASE j = n + 1
      <4>1. results'[j].task = i
        BY <1>8, <3>1
      <4>2. \A v \in 1..NumWorkers : InHand(v)' => worker'[v].task # i
        BY <1>1, <1>2, <1>9 DEF TasksApart
      <4> QED BY <1>4, <4>1, <4>2
    <3>2. CASE j \in 1..n
      <4>1. results'[j] = results[j]
        BY <1>7, <3>2
      <4> QED BY <1>1, <1>5, <1>9, <3>2, <4>1 DEF TasksApart
    <3> QED BY <1>5, <3>1, <3>2
  <2>4. ASSUME NEW j \in 1..(n + 1), NEW k \in 1..(n + 1),
               results'[j].task = results'[k].task
        PROVE  j = k
    <3>1. \A l \in 1..n : results'[l].task = results[l].task /\ results[l].task # i
      BY <1>1, <1>2, <1>5, <1>7 DEF TasksApart
    <3>2. \A l, o \in 1..n : results[l].task = results[o].task => l = o
      BY <1>1, <1>5 DEF TasksApart
    <3>3. j \in 1..n \/ j = n + 1
      BY <1>5
    <3>4. k \in 1..n \/ k = n + 1
      BY <1>5
    <3> QED BY <1>8, <2>4, <3>1, <3>2, <3>3, <3>4
  <2> QED BY <1>1, <1>7, <2>1, <2>2, <2>3, <2>4 DEF TasksApart
<1>11. TasksKept'
  <2> SUFFICES ASSUME NEW l \in 1..(next - 1)
               PROVE  \/ pooled[l] = 1
                      \/ \E v \in 1..NumWorkers : InHand(v)' /\ worker'[v].task = l
                      \/ \E j \in 1..(n + 1) : results'[j].task = l
    BY <1>7 DEF TasksKept
  <2>1. CASE pooled[l] = 1
    BY <2>1
  <2>2. CASE l = i
    <3>1. n + 1 \in 1..(n + 1)
      BY <1>5
    <3> QED BY <1>8, <2>2, <3>1
  <2>3. ASSUME NEW v \in 1..NumWorkers, InHand(v), worker[v].task = l, l # i
        PROVE  InHand(v)' /\ worker'[v].task = l
    BY <1>2, <2>3 DEF InHand
  <2>4. ASSUME NEW j \in 1..n, results[j].task = l
        PROVE  j \in 1..(n + 1) /\ results'[j].task = l
    BY <1>5, <1>7, <2>4
  <2> QED BY <1>1, <1>5, <2>1, <2>2, <2>3, <2>4 DEF TasksKept
<1> QED BY <1>7, <1>10, <1>11

(* The context is done, or Process starts its workers.                     *)
LEMMA ProcessStart ==
  ASSUME Process!ProcessAssumption, ProcessInv, Process!CtxDone \/ Process!Start
  PROVE  ProcessInv'
<1>t. ProcessTypes /\ TasksApart /\ TasksKept /\ WorkersRun /\ Answered
  BY DEF ProcessInv
<1>1. /\ size' = size /\ next' = next /\ results' = results /\ pooled' = pooled
      /\ outputs' = outputs /\ firstErr' = firstErr /\ collected' = collected
  BY DEF Process!CtxDone, Process!Start, Process!config, Process!collector
<1>2. CASE Process!CtxDone
  <2>1. ctxDone' = TRUE /\ cancelled' = cancelled /\ worker' = worker /\ result' = result
    BY <1>2 DEF Process!CtxDone, Process!collector
  <2>2. TasksApart' /\ TasksKept'
    BY <1>1, <2>1, TasksStand DEF InHand
  <2>3. ProcessTypes' /\ WorkersRun' /\ Answered'
    BY <1>t, <1>1, <2>1 DEF ProcessTypes, WorkersRun, Answered
  <2> QED BY <2>2, <2>3 DEF ProcessInv
<1>3. CASE Process!Start
  <2>1. /\ worker[1].at = "unborn" /\ result = "running" /\ ctxDone' = ctxDone
        /\ \A w \in 1..NumWorkers : worker[w].at = "unborn" /\ ~InHand(w)
    BY <1>t, <1>3 DEF Process!Start, WorkersRun, InHand
  <2>2. CASE Process!RunDone
    <3>1. result' = "error" /\ cancelled' = TRUE /\ worker' = worker
      BY <1>3, <2>2 DEF Process!Start
    <3>2. TasksApart' /\ TasksKept'
      BY <1>1, <3>1, TasksStand DEF InHand
    <3>3. ProcessTypes' /\ WorkersRun' /\ Answered'
      BY <1>t, <1>1, <2>1, <2>2, <3>1
         DEF ProcessTypes, WorkersRun, Answered, Process!RunDone
    <3> QED BY <3>2, <3>3 DEF ProcessInv
  <2>3. CASE ~Process!RunDone
    <3>1. /\ cancelled' = cancelled /\ result' = result
          /\ worker' = [w \in 1..NumWorkers |->
                          [at |-> IF w <= size THEN "select" ELSE "done",
                           task |-> 0, late |-> FALSE]]
      BY <1>3, <2>3 DEF Process!Start, Process!At, Process!Workers
    <3>2. /\ \A w \in 1..NumWorkers :
               /\ worker'[w].at \in {"select", "done"} /\ ~worker'[w].late
               /\ ~InHand(w)'
          /\ worker'[1].at = "select"
      BY <1>t, <3>1 DEF InHand, ProcessTypes, Process!ProcessAssumption
    <3>3. TasksApart' /\ TasksKept'
      BY <1>1, <2>1, <3>2, TasksStand
    <3>4. worker' \in [1..NumWorkers ->
                   [at : {"unborn", "select", "took", "limit", "map", "done"},
                    task : 0..size, late : BOOLEAN]]
      <4>1. 0 \in 0..size
        BY <1>t DEF ProcessTypes
      <4> QED BY <3>1, <4>1
    <3>5. ProcessTypes'
      BY <1>t, <1>1, <3>1, <3>4 DEF ProcessTypes
    <3>6. WorkersRun' /\ Answered'
      BY <1>t, <1>1, <2>1, <3>1, <3>2 DEF WorkersRun, Answered
    <3> QED BY <3>3, <3>5, <3>6 DEF ProcessInv
  <2> QED BY <2>2, <2>3
<1> QED BY <1>2, <1>3

(* A worker takes part only while Process runs.                            *)
LEMMA WorkersBusy ==
  ASSUME ProcessInv, NEW w \in 1..NumWorkers, worker[w].at \notin {"unborn", "done"},
         Process!ProcessAssumption
  PROVE  result = "running" /\ worker[1].at # "unborn"
BY DEF ProcessInv, WorkersRun, Process!ProcessAssumption

(* A worker that changes places keeps its task.                            *)
LEMMA MoveFacts ==
  ASSUME ProcessTypes, NEW w \in 1..NumWorkers,
         NEW stage \in {"select", "limit", "map", "done"},
         worker' = [worker EXCEPT ![w].at = stage], size' = size
  PROVE  /\ worker'[w].at = stage /\ worker'[w].task = worker[w].task
         /\ worker'[w].late = worker[w].late
         /\ \A v \in 1..NumWorkers : v # w => worker'[v] = worker[v]
         /\ worker' \in [1..NumWorkers ->
                   [at : {"unborn", "select", "took", "limit", "map", "done"},
                    task : 0..size', late : BOOLEAN]]
BY DEF ProcessTypes

(* Whatever a worker does, the collector is not disturbed by it.           *)
LEMMA ProcessMoves ==
  ASSUME Process!ProcessAssumption, ProcessInv, NEW w \in 1..NumWorkers,
         worker[w].at \notin {"unborn", "done"},
         NEW stage \in {"select", "limit", "map", "done"},
         worker' = [worker EXCEPT ![w].at = stage],
         stage = "done" => ctxDone \/ cancelled \/ next > size,
         stage \in {"limit", "map"} => ~worker[w].late,
         results' \in Seq([task : 1..size, failed : BOOLEAN]),
         TasksApart', TasksKept',
         size' = size, next' = next, ctxDone' = ctxDone, cancelled' = cancelled,
         outputs' = outputs, firstErr' = firstErr, collected' = collected,
         pooled' = pooled, result' = result
  PROVE  ProcessInv'
<1>t. ProcessTypes /\ WorkersRun /\ Answered
  BY DEF ProcessInv
<1>1. result = "running" /\ worker[1].at # "unborn"
  BY WorkersBusy
<1>2. /\ worker'[w].at = stage /\ worker'[w].late = worker[w].late
      /\ \A v \in 1..NumWorkers : v # w => worker'[v] = worker[v]
      /\ worker' \in [1..NumWorkers ->
                [at : {"unborn", "select", "took", "limit", "map", "done"},
                 task : 0..size', late : BOOLEAN]]
  BY <1>t, MoveFacts
<1>3. ProcessTypes'
  BY <1>t, <1>2 DEF ProcessTypes
<1>4. WorkersRun'
  <2>1. worker'[1].at # "unborn"
    BY <1>1, <1>2 DEF Process!ProcessAssumption
  <2>2. worker'[1].at = "done" => ctxDone \/ cancelled \/ next > size
    BY <1>t, <1>1, <1>2 DEF WorkersRun, Process!ProcessAssumption
  <2>3. \A v \in 1..NumWorkers :
          worker'[v].late => (ctxDone \/ cancelled) /\ worker'[v].at \notin {"limit", "map"}
    BY <1>t, <1>2 DEF WorkersRun
  <2> QED BY <1>t, <1>1, <2>1, <2>2, <2>3 DEF WorkersRun
<1>5. Answered'
  BY <1>t, <1>1 DEF Answered
<1> QED BY <1>3, <1>4, <1>5 DEF ProcessInv

(* A worker leaves its select, or takes the next task.                     *)
LEMMA ProcessTakes ==
  ASSUME Process!ProcessAssumption, ProcessInv, NEW w \in 1..NumWorkers,
         Process!Leave(w) \/ Process!Take(w)
  PROVE  ProcessInv'
<1>t. ProcessTypes /\ TasksApart /\ TasksKept /\ WorkersRun /\ Answered
  BY DEF ProcessInv
<1>1. /\ worker[w].at = "select" /\ ~InHand(w)
      /\ size' = size /\ ctxDone' = ctxDone /\ cancelled' = cancelled
      /\ results' = results /\ outputs' = outputs /\ firstErr' = firstErr
      /\ collected' = collected /\ pooled' = pooled /\ result' = result
  BY DEF Process!Leave, Process!Take, Process!config, Process!collector, InHand
<1>2. CASE Process!Leave(w)
  <2>1. /\ worker' = [worker EXCEPT ![w].at = "done"] /\ next' = next
        /\ ctxDone \/ cancelled \/ next > size
    BY <1>2 DEF Process!Leave, Process!Move, Process!RunDone
  <2>2. \A v \in 1..NumWorkers :
          /\ InHand(v)' <=> InHand(v)
          /\ InHand(v) => worker'[v].task = worker[v].task
    BY <1>t, <1>1, <2>1, MoveFacts DEF InHand
  <2>3. TasksApart' /\ TasksKept'
    BY <1>1, <2>1, <2>2, TasksStand
  <2>4. results' \in Seq([task : 1..size, failed : BOOLEAN])
    BY <1>t, <1>1 DEF ProcessTypes
  <2> QED BY <1>1, <2>1, <2>3, <2>4, ProcessMoves
<1>3. CASE Process!Take(w)
  <2>1. /\ next \in 1..size /\ next' = next + 1
        /\ worker' = [worker EXCEPT ![w] = [at |-> "took", task |-> next,
                                            late |-> ctxDone \/ cancelled]]
    BY <1>t, <1>3 DEF Process!Take, Process!At, Process!RunDone, ProcessTypes
  <2>2. PICK late : late = (ctxDone \/ cancelled) /\ late \in BOOLEAN
    OBVIOUS
  <2>3. [at |-> "took", task |-> next, late |-> late] \in
          [at : {"unborn", "select", "took", "limit", "map", "done"},
           task : 0..size, late : BOOLEAN]
    BY <2>1, <2>2
  <2>4. /\ worker' \in [1..NumWorkers ->
             [at : {"unborn", "select", "took", "limit", "map", "done"},
              task : 0..size, late : BOOLEAN]]
        /\ worker'[w] = [at |-> "took", task |-> next, late |-> late]
        /\ \A v \in 1..NumWorkers : v # w => worker'[v] = worker[v]
    <3>1. worker' = [worker EXCEPT ![w] = [at |-> "took", task |-> next, late |-> late]]
      BY <2>1, <2>2
    <3> HIDE <2>1
    <3> QED BY <1>t, <2>3, <3>1 DEF ProcessTypes
  <2>5. worker'[w].at = "took" /\ worker'[w].task = next /\ worker'[w].late = late
    BY <2>4
  <2>6. /\ InHand(w)'
        /\ \A v \in 1..NumWorkers : v # w /\ InHand(v)' => InHand(v) /\ worker'[v] = worker[v]
        /\ \A v \in 1..NumWorkers : InHand(v) => InHand(v)' /\ worker'[v] = worker[v] /\ v # w
    BY <1>1, <2>4, <2>5 DEF InHand
  <2>7. next \in Nat /\ size \in Nat /\ next' - 1 = next
    <3>1. size \in Nat
      BY <1>t DEF ProcessTypes, Process!ProcessAssumption
    <3> QED BY <2>1, <3>1
  <2>8. TasksApart'
    <3>1. \A v \in 1..NumWorkers :
            InHand(v)' => worker'[v].task \in 1..(next' - 1) /\ pooled[worker'[v].task] = 0
      BY <1>t, <2>1, <2>5, <2>6, <2>7 DEF TasksApart
    <3>2. \A v \in 1..NumWorkers : InHand(v) => worker[v].task # next
      BY <1>t, <2>7 DEF TasksApart
    <3>3. \A u, v \in 1..NumWorkers :
            InHand(u)' /\ InHand(v)' /\ worker'[u].task = worker'[v].task => u = v
      BY <1>t, <2>5, <2>6, <3>2 DEF TasksApart
    <3>4. \A j \in DOMAIN results :
            /\ results[j].task \in 1..(next' - 1) /\ results[j].task # next
            /\ pooled[results[j].task] = 0
      BY <1>t, <2>7 DEF TasksApart
    <3>5. \A j \in DOMAIN results, v \in 1..NumWorkers :
            InHand(v)' => worker'[v].task # results[j].task
      BY <1>t, <2>5, <2>6, <3>4 DEF TasksApart
    <3>6. \A i \in next'..size : pooled[i] = 0
      BY <1>t, <2>1, <2>7 DEF TasksApart
    <3>7. \A j, k \in DOMAIN results : results[j].task = results[k].task => j = k
      BY <1>t DEF TasksApart
    <3> QED BY <1>1, <3>1, <3>3, <3>4, <3>5, <3>6, <3>7 DEF TasksApart
  <2>9. TasksKept'
    <3> SUFFICES ASSUME NEW i \in 1..next
                 PROVE  \/ pooled[i] = 1
                        \/ \E v \in 1..NumWorkers : InHand(v)' /\ worker'[v].task = i
                        \/ \E j \in DOMAIN results : results[j].task = i
      BY <1>1, <2>7 DEF TasksKept
    <3>1. CASE i = next
      BY <2>5, <2>6, <3>1
    <3>2. CASE i \in 1..(next - 1)
      BY <1>t, <2>6, <3>2 DEF TasksKept
    <3> QED BY <2>7, <3>1, <3>2
  <2>10. ProcessTypes'
    BY <1>t, <1>1, <2>1, <2>4 DEF ProcessTypes
  <2>11. result = "running" /\ worker[1].at # "unborn"
    BY <1>1, WorkersBusy
  <2>12. WorkersRun'
    <3>1. worker'[1].at # "unborn"
      BY <2>4, <2>5, <2>11 DEF Process!ProcessAssumption
    <3>2. worker'[1].at = "done" => ctxDone \/ cancelled \/ next' > size
      BY <1>t, <2>4, <2>5, <2>7, <2>11 DEF WorkersRun, Process!ProcessAssumption
    <3>3. \A v \in 1..NumWorkers :
            worker'[v].late => (ctxDone \/ cancelled) /\ worker'[v].at \notin {"limit", "map"}
      BY <1>t, <2>2, <2>4, <2>5 DEF WorkersRun
    <3> QED BY <1>t, <1>1, <2>11, <3>1, <3>2, <3>3 DEF WorkersRun
  <2>13. Answered'
    BY <1>t, <1>1, <2>11 DEF Answered
  <2> QED BY <2>8, <2>9, <2>10, <2>12, <2>13 DEF ProcessInv
<1> QED BY <1>2, <1>3

(* A worker checks, limits and maps its task; whichever of these ends with *)
(* a result sends it.                                                      *)
LEMMA ProcessWorks ==
  ASSUME Process!ProcessAssumption, ProcessInv, NEW w \in 1..NumWorkers,
         NEW f \in BOOLEAN,
         Process!Check(w) \/ Process!LimiterWait(w, f) \/ Process!Mapped(w, f)
  PROVE  ProcessInv'
<1>t. ProcessTypes /\ TasksApart /\ TasksKept /\ WorkersRun /\ Answered
  BY DEF ProcessInv
<1>1. /\ InHand(w)
      /\ size' = size /\ ctxDone' = ctxDone /\ cancelled' = cancelled /\ next' = next
      /\ outputs' = outputs /\ firstErr' = firstErr
      /\ collected' = collected /\ pooled' = pooled /\ result' = result
  BY DEF Process!Check, Process!LimiterWait, Process!Mapped, Process!config,
         Process!collector, InHand
<1>2. \/ \E g \in BOOLEAN, stage \in {"select", "done"} :
           /\ results' = Append(results, [task |-> worker[w].task, failed |-> g])
           /\ worker' = [worker EXCEPT ![w].at = stage]
           /\ stage = "done" => ctxDone \/ cancelled \/ next > size
      \/ \E stage \in {"limit", "map"} :
           /\ results' = results /\ ~worker[w].late
           /\ worker' = [worker EXCEPT ![w].at = stage]
  <2>1. CASE Process!Check(w)
    <3>1. worker[w].late => ctxDone \/ cancelled
      BY <1>t DEF WorkersRun
    <3> QED BY <2>1, <3>1 DEF Process!Check, Process!Send, Process!Move, Process!RunDone
  <2>2. CASE Process!LimiterWait(w, f)
    <3>1. ~worker[w].late
      BY <1>t, <2>2 DEF WorkersRun, Process!LimiterWait
    <3> QED BY <2>2, <3>1 DEF Process!LimiterWait, Process!Send, Process!Move
  <2>3. CASE Process!Mapped(w, f)
    BY <2>3 DEF Process!Mapped, Process!Send, Process!Move
  <2> QED BY <2>1, <2>2, <2>3
<1>3. worker[w].at \notin {"unborn", "done"}
  BY <1>1 DEF InHand
<1>4. ASSUME NEW g \in BOOLEAN, NEW stage \in {"select", "done"},
             results' = Append(results, [task |-> worker[w].task, failed |-> g]),
             worker' = [worker EXCEPT ![w].at = stage],
             stage = "done" => ctxDone \/ cancelled \/ next > size
      PROVE  ProcessInv'
  <2>1. ~InHand(w)' /\ \A v \in 1..NumWorkers : v # w => worker'[v] = worker[v]
    BY <1>t, <1>1, <1>4, MoveFacts DEF InHand
  <2>2. /\ results' \in Seq([task : 1..size, failed : BOOLEAN])
        /\ TasksApart' /\ TasksKept'
    BY <1>1, <1>4, <2>1, TaskSent
  <2> QED BY <1>1, <1>3, <1>4, <2>2, ProcessMoves
<1>5. ASSUME NEW stage \in {"limit", "map"}, results' = results, ~worker[w].late,
             worker' = [worker EXCEPT ![w].at = stage]
      PROVE  ProcessInv'
  <2>1. \A v \in 1..NumWorkers :
          /\ InHand(v)' <=> InHand(v)
          /\ InHand(v) => worker'[v].task = worker[v].task
    BY <1>t, <1>1, <1>5, MoveFacts DEF InHand
  <2>2. TasksApart' /\ TasksKept'
    BY <1>1, <1>5, <2>1, TasksStand
  <2>3. results' \in Seq([task : 1..size, failed : BOOLEAN])
    BY <1>t, <1>5 DEF ProcessTypes
  <2> QED BY <1>1, <1>3, <1>5, <2>2, <2>3, ProcessMoves
<1> QED BY <1>2, <1>4, <1>5

(* The collector takes one result.                                         *)
LEMMA ProcessCollect ==
  ASSUME Process!ProcessAssumption, ProcessInv, Process!Collect PROVE ProcessInv'
<1>t. ProcessTypes /\ TasksApart /\ TasksKept /\ WorkersRun /\ Answered
  BY DEF ProcessInv
<1>1. PICK r : r = Head(results)
  OBVIOUS
<1>2. PICK i : i = r.task
  OBVIOUS
<1>3. /\ results # <<>> /\ result = "running" /\ results' = Tail(results)
      /\ IF r.failed /\ failFast /\ firstErr = 0
         THEN firstErr' = i /\ cancelled' = TRUE
         ELSE firstErr' = firstErr /\ cancelled' = cancelled
      /\ collected' = IF r.failed /\ ~failFast THEN collected \cup {i} ELSE collected
      /\ outputs' = IF r.failed THEN outputs ELSE outputs \cup {i}
      /\ pooled' = [pooled EXCEPT ![i] = @ + 1]
      /\ size' = size /\ ctxDone' = ctxDone /\ next' = next /\ worker' = worker
      /\ result' = result
  BY <1>1, <1>2 DEF Process!Collect, Process!config
<1>4. /\ Len(results) \in Nat /\ DOMAIN results = 1..Len(results)
      /\ 1 \in DOMAIN results /\ r = results[1]
      /\ results' \in Seq([task : 1..size, failed : BOOLEAN])
      /\ DOMAIN results' = 1..(Len(results) - 1)
      /\ \A j \in 1..(Len(results) - 1) :
           results'[j] = results[j + 1] /\ j + 1 \in DOMAIN results /\ j + 1 # 1
  <2>1. results \in Seq([task : 1..size, failed : BOOLEAN])
    BY <1>t DEF ProcessTypes
  <2>2. /\ Len(results) \in Nat \ {0} /\ DOMAIN results = 1..Len(results)
    BY <1>3, <2>1, EmptySeq, LenProperties
  <2>3. /\ Tail(results) \in Seq([task : 1..size, failed : BOOLEAN])
        /\ Len(Tail(results)) = Len(results) - 1
        /\ \A j \in 1..Len(Tail(results)) : Tail(results)[j] = results[j + 1]
    BY <1>3, <2>1, HeadTailProperties
  <2>4. DOMAIN Tail(results) = 1..(Len(results) - 1)
    BY <2>3, LenProperties
  <2>5. Head(results) = results[1]
    BY <2>1
  <2> QED BY <1>1, <1>3, <2>2, <2>3, <2>4, <2>5
<1>5. /\ r \in [task : 1..size, failed : BOOLEAN]
      /\ i \in 1..(next - 1) /\ i \in 1..size /\ pooled[i] = 0 /\ i \in 1..MaxInputs
  <2>1. r \in [task : 1..size, failed : BOOLEAN]
    BY <1>t, <1>4, ElementOfSeq DEF ProcessTypes
  <2>2. i \in 1..(next - 1) /\ pooled[i] = 0
    BY <1>t, <1>2, <1>4 DEF TasksApart
  <2>3. i \in 1..size
    BY <1>2, <2>1
  <2> QED BY <1>t, <2>1, <2>2, <2>3 DEF ProcessTypes, Process!ProcessAssumption
<1>6. /\ pooled'[i] = 1 /\ \A k \in 1..MaxInputs : k # i => pooled'[k] = pooled[k]
      /\ pooled' \in [1..MaxInputs -> 0..1]
  <2>1. pooled \in [1..MaxInputs -> 0..1]
    BY <1>t DEF ProcessTypes
  <2> QED BY <1>3, <1>5, <2>1
<1>7. /\ 1..size \subseteq 1..MaxInputs
      /\ 1..(next - 1) \subseteq 1..size /\ next..size \subseteq 1..size
  BY <1>t DEF ProcessTypes, Process!ProcessAssumption
<1>8. \A w \in 1..NumWorkers : (InHand(w)' <=> InHand(w)) /\ worker'[w] = worker[w]
  BY <1>3 DEF InHand
<1>9. TasksApart'
  <2>1. \A w \in 1..NumWorkers :
          InHand(w)' => worker'[w].task \in 1..(next' - 1) /\ pooled'[worker'[w].task] = 0
    <3> SUFFICES ASSUME NEW w \in 1..NumWorkers, InHand(w)
                 PROVE  worker[w].task \in 1..(next - 1) /\ pooled'[worker[w].task] = 0
      BY <1>3, <1>8
    <3>1. worker[w].task # i /\ worker[w].task \in 1..(next - 1) /\ pooled[worker[w].task] = 0
      BY <1>t, <1>2, <1>4 DEF TasksApart
    <3> QED BY <1>6, <1>7, <3>1
  <2>2. \A w, v \in 1..NumWorkers :
          InHand(w)' /\ InHand(v)' /\ worker'[w].task = worker'[v].task => w = v
    BY <1>t, <1>8 DEF TasksApart
  <2>3. \A j \in DOMAIN results' :
          /\ results'[j].task \in 1..(next' - 1) /\ pooled'[results'[j].task] = 0
          /\ \A w \in 1..NumWorkers : InHand(w)' => worker'[w].task # results'[j].task
    <3> SUFFICES ASSUME NEW j \in 1..(Len(results) - 1)
                 PROVE  /\ results'[j].task \in 1..(next - 1) /\ pooled'[results'[j].task] = 0
                        /\ \A w \in 1..NumWorkers :
                             InHand(w) => worker[w].task # results'[j].task
      BY <1>3, <1>4, <1>8
    <3>1. results'[j] = results[j + 1] /\ j + 1 \in DOMAIN results /\ j + 1 # 1
      BY <1>4
    <3>2. /\ results[j + 1].task \in 1..(next - 1) /\ pooled[results[j + 1].task] = 0
          /\ results[j + 1].task # i
          /\ \A w \in 1..NumWorkers : InHand(w) => worker[w].task # results[j + 1].task
      BY <1>t, <1>2, <1>4, <3>1 DEF TasksApart
    <3> QED BY <1>6, <1>7, <3>1, <3>2
  <2>4. \A j, k \in DOMAIN results' : results'[j].task = results'[k].task => j = k
    <3> SUFFICES ASSUME NEW j \in 1..(Len(results) - 1), NEW k \in 1..(Len(results) - 1),
                        results'[j].task = results'[k].task
                 PROVE  j = k
      BY <1>4
    <3>1. /\ j + 1 \in DOMAIN results /\ k + 1 \in DOMAIN results
          /\ results[j + 1].task = results[k + 1].task
      BY <1>4
    <3>2. j + 1 = k + 1
      BY <1>t, <3>1 DEF TasksApart
    <3> QED BY <1>4, <3>2
  <2>5. \A k \in next'..size' : pooled'[k] = 0
    <3> SUFFICES ASSUME NEW k \in next..size PROVE pooled'[k] = 0
      BY <1>3
    <3>1. k # i /\ k \in 1..MaxInputs /\ pooled[k] = 0
      BY <1>t, <1>5, <1>7 DEF TasksApart, ProcessTypes
    <3> QED BY <1>6, <3>1
  <2> QED BY <2>1, <2>2, <2>3, <2>4, <2>5 DEF TasksApart
<1>10. TasksKept'
  <2> SUFFICES ASSUME NEW k \in 1..(next - 1)
               PROVE  \/ pooled'[k] = 1
                      \/ \E w \in 1..NumWorkers : InHand(w)' /\ worker'[w].task = k
                      \/ \E j \in DOMAIN results' : results'[j].task = k
    BY <1>3 DEF TasksKept
  <2>1. CASE k = i \/ pooled[k] = 1
    BY <1>6, <1>7, <2>1
  <2>2. ASSUME NEW w \in 1..NumWorkers, InHand(w), worker[w].task = k
        PROVE  InHand(w)' /\ worker'[w].task = k
    BY <1>8, <2>2
  <2>3. ASSUME NEW j \in DOMAIN results, results[j].task = k, k # i
        PROVE  \E l \in DOMAIN results' : results'[l].task = k
    <3>1. j # 1
      BY <1>2, <1>4, <2>3
    <3>2. j - 1 \in 1..(Len(results) - 1) /\ (j - 1) + 1 = j
      BY <1>4, <3>1
    <3> QED BY <1>4, <2>3, <3>2
  <2> QED BY <1>t, <2>1, <2>2, <2>3 DEF TasksKept
<1>11. /\ firstErr' \in 0..size /\ collected' \in SUBSET (1..size)
       /\ outputs' \in SUBSET (1..size)
       /\ firstErr # 0 => firstErr' # 0
       /\ outputs \subseteq outputs' /\ collected \subseteq collected'
       /\ i \in outputs' \/ firstErr' # 0 \/ collected' # {}
       /\ cancelled' => cancelled \/ firstErr' # 0
       /\ cancelled => cancelled'
  <2>1. /\ firstErr \in 0..size /\ i \in 0..size /\ i # 0
        /\ outputs \in SUBSET (1..size) /\ collected \in SUBSET (1..size)
    BY <1>t, <1>5 DEF ProcessTypes
  <2>2. CASE r.failed /\ failFast
    <3>1. collected' = collected /\ outputs' = outputs
      BY <1>3, <2>2
    <3>2. CASE firstErr = 0
      BY <1>3, <2>1, <2>2, <3>1, <3>2
    <3>3. CASE firstErr # 0
      BY <1>3, <2>1, <2>2, <3>1, <3>3
    <3> QED BY <3>2, <3>3
  <2>3. CASE r.failed /\ ~failFast
    BY <1>3, <1>5, <2>1, <2>3
  <2>4. CASE ~r.failed
    BY <1>3, <1>5, <2>1, <2>4
  <2> QED BY <2>2, <2>3, <2>4
<1>12. ProcessTypes'
  BY <1>t, <1>3, <1>4, <1>6, <1>11 DEF ProcessTypes
<1>13. WorkersRun'
  BY <1>t, <1>3, <1>11 DEF WorkersRun
<1>14. Answered'
  <2>1. \A k \in 1..size :
          pooled'[k] = 1 => k \in outputs' \/ firstErr' # 0 \/ collected' # {}
    BY <1>t, <1>3, <1>6, <1>7, <1>11 DEF Answered
  <2> QED BY <1>3, <2>1 DEF Answered
<1> QED BY <1>9, <1>10, <1>12, <1>13, <1>14 DEF ProcessInv

(* Process returns: the tasks that were taken are in the pool, and those   *)
(* left in tasksCh are put there.                                          *)
LEMMA ProcessReturn ==
  ASSUME Process!ProcessAssumption, ProcessInv, Process!Return PROVE ProcessInv'
<1>t. ProcessTypes /\ TasksApart /\ TasksKept /\ WorkersRun /\ Answered
  BY DEF ProcessInv
<1>1. /\ result = "running" /\ results = <<>> /\ results' = <<>>
      /\ \A w \in 1..NumWorkers : worker[w].at = "done"
      /\ result' = IF ctxDone \/ firstErr # 0 \/ collected # {} THEN "error" ELSE "outputs"
      /\ pooled' = [k \in 1..MaxInputs |->
                      IF k \in next..size THEN pooled[k] + 1 ELSE pooled[k]]
      /\ next' = size + 1 /\ cancelled' = TRUE
      /\ size' = size /\ ctxDone' = ctxDone /\ worker' = worker
      /\ outputs' = outputs /\ firstErr' = firstErr /\ collected' = collected
  BY DEF Process!Return, Process!Finished, Process!Failed, Process!Workers, Process!config
<1>2. 1 \in 1..NumWorkers /\ size \in Nat /\ next \in Nat /\ DOMAIN results = {}
  BY <1>t, <1>1 DEF ProcessTypes, Process!ProcessAssumption
<1>3. \A w \in 1..NumWorkers : ~InHand(w) /\ ~InHand(w)' /\ worker[w].at # "unborn"
  BY <1>1 DEF InHand
<1>4. \A k \in 1..(next - 1) : pooled[k] = 1
  BY <1>t, <1>2, <1>3 DEF TasksKept
<1>5. \A k \in 1..size : pooled'[k] = 1
  <2> TAKE k \in 1..size
  <2>1. k \in 1..MaxInputs
    BY <1>t DEF ProcessTypes, Process!ProcessAssumption
  <2>2. CASE k \in next..size
    BY <1>t, <1>1, <2>1, <2>2 DEF TasksApart
  <2>3. CASE k \in 1..(next - 1)
    BY <1>1, <1>2, <1>4, <2>1, <2>3
  <2> QED BY <1>2, <2>2, <2>3
<1>6. pooled' \in [1..MaxInputs -> 0..1]
  <2>1. \A k \in 1..MaxInputs :
          pooled[k] \in 0..1 /\ (k \in next..size => pooled[k] = 0)
    BY <1>t DEF TasksApart, ProcessTypes
  <2> QED BY <1>1, <2>1
<1>7. ProcessTypes'
  BY <1>t, <1>1, <1>2, <1>6 DEF ProcessTypes
<1>8. TasksApart' /\ TasksKept'
  <2>1. DOMAIN results' = {} /\ next'..size' = {} /\ 1..(next' - 1) = 1..size
    BY <1>1, <1>2
  <2> QED BY <1>3, <1>5, <2>1 DEF TasksApart, TasksKept
<1>9. WorkersRun'
  BY <1>t, <1>1, <1>2 DEF WorkersRun
<1>10. result' = "outputs" => outputs' = 1..size'
  <2> HAVE result' = "outputs"
  <2>1. ~ctxDone /\ firstErr = 0 /\ collected = {}
    BY <1>1
  <2>2. next > size
    BY <1>t, <1>1, <1>2, <2>1 DEF WorkersRun
  <2>3. \A k \in 1..size : pooled[k] = 1
    BY <1>2, <1>4, <2>2
  <2>4. outputs \subseteq 1..size /\ \A k \in 1..size : k \in outputs
    BY <1>t, <1>1, <2>1, <2>3 DEF Answered, ProcessTypes
  <2> QED BY <1>1, <2>4
<1>11. Answered'
  BY <1>1, <1>5, <1>10 DEF Answered
<1> QED BY <1>7, <1>8, <1>9, <1>11 DEF ProcessInv

LEMMA ProcessStep ==
  ASSUME Process!ProcessAssumption, ProcessInv, [Process!Next]_(Process!vars)
  PROVE  ProcessInv'
<1>1. CASE UNCHANGED Process!vars
  BY <1>1 DEF Process!vars, ProcessInv, ProcessTypes, TasksApart, TasksKept,
              WorkersRun, Answered, InHand
<1>2. CASE Process!Next
  BY <1>2, ProcessStart, ProcessTakes, ProcessWorks, ProcessCollect, ProcessReturn
     DEF Process!Next, Process!WorkerStep, Process!Workers
<1> QED BY <1>1, <1>2

(* resultsCh never holds more than one result of each task: the pigeonhole *)
(* principle.                                                              *)
LEMMA ResultsFit == ASSUME ProcessInv, MaxInputs \in Nat PROVE Len(results) <= size
<1>t. ProcessTypes /\ TasksApart
  BY DEF ProcessInv
<1>1. /\ results \in Seq([task : 1..size, failed : BOOLEAN]) /\ size \in Nat
      /\ Len(results) \in Nat /\ DOMAIN results = 1..Len(results)
  BY <1>t, LenProperties DEF ProcessTypes
<1>2. PICK f : f = [j \in 1..Len(results) |-> results[j].task]
  OBVIOUS
<1>3. \A j \in 1..Len(results) : results[j].task \in 1..size
  <2> TAKE j \in 1..Len(results)
  <2>1. results[j] \in [task : 1..size, failed : BOOLEAN]
    BY <1>1, ElementOfSeq
  <2> QED BY <2>1
<1>4. f \in [1..Len(results) -> 1..size]
  BY <1>2, <1>3
<1>5. \A j, k \in 1..Len(results) : f[j] = f[k] => j = k
  BY <1>t, <1>1, <1>2 DEF TasksApart
<1>6. /\ IsFiniteSet(1..Len(results)) /\ Cardinality(1..Len(results)) = Len(results)
      /\ IsFiniteSet(1..size) /\ Cardinality(1..size) = size
  <2>1. \A n \in Nat : IsFiniteSet(1..n) /\ Cardinality(1..n) = n
    BY FS_Interval
  <2> QED BY <1>1, <2>1
<1>7. ~(Cardinality(1..size) < Cardinality(1..Len(results)))
  <2> SUFFICES ASSUME Cardinality(1..size) < Cardinality(1..Len(results)) PROVE FALSE
    OBVIOUS
  <2>1. \E x, y \in 1..Len(results) : x # y /\ f[x] = f[y]
    BY <1>4, <1>6, FS_PigeonHole
  <2> QED BY <1>5, <2>1
<1> QED BY <1>1, <1>6, <1>7

(* Process returns its outputs only when all are there, gives every task   *)
(* back once, and maps none it took after the end of the run               *)
(* (pipeline.go:71-168).                                                   *)
THEOREM ProcessSafety ==
  ASSUME Process!ProcessAssumption PROVE Process!Spec => []ProcessSound
<1>1. Process!Init => ProcessInv
  BY ProcessInit
<1>2. ProcessInv /\ [Process!Next]_(Process!vars) => ProcessInv'
  BY ProcessStep
<1>3. ASSUME ProcessInv PROVE ProcessSound
  <2>t. ProcessTypes /\ WorkersRun /\ Answered
    BY <1>3 DEF ProcessInv
  <2>1. Process!TypeOK
    BY <2>t DEF ProcessTypes, Process!TypeOK
  <2>2. Len(results) <= size
    BY <1>3, ResultsFit DEF Process!ProcessAssumption
  <2>3. \A w \in Process!Workers : worker[w].late => worker[w].at \notin {"limit", "map"}
    BY <2>t DEF WorkersRun, Process!Workers
  <2> QED BY <2>t, <2>1, <2>2, <2>3 DEF Answered, ProcessSound, Process!ProcessSound
<1> QED BY <1>1, <1>2, <1>3, PTL DEF Process!Spec

-----------------------------------------------------------------------------
(* Stream.                                                                 *)
StreamTypes ==
  /\ sent \in 0..MaxInputs /\ taken \in 0..sent
  /\ worker2 \in [Mappers ->
                    [at : {"select", "limit", "map", "send", "done"}, val : Nat]]
  /\ out \in Seq(Nat) /\ received \in Seq(Nat) /\ errs \in Seq(Nat)
  /\ Len(out) <= Cardinality(Mappers) /\ Len(errs) <= Cardinality(Mappers)
  /\ failed \in SUBSET (1..taken) /\ reported \in SUBSET failed

Carrying(w) == worker2[w].at \in {"limit", "map", "send"}

(* A worker carries a value nobody else has, that was neither delivered    *)
(* nor has failed.                                                         *)
CarriedOnce ==
  /\ \A w \in Mappers :
       Carrying(w) => /\ worker2[w].val \in 1..taken
                      /\ worker2[w].val \notin Stream!Delivered \cup failed
  /\ \A w, v \in Mappers :
       Carrying(w) /\ Carrying(v) /\ worker2[w].val = worker2[v].val => w = v

(* A value is delivered once, and not if it has failed.                    *)
DeliveredOnce ==
  /\ Stream!Delivered \in SUBSET (1..taken) /\ Stream!Delivered \cap failed = {}
  /\ Len(received) + Len(out) = Cardinality(Stream!Delivered)

(* No value is lost before the run is over.                                *)
ValuesKept ==
  ~ctxDone2 /\ (~failFast2 \/ failed = {}) =>
    \A i \in 1..taken :
      i \in Stream!Delivered \cup failed \/ \E w \in Mappers : Carrying(w) /\ worker2[w].val = i

(* The channels are closed after the workers, and cancel() is called then  *)
(* or for an error.                                                        *)
ClosedLast ==
  /\ closed2 # {} => \A w \in Mappers : worker2[w].at = "done"
  /\ cancelled2 => closed2 # {} \/ (failFast2 /\ failed # {})

ErrorsReported ==
  /\ \A j \in DOMAIN errs : errs[j] \in reported
  /\ failed # {} => reported # {}

(* The inductive invariant.                                                *)
StreamInv ==
  /\ StreamTypes /\ CarriedOnce /\ DeliveredOnce /\ ValuesKept
  /\ ClosedLast /\ ErrorsReported

LEMMA StreamInit ==
  ASSUME Stream!StreamAssumption, Stream!Init PROVE StreamInv
<1>1. MaxInputs \in Nat /\ IsFiniteSet(Mappers)
  BY DEF Stream!StreamAssumption, Stream!IsFiniteSet, IsFiniteSet
<1>2. /\ sent = 0 /\ taken = 0 /\ cancelled2 = FALSE
      /\ worker2 = [w \in Mappers |-> [at |-> "select", val |-> 0]]
      /\ out = <<>> /\ errs = <<>> /\ closed2 = {} /\ received = <<>>
      /\ failed = {} /\ reported = {}
  BY DEF Stream!Init, Stream!At
<1>3. Stream!Delivered = {}
  BY <1>2 DEF Stream!Delivered
<1>4. Cardinality(Mappers) \in Nat
  BY <1>1, FS_CardinalityType
<1>5. StreamTypes
  <2>1. worker2 \in [Mappers ->
                    [at : {"select", "limit", "map", "send", "done"}, val : Nat]]
    BY <1>2
  <2>2. <<>> \in Seq(Nat) /\ Len(<<>>) = 0
    BY EmptySeq
  <2> QED BY <1>1, <1>2, <1>4, <2>1, <2>2 DEF StreamTypes
<1>6. DeliveredOnce
  <2>1. Len(<<>>) = 0 /\ Cardinality({}) = 0
    BY EmptySeq, FS_EmptySet
  <2> QED BY <1>2, <1>3, <2>1 DEF DeliveredOnce
<1>7. \A w \in Mappers : ~Carrying(w)
  BY <1>2 DEF Carrying
<1>8. CarriedOnce /\ ValuesKept /\ ClosedLast /\ ErrorsReported
  BY <1>2, <1>7 DEF CarriedOnce, ValuesKept, ClosedLast, ErrorsReported
<1> QED BY <1>5, <1>6, <1>8 DEF StreamInv

(* A value that comes from nowhere else and goes nowhere changes nothing.  *)
LEMMA ValuesStand ==
  ASSUME StreamInv, taken' = taken, Stream!Delivered' = Stream!Delivered,
         Len(received)' + Len(out)' = Len(received) + Len(out),
         failed' = failed, failFast2' = failFast2, ctxDone2 => ctxDone2',
         \A w \in Mappers :
           /\ Carrying(w)' <=> Carrying(w)
           /\ Carrying(w) => worker2'[w].val = worker2[w].val
  PROVE  CarriedOnce' /\ DeliveredOnce' /\ ValuesKept'
<1>t. CarriedOnce /\ DeliveredOnce /\ ValuesKept
  BY DEF StreamInv
<1>1. CarriedOnce'
  BY <1>t DEF CarriedOnce
<1>2. DeliveredOnce'
  BY <1>t DEF DeliveredOnce
<1>3. ValuesKept'
  BY <1>t DEF ValuesKept
<1> QED BY <1>1, <1>2, <1>3

(* The error of the value a worker carries is reported: there is room in   *)
(* errs, or errs holds errors already.                                     *)
LEMMA StreamReports ==
  ASSUME Stream!StreamAssumption, StreamInv, NEW w \in Mappers, Carrying(w),
         Stream!Report(w), ~Carrying(w)',
         \A v \in Mappers : v # w => worker2'[v] = worker2[v],
         worker2' \in [Mappers ->
                    [at : {"select", "limit", "map", "send", "done"}, val : Nat]],
         sent' = sent, taken' = taken, out' = out, received' = received,
         closed2' = closed2, failFast2' = failFast2, ctxDone2' = ctxDone2
  PROVE  StreamInv'
<1>t. /\ StreamTypes /\ CarriedOnce /\ DeliveredOnce /\ ValuesKept
      /\ ClosedLast /\ ErrorsReported
  BY DEF StreamInv
<1>1. PICK i : i = worker2[w].val
  OBVIOUS
<1>2. /\ failed' = failed \cup {i}
      /\ IF Len(errs) < Stream!Capacity
         THEN errs' = Append(errs, i) /\ reported' = reported \cup {i}
         ELSE errs' = errs /\ reported' = reported
      /\ cancelled2' => cancelled2 \/ failFast2
  BY <1>1 DEF Stream!Report
<1>3. i \in 1..taken /\ i \notin Stream!Delivered \cup failed /\ i \in Nat
  BY <1>t, <1>1 DEF CarriedOnce, StreamTypes
<1>4. Stream!Delivered' = Stream!Delivered
  BY DEF Stream!Delivered
<1>5. Stream!Capacity = Cardinality(Mappers) /\ Cardinality(Mappers) \in Nat \ {0}
  <2>1. Stream!Capacity = Cardinality(Mappers)
    BY DEF Stream!Capacity, Stream!Cardinality, Cardinality
  <2>2. IsFiniteSet(Mappers)
    BY DEF Stream!StreamAssumption, Stream!IsFiniteSet, IsFiniteSet
  <2>3. Cardinality(Mappers) \in Nat /\ Cardinality(Mappers) # 0
    BY <2>2, FS_CardinalityType, FS_EmptySet
  <2> QED BY <2>1, <2>3
<1>6. /\ errs' \in Seq(Nat) /\ Len(errs') <= Cardinality(Mappers)
      /\ reported' \in SUBSET failed' /\ reported' # {}
      /\ \A j \in DOMAIN errs' : errs'[j] \in reported'
  <2>1. /\ errs \in Seq(Nat) /\ Len(errs) \in Nat /\ DOMAIN errs = 1..Len(errs)
        /\ Len(errs) <= Cardinality(Mappers) /\ reported \in SUBSET failed
        /\ \A j \in DOMAIN errs : errs[j] \in reported
    BY <1>t, LenProperties DEF StreamTypes, ErrorsReported
  <2>2. CASE Len(errs) < Stream!Capacity
    <3>1. errs' = Append(errs, i) /\ reported' = reported \cup {i}
      BY <1>2, <2>2
    <3>2. /\ errs' \in Seq(Nat) /\ Len(errs') = Len(errs) + 1
          /\ DOMAIN errs' = 1..(Len(errs) + 1)
          /\ \A j \in 1..Len(errs) : errs'[j] = errs[j]
          /\ errs'[Len(errs) + 1] = i
      BY <1>3, <2>1, <3>1, AppendProperties
    <3>3. ASSUME NEW j \in DOMAIN errs' PROVE errs'[j] \in reported'
      <4>1. CASE j = Len(errs) + 1
        BY <3>1, <3>2, <4>1
      <4>2. CASE j \in 1..Len(errs)
        BY <2>1, <3>1, <3>2, <4>2
      <4> QED BY <2>1, <3>2, <4>1, <4>2
    <3> QED BY <1>2, <1>5, <2>1, <2>2, <3>1, <3>2, <3>3
  <2>3. CASE ~(Len(errs) < Stream!Capacity)
    <3>1. errs' = errs /\ reported' = reported
      BY <1>2, <2>3
    <3>2. 1 \in DOMAIN errs
      BY <1>5, <2>1, <2>3
    <3> QED BY <1>2, <2>1, <3>1, <3>2
  <2> QED BY <2>2, <2>3
<1>7. StreamTypes'
  BY <1>t, <1>2, <1>3, <1>6 DEF StreamTypes
<1>8. \A v \in Mappers : Carrying(v)' => v # w /\ Carrying(v) /\ worker2'[v] = worker2[v]
  BY DEF Carrying
<1>9. CarriedOnce'
  BY <1>t, <1>1, <1>2, <1>4, <1>8 DEF CarriedOnce
<1>10. DeliveredOnce'
  BY <1>t, <1>2, <1>3, <1>4 DEF DeliveredOnce
<1>11. ValuesKept'
  <2> SUFFICES ASSUME ~ctxDone2, ~failFast2 \/ failed' = {}, NEW k \in 1..taken,
                      k \notin Stream!Delivered \cup failed'
               PROVE  \E v \in Mappers : Carrying(v)' /\ worker2'[v].val = k
    BY <1>4 DEF ValuesKept
  <2>1. PICK v \in Mappers : Carrying(v) /\ worker2[v].val = k
    BY <1>t, <1>2 DEF ValuesKept
  <2>2. v # w
    BY <1>1, <1>2, <2>1
  <2> QED BY <2>1, <2>2 DEF Carrying
<1>12. ClosedLast' /\ ErrorsReported'
  <2>1. closed2 = {}
    BY <1>t DEF ClosedLast, Carrying
  <2> QED BY <1>t, <1>2, <1>6, <2>1 DEF ClosedLast, ErrorsReported
<1> QED BY <1>7, <1>9, <1>10, <1>11, <1>12 DEF StreamInv

(* The producer, the context, the consumer and the closing of the channels *)
(* move no value but from out to the consumer.                             *)
LEMMA StreamWorld ==
  ASSUME Stream!StreamAssumption, StreamInv,
         \/ Stream!Produce \/ Stream!CtxDone \/ Stream!ReceiveErr \/ Stream!Close
         \/ UNCHANGED Stream!vars
  PROVE  StreamInv'
<1>t. /\ StreamTypes /\ CarriedOnce /\ DeliveredOnce /\ ValuesKept
      /\ ClosedLast /\ ErrorsReported
  BY DEF StreamInv
<1> USE DEF Stream!config, Stream!input, Stream!errors, Stream!output
<1>1. /\ taken' = taken /\ out' = out /\ received' = received /\ worker2' = worker2
      /\ failed' = failed /\ reported' = reported /\ failFast2' = failFast2
      /\ ctxDone2 => ctxDone2'
  BY DEF Stream!Produce, Stream!CtxDone, Stream!ReceiveErr, Stream!Close, Stream!vars
<1>2. CarriedOnce' /\ DeliveredOnce' /\ ValuesKept'
  <2>1. Stream!Delivered' = Stream!Delivered
    BY <1>1 DEF Stream!Delivered
  <2> QED BY <1>1, <2>1, ValuesStand DEF Carrying
<1>3. /\ sent' \in 0..MaxInputs /\ sent <= sent'
  <2>1. sent \in 0..MaxInputs /\ MaxInputs \in Nat
    BY <1>t DEF StreamTypes, Stream!StreamAssumption
  <2>2. sent' = sent \/ (sent < MaxInputs /\ sent' = sent + 1)
    BY DEF Stream!Produce, Stream!CtxDone, Stream!ReceiveErr, Stream!Close, Stream!vars
  <2> QED BY <2>1, <2>2
<1>4. /\ errs' \in Seq(Nat) /\ Len(errs') <= Cardinality(Mappers)
      /\ \A j \in DOMAIN errs' : errs'[j] \in reported
  <2>1. /\ errs \in Seq(Nat) /\ Len(errs) \in Nat /\ DOMAIN errs = 1..Len(errs)
        /\ Len(errs) <= Cardinality(Mappers) /\ Cardinality(Mappers) \in Nat
        /\ \A j \in DOMAIN errs : errs[j] \in reported
    <3>1. IsFiniteSet(Mappers)
      BY DEF Stream!StreamAssumption, Stream!IsFiniteSet, IsFiniteSet
    <3> QED BY <1>t, <3>1, LenProperties, FS_CardinalityType DEF StreamTypes, ErrorsReported
  <2>2. CASE Stream!ReceiveErr
    <3>1. errs # <<>> /\ errs' = Tail(errs)
      BY <2>2 DEF Stream!ReceiveErr
    <3>2. /\ errs' \in Seq(Nat) /\ Len(errs') = Len(errs) - 1
          /\ \A j \in 1..Len(errs') : errs'[j] = errs[j + 1]
      BY <2>1, <3>1, HeadTailProperties
    <3>3. DOMAIN errs' = 1..(Len(errs) - 1)
      BY <3>2, LenProperties
    <3>4. Len(errs') <= Cardinality(Mappers)
      BY <2>1, <3>2
    <3>5. ASSUME NEW j \in DOMAIN errs' PROVE errs'[j] \in reported
      <4>1. j + 1 \in DOMAIN errs /\ errs'[j] = errs[j + 1]
        BY <2>1, <3>2, <3>3
      <4> QED BY <2>1, <4>1
    <3> QED BY <3>2, <3>4, <3>5
  <2>3. CASE ~Stream!ReceiveErr
    <3>1. errs' = errs
      BY <2>3 DEF Stream!Produce, Stream!CtxDone, Stream!Close, Stream!vars
    <3> QED BY <2>1, <3>1
  <2> QED BY <2>2, <2>3
<1>5. StreamTypes'
  BY <1>t, <1>1, <1>3, <1>4 DEF StreamTypes, Stream!StreamAssumption
<1>6. ClosedLast'
  <2>1. CASE Stream!Close
    <3>1. \A w \in Mappers : worker2[w].at = "done"
      BY <2>1 DEF Stream!Close, Stream!Finished
    <3>2. closed2' # {}
      BY <2>1 DEF Stream!Close
    <3> QED BY <1>1, <3>1, <3>2 DEF ClosedLast
  <2>2. CASE ~Stream!Close
    <3>1. closed2' = closed2 /\ cancelled2' = cancelled2
      BY <2>2 DEF Stream!Produce, Stream!CtxDone, Stream!ReceiveErr, Stream!vars
    <3> QED BY <1>t, <1>1, <3>1 DEF ClosedLast
  <2> QED BY <2>1, <2>2
<1>7. ErrorsReported'
  BY <1>t, <1>1, <1>4 DEF ErrorsReported
<1> QED BY <1>2, <1>5, <1>6, <1>7 DEF StreamInv

(* The consumer receives a value.                                          *)
LEMMA StreamReceive ==
  ASSUME Stream!StreamAssumption, StreamInv, Stream!Receive PROVE StreamInv'
<1>t. /\ StreamTypes /\ CarriedOnce /\ DeliveredOnce /\ ValuesKept
      /\ ClosedLast /\ ErrorsReported
  BY DEF StreamInv
<1>1. /\ out # <<>> /\ received' = Append(received, Head(out)) /\ out' = Tail(out)
      /\ sent' = sent /\ taken' = taken /\ worker2' = worker2 /\ errs' = errs
      /\ failed' = failed /\ reported' = reported /\ failFast2' = failFast2
      /\ ctxDone2' = ctxDone2 /\ cancelled2' = cancelled2 /\ closed2' = closed2
  BY DEF Stream!Receive, Stream!config, Stream!input, Stream!errors
<1>2. /\ out \in Seq(Nat) /\ Len(out) \in Nat \ {0} /\ DOMAIN out = 1..Len(out)
      /\ received \in Seq(Nat) /\ Len(received) \in Nat
      /\ DOMAIN received = 1..Len(received)
  BY <1>t, <1>1, LenProperties, EmptySeq DEF StreamTypes
<1>3. /\ Head(out) = out[1] /\ Head(out) \in Nat /\ out' \in Seq(Nat)
      /\ Len(out') = Len(out) - 1
      /\ \A j \in 1..Len(out') : out'[j] = out[j + 1]
  BY <1>1, <1>2, HeadTailProperties
<1>4. /\ received' \in Seq(Nat) /\ Len(received') = Len(received) + 1
      /\ DOMAIN received' = 1..(Len(received) + 1)
      /\ \A j \in 1..Len(received) : received'[j] = received[j]
      /\ received'[Len(received) + 1] = out[1]
  BY <1>1, <1>2, <1>3, AppendProperties
<1>5. DOMAIN out' = 1..(Len(out) - 1)
  BY <1>3, LenProperties
<1>6. Stream!Delivered' = Stream!Delivered
  <2>1. \A x : x \in {received'[j] : j \in DOMAIN received'} <=>
                 x \in {received[j] : j \in DOMAIN received} \/ x = out[1]
    <3> TAKE x
    <3>1. ASSUME NEW j \in DOMAIN received', x = received'[j]
          PROVE  x \in {received[k] : k \in DOMAIN received} \/ x = out[1]
      <4>1. CASE j = Len(received) + 1
        BY <1>4, <3>1, <4>1
      <4>2. CASE j \in 1..Len(received)
        BY <1>2, <1>4, <3>1, <4>2
      <4> QED BY <1>2, <1>4, <4>1, <4>2
    <3>2. ASSUME NEW j \in DOMAIN received, x = received[j]
          PROVE  j \in DOMAIN received' /\ x = received'[j]
      BY <1>2, <1>4, <3>2
    <3>3. Len(received) + 1 \in DOMAIN received' /\ received'[Len(received) + 1] = out[1]
      BY <1>2, <1>4
    <3> QED BY <3>1, <3>2, <3>3
  <2>2. \A x : x \in {out[j] : j \in DOMAIN out} <=>
                 x \in {out'[j] : j \in DOMAIN out'} \/ x = out[1]
    <3> TAKE x
    <3>1. ASSUME NEW j \in DOMAIN out, x = out[j], j # 1
          PROVE  j - 1 \in DOMAIN out' /\ x = out'[j - 1]
      <4>1. /\ j - 1 \in 1..Len(out') /\ j - 1 \in DOMAIN out'
            /\ (j - 1) + 1 = j
        <5>1. j \in 1..Len(out) /\ j # 1 /\ Len(out) \in Nat
          BY <1>2, <3>1
        <5>2. Len(out') = Len(out) - 1 /\ DOMAIN out' = 1..Len(out')
          BY <1>3, <1>5
        <5> QED BY <5>1, <5>2
      <4>2. out'[j - 1] = out[(j - 1) + 1]
        BY <1>3, <4>1
      <4> QED BY <3>1, <4>1, <4>2
    <3>2. ASSUME NEW j \in DOMAIN out', x = out'[j]
          PROVE  j + 1 \in DOMAIN out /\ x = out[j + 1]
      <4>1. j \in 1..Len(out') /\ j + 1 \in DOMAIN out
        BY <1>2, <1>3, <1>5, <3>2
      <4>2. out'[j] = out[j + 1]
        BY <1>3, <4>1
      <4> QED BY <3>2, <4>1, <4>2
    <3>3. 1 \in DOMAIN out
      BY <1>2
    <3> QED BY <3>1, <3>2, <3>3
  <2> QED BY <2>1, <2>2 DEF Stream!Delivered
<1>7. Len(received)' + Len(out)' = Len(received) + Len(out)
  BY <1>2, <1>3, <1>4
<1>8. CarriedOnce' /\ DeliveredOnce' /\ ValuesKept'
  BY <1>1, <1>6, <1>7, ValuesStand DEF Carrying
<1>9. StreamTypes'
  <2>1. Len(out') <= Cardinality(Mappers)
    <3>1. Len(out) <= Cardinality(Mappers) /\ IsFiniteSet(Mappers)
      BY <1>t DEF StreamTypes, Stream!StreamAssumption, Stream!IsFiniteSet, IsFiniteSet
    <3>2. Cardinality(Mappers) \in Nat
      BY <3>1, FS_CardinalityType
    <3> QED BY <1>2, <1>3, <3>1, <3>2
  <2> QED BY <1>t, <1>1, <1>3, <1>4, <2>1 DEF StreamTypes
<1>10. ClosedLast' /\ ErrorsReported'
  BY <1>t, <1>1 DEF ClosedLast, ErrorsReported
<1> QED BY <1>8, <1>9, <1>10 DEF StreamInv

(* A worker changes places.                                                *)
LEMMA StreamMoveFacts ==
  ASSUME StreamTypes, NEW w \in Mappers,
         NEW stage \in {"select", "limit", "map", "send", "done"},
         Stream!Move(w, stage)
  PROVE  /\ worker2'[w].at = stage /\ worker2'[w].val = worker2[w].val
         /\ \A v \in Mappers : v # w => worker2'[v] = worker2[v]
         /\ worker2' \in [Mappers ->
                    [at : {"select", "limit", "map", "send", "done"}, val : Nat]]
BY DEF StreamTypes, Stream!Move

(* While a worker runs nothing is closed, and cancel() was called for an   *)
(* error or not at all.                                                    *)
LEMMA StreamOpen ==
  ASSUME StreamInv, NEW w \in Mappers, worker2[w].at # "done"
  PROVE  closed2 = {} /\ (cancelled2 => failFast2 /\ failed # {})
BY DEF StreamInv, ClosedLast

(* What every step of a worker but a report leaves as it is.               *)
LEMMA StreamQuiet ==
  ASSUME StreamInv, NEW w \in Mappers, worker2[w].at # "done",
         CarriedOnce', DeliveredOnce', ValuesKept',
         worker2' \in [Mappers ->
                    [at : {"select", "limit", "map", "send", "done"}, val : Nat]],
         taken' \in 0..sent, taken <= taken', sent' = sent, received' = received,
         out' \in Seq(Nat), Len(out') <= Cardinality(Mappers),
         errs' = errs, failed' = failed, reported' = reported, closed2' = closed2,
         failFast2' = failFast2, cancelled2' = cancelled2
  PROVE  StreamInv'
<1>t. StreamTypes /\ ClosedLast /\ ErrorsReported
  BY DEF StreamInv
<1>1. StreamTypes'
  <2>1. failed \in SUBSET (1..taken')
    BY <1>t DEF StreamTypes
  <2> QED BY <1>t, <2>1 DEF StreamTypes
<1>2. ClosedLast' /\ ErrorsReported'
  BY <1>t, StreamOpen DEF ClosedLast, ErrorsReported
<1> QED BY <1>1, <1>2 DEF StreamInv

LEMMA StreamSelect ==
  ASSUME Stream!StreamAssumption, StreamInv, NEW w \in Mappers,
         Stream!Leave(w) \/ Stream!Take(w)
  PROVE  StreamInv'
<1>t. /\ StreamTypes /\ CarriedOnce /\ DeliveredOnce /\ ValuesKept
  BY DEF StreamInv
<1>1. /\ worker2[w].at = "select" /\ ~Carrying(w)
      /\ sent' = sent /\ errs' = errs /\ out' = out /\ received' = received
      /\ failed' = failed /\ reported' = reported /\ failFast2' = failFast2
      /\ ctxDone2' = ctxDone2 /\ cancelled2' = cancelled2 /\ closed2' = closed2
  BY DEF Stream!Leave, Stream!Take, Stream!config, Stream!input, Stream!errors,
         Stream!output, Carrying
<1>2. Stream!Delivered' = Stream!Delivered
  BY <1>1 DEF Stream!Delivered
<1>3. /\ out' \in Seq(Nat) /\ Len(out') <= Cardinality(Mappers)
      /\ taken \in 0..sent /\ taken \in Nat /\ sent \in Nat
  BY <1>t, <1>1 DEF StreamTypes, Stream!StreamAssumption
<1>4. CASE Stream!Leave(w)
  <2>1. Stream!Move(w, "done") /\ taken' = taken
    BY <1>4 DEF Stream!Leave
  <2>2. /\ worker2'[w].at = "done"
        /\ \A v \in Mappers : v # w => worker2'[v] = worker2[v]
        /\ worker2' \in [Mappers ->
                    [at : {"select", "limit", "map", "send", "done"}, val : Nat]]
    BY <1>t, <2>1, StreamMoveFacts
  <2>3. \A v \in Mappers :
          /\ Carrying(v)' <=> Carrying(v)
          /\ Carrying(v) => worker2'[v].val = worker2[v].val
    BY <1>1, <2>2 DEF Carrying
  <2>4. CarriedOnce' /\ DeliveredOnce' /\ ValuesKept'
    BY <1>1, <1>2, <2>1, <2>3, ValuesStand
  <2> QED BY <1>1, <1>3, <2>1, <2>2, <2>4, StreamQuiet
<1>5. CASE Stream!Take(w)
  <2>1. PICK i : i = taken + 1
    OBVIOUS
  <2>2. PICK stage \in {"limit", "map"} : stage = IF limited2 THEN "limit" ELSE "map"
    OBVIOUS
  <2>3. /\ taken < sent /\ taken' = i /\ i \in Nat /\ i \in 0..sent /\ taken <= taken'
        /\ worker2' = [worker2 EXCEPT ![w] = [at |-> stage, val |-> i]]
    BY <1>3, <1>5, <2>1, <2>2 DEF Stream!Take, Stream!At
  <2>4. /\ worker2'[w] = [at |-> stage, val |-> i]
        /\ \A v \in Mappers : v # w => worker2'[v] = worker2[v]
        /\ worker2' \in [Mappers ->
                    [at : {"select", "limit", "map", "send", "done"}, val : Nat]]
    BY <1>t, <2>3 DEF StreamTypes
  <2>5. worker2'[w].at = stage /\ worker2'[w].val = i
    BY <2>4
  <2>6. /\ Carrying(w)'
        /\ \A v \in Mappers : v # w /\ Carrying(v)' => Carrying(v) /\ worker2'[v] = worker2[v]
        /\ \A v \in Mappers : Carrying(v) => Carrying(v)' /\ worker2'[v] = worker2[v] /\ v # w
    BY <1>1, <2>4, <2>5 DEF Carrying
  <2>7. /\ 1..taken \subseteq 1..i /\ i \in 1..i /\ i \notin 1..taken
        /\ 1..i = 1..taken \cup {i}
    BY <1>3, <2>1
  <2>8. i \notin Stream!Delivered \cup failed
    BY <1>t, <2>7 DEF DeliveredOnce, StreamTypes
  <2>9. CarriedOnce'
    <3>1. \A v \in Mappers :
            Carrying(v)' => /\ worker2'[v].val \in 1..taken'
                            /\ worker2'[v].val \notin Stream!Delivered' \cup failed'
      BY <1>t, <1>1, <1>2, <2>3, <2>5, <2>6, <2>7, <2>8 DEF CarriedOnce
    <3>2. \A u, v \in Mappers :
            Carrying(u)' /\ Carrying(v)' /\ worker2'[u].val = worker2'[v].val => u = v
      <4>1. \A v \in Mappers : Carrying(v) => worker2[v].val # i
        BY <1>t, <2>7 DEF CarriedOnce
      <4> QED BY <1>t, <2>5, <2>6, <4>1 DEF CarriedOnce
    <3> QED BY <3>1, <3>2 DEF CarriedOnce
  <2>10. DeliveredOnce'
    BY <1>t, <1>1, <1>2, <2>3, <2>7 DEF DeliveredOnce
  <2>11. ValuesKept'
    <3> SUFFICES ASSUME ~ctxDone2, ~failFast2 \/ failed = {}, NEW k \in 1..i,
                        k \notin Stream!Delivered \cup failed
                 PROVE  \E v \in Mappers : Carrying(v)' /\ worker2'[v].val = k
      BY <1>1, <1>2, <2>3 DEF ValuesKept
    <3>1. CASE k = i
      BY <2>5, <2>6, <3>1
    <3>2. CASE k \in 1..taken
      BY <1>t, <2>6, <3>2 DEF ValuesKept
    <3> QED BY <2>7, <3>1, <3>2
  <2>12. taken' \in 0..sent
    BY <2>3
  <2> QED BY <1>1, <1>3, <2>3, <2>4, <2>9, <2>10, <2>11, <2>12, StreamQuiet
<1> QED BY <1>4, <1>5

(* The limiter and the mapper let a value pass, or fail.                   *)
LEMMA StreamMaps ==
  ASSUME Stream!StreamAssumption, StreamInv, NEW w \in Mappers,
         Stream!LimiterWait(w) \/ Stream!Mapped(w)
  PROVE  StreamInv'
<1>t. StreamTypes
  BY DEF StreamInv
<1>1. /\ Carrying(w) /\ worker2[w].at # "done"
      /\ sent' = sent /\ taken' = taken /\ out' = out /\ received' = received
      /\ failFast2' = failFast2 /\ ctxDone2' = ctxDone2 /\ closed2' = closed2
  BY DEF Stream!LimiterWait, Stream!Mapped, Stream!config, Stream!input,
         Stream!output, Carrying
<1>2. \/ \E stage \in {"map", "send"} : Stream!Move(w, stage) /\ UNCHANGED Stream!errors
      \/ \E stage \in {"select", "done"} : Stream!Move(w, stage) /\ Stream!Report(w)
  BY DEF Stream!LimiterWait, Stream!Mapped
<1>3. ASSUME NEW stage \in {"map", "send"}, Stream!Move(w, stage), UNCHANGED Stream!errors
      PROVE  StreamInv'
  <2>1. /\ errs' = errs /\ failed' = failed /\ reported' = reported
        /\ cancelled2' = cancelled2
    BY <1>3 DEF Stream!errors
  <2>2. /\ worker2'[w].at = stage /\ worker2'[w].val = worker2[w].val
        /\ \A v \in Mappers : v # w => worker2'[v] = worker2[v]
        /\ worker2' \in [Mappers ->
                    [at : {"select", "limit", "map", "send", "done"}, val : Nat]]
    BY <1>t, <1>3, StreamMoveFacts
  <2>3. \A v \in Mappers :
          /\ Carrying(v)' <=> Carrying(v)
          /\ Carrying(v) => worker2'[v].val = worker2[v].val
    BY <1>1, <2>2 DEF Carrying
  <2>4. Stream!Delivered' = Stream!Delivered
    BY <1>1 DEF Stream!Delivered
  <2>5. CarriedOnce' /\ DeliveredOnce' /\ ValuesKept'
    BY <1>1, <2>1, <2>3, <2>4, ValuesStand
  <2>6. /\ out' \in Seq(Nat) /\ Len(out') <= Cardinality(Mappers)
        /\ taken' \in 0..sent /\ taken <= taken'
    BY <1>t, <1>1 DEF StreamTypes, Stream!StreamAssumption
  <2> QED BY <1>1, <2>1, <2>2, <2>5, <2>6, StreamQuiet
<1>4. ASSUME NEW stage \in {"select", "done"}, Stream!Move(w, stage), Stream!Report(w)
      PROVE  StreamInv'
  <2>1. /\ ~Carrying(w)'
        /\ \A v \in Mappers : v # w => worker2'[v] = worker2[v]
        /\ worker2' \in [Mappers ->
                    [at : {"select", "limit", "map", "send", "done"}, val : Nat]]
    BY <1>t, <1>4, StreamMoveFacts DEF Carrying
  <2> QED BY <1>1, <1>4, <2>1, StreamReports
<1> QED BY <1>2, <1>3, <1>4

(* A worker delivers its value, or drops it because the run is over.       *)
LEMMA StreamSend ==
  ASSUME Stream!StreamAssumption, StreamInv, NEW w \in Mappers, Stream!Send(w)
  PROVE  StreamInv'
<1>t. /\ StreamTypes /\ CarriedOnce /\ DeliveredOnce /\ ValuesKept
  BY DEF StreamInv
<1>1. /\ Carrying(w) /\ worker2[w].at # "done"
      /\ sent' = sent /\ taken' = taken /\ errs' = errs /\ received' = received
      /\ failed' = failed /\ reported' = reported /\ failFast2' = failFast2
      /\ ctxDone2' = ctxDone2 /\ cancelled2' = cancelled2 /\ closed2' = closed2
  BY DEF Stream!Send, Stream!config, Stream!input, Stream!errors, Carrying
<1>2. PICK i : i = worker2[w].val
  OBVIOUS
<1>3. PICK stage \in {"select", "done"} :
        /\ Stream!Move(w, stage)
        /\ \/ /\ Len(out) < Stream!Capacity /\ out' = Append(out, i)
           \/ (ctxDone2 \/ cancelled2) /\ out' = out
  BY <1>2 DEF Stream!Send, Stream!RunDone
<1>4. /\ ~Carrying(w)'
      /\ \A v \in Mappers : v # w => worker2'[v] = worker2[v]
      /\ worker2' \in [Mappers ->
                    [at : {"select", "limit", "map", "send", "done"}, val : Nat]]
  BY <1>t, <1>3, StreamMoveFacts DEF Carrying
<1>5. \A v \in Mappers : Carrying(v)' => v # w /\ Carrying(v) /\ worker2'[v] = worker2[v]
  BY <1>4 DEF Carrying
<1>6. \A v \in Mappers : v # w /\ Carrying(v) => Carrying(v)' /\ worker2'[v] = worker2[v]
  BY <1>4 DEF Carrying
<1>7. i \in 1..taken /\ i \in Nat /\ i \notin Stream!Delivered \cup failed
  BY <1>t, <1>1, <1>2 DEF CarriedOnce, StreamTypes
<1>8. taken' \in 0..sent /\ taken <= taken'
  BY <1>t, <1>1 DEF StreamTypes, Stream!StreamAssumption
<1>9. /\ out \in Seq(Nat) /\ Len(out) \in Nat /\ DOMAIN out = 1..Len(out)
      /\ received \in Seq(Nat) /\ Len(received) \in Nat
  BY <1>t, LenProperties DEF StreamTypes
<1>10. CASE Len(out) < Stream!Capacity /\ out' = Append(out, i)
  <2>1. /\ out' \in Seq(Nat) /\ Len(out') = Len(out) + 1
        /\ DOMAIN out' = 1..(Len(out) + 1)
        /\ \A j \in 1..Len(out) : out'[j] = out[j]
        /\ out'[Len(out) + 1] = i
    BY <1>7, <1>9, <1>10, AppendProperties
  <2>2. Len(out') <= Cardinality(Mappers)
    <3>1. IsFiniteSet(Mappers) /\ Stream!Capacity = Cardinality(Mappers)
      BY DEF Stream!StreamAssumption, Stream!Capacity, Stream!IsFiniteSet, IsFiniteSet,
             Stream!Cardinality, Cardinality
    <3>2. Cardinality(Mappers) \in Nat
      BY <3>1, FS_CardinalityType
    <3> QED BY <1>9, <1>10, <2>1, <3>1, <3>2
  <2>3. Stream!Delivered' = Stream!Delivered \cup {i}
    <3>1. \A x : x \in {out'[j] : j \in DOMAIN out'} <=>
                   x \in {out[j] : j \in DOMAIN out} \/ x = i
      <4> TAKE x
      <4>1. ASSUME NEW j \in DOMAIN out', x = out'[j]
            PROVE  x \in {out[k] : k \in DOMAIN out} \/ x = i
        <5>1. CASE j = Len(out) + 1
          BY <2>1, <4>1, <5>1
        <5>2. CASE j \in 1..Len(out)
          BY <1>9, <2>1, <4>1, <5>2
        <5> QED BY <1>9, <2>1, <5>1, <5>2
      <4>2. ASSUME NEW j \in DOMAIN out, x = out[j]
            PROVE  j \in DOMAIN out' /\ x = out'[j]
        BY <1>9, <2>1, <4>2
      <4>3. Len(out) + 1 \in DOMAIN out' /\ out'[Len(out) + 1] = i
        BY <1>9, <2>1
      <4> QED BY <4>1, <4>2, <4>3
    <3> QED BY <1>1, <3>1 DEF Stream!Delivered
  <2>4. DeliveredOnce'
    <3>1. IsFiniteSet(Stream!Delivered) /\ Cardinality(Stream!Delivered) \in Nat
      <4>1. IsFiniteSet(1..taken)
        BY <1>t, FS_Interval DEF StreamTypes, Stream!StreamAssumption
      <4> QED BY <1>t, <4>1, FS_Subset, FS_CardinalityType DEF DeliveredOnce
    <3>2. Cardinality(Stream!Delivered \cup {i}) = Cardinality(Stream!Delivered) + 1
      BY <1>7, <3>1, FS_AddElement
    <3>3. Len(received)' + Len(out)' = Cardinality(Stream!Delivered')
      BY <1>t, <1>1, <1>9, <2>1, <2>3, <3>1, <3>2 DEF DeliveredOnce
    <3> QED BY <1>t, <1>1, <1>7, <2>3, <3>3 DEF DeliveredOnce
  <2>5. CarriedOnce'
    <3>1. \A v \in Mappers : Carrying(v)' => worker2'[v].val # i
      BY <1>t, <1>1, <1>2, <1>5 DEF CarriedOnce
    <3> QED BY <1>t, <1>1, <1>5, <2>3, <3>1 DEF CarriedOnce
  <2>6. ValuesKept'
    <3> SUFFICES ASSUME ~ctxDone2, ~failFast2 \/ failed = {}, NEW k \in 1..taken,
                        k \notin Stream!Delivered \cup failed, k # i
                 PROVE  \E v \in Mappers : Carrying(v)' /\ worker2'[v].val = k
      BY <1>1, <2>3 DEF ValuesKept
    <3>1. PICK v \in Mappers : Carrying(v) /\ worker2[v].val = k
      BY <1>t DEF ValuesKept
    <3> QED BY <1>2, <1>6, <3>1
  <2> QED BY <1>1, <1>4, <1>8, <2>1, <2>2, <2>4, <2>5, <2>6, StreamQuiet
<1>11. CASE (ctxDone2 \/ cancelled2) /\ out' = out
  <2>1. Stream!Delivered' = Stream!Delivered
    BY <1>1, <1>11 DEF Stream!Delivered
  <2>2. ctxDone2 \/ (failFast2 /\ failed # {})
    BY <1>1, <1>11, StreamOpen
  <2>3. CarriedOnce' /\ DeliveredOnce' /\ ValuesKept'
    BY <1>t, <1>1, <1>5, <1>11, <2>1, <2>2 DEF CarriedOnce, DeliveredOnce, ValuesKept
  <2>4. out' \in Seq(Nat) /\ Len(out') <= Cardinality(Mappers)
    BY <1>t, <1>11 DEF StreamTypes
  <2> QED BY <1>1, <1>4, <1>8, <2>3, <2>4, StreamQuiet
<1> QED BY <1>3, <1>10, <1>11

LEMMA StreamStep ==
  ASSUME Stream!StreamAssumption, StreamInv, [Stream!Next]_(Stream!vars)
  PROVE  StreamInv'
<1>1. CASE \/ Stream!Produce \/ Stream!CtxDone \/ Stream!ReceiveErr \/ Stream!Close
           \/ UNCHANGED Stream!vars
  BY <1>1, StreamWorld
<1>2. ASSUME NEW w \in Mappers, Stream!WorkerStep(w) PROVE StreamInv'
  BY <1>2, StreamSelect, StreamMaps, StreamSend DEF Stream!WorkerStep
<1> QED BY <1>1, <1>2, StreamReceive DEF Stream!Next

(* Stream delivers a value once or reports it as failed, and loses one     *)
(* only when its run is over; errs has room for the first error, and       *)
(* nothing is sent to a closed channel (pipeline.go:196-260).              *)
THEOREM StreamSafety ==
  ASSUME Stream!StreamAssumption PROVE Stream!Spec => []StreamSound
<1>1. Stream!Init => StreamInv
  BY StreamInit
<1>2. StreamInv /\ [Stream!Next]_(Stream!vars) => StreamInv'
  BY StreamStep
<1>3. ASSUME StreamInv PROVE StreamSound
  <2>t. /\ StreamTypes /\ CarriedOnce /\ DeliveredOnce /\ ValuesKept
        /\ ClosedLast /\ ErrorsReported
    BY <1>3 DEF StreamInv
  <2>1. /\ Stream!Capacity = Cardinality(Mappers)
        /\ Stream!Cardinality(Stream!Delivered) = Cardinality(Stream!Delivered)
    BY DEF Stream!Capacity, Stream!Cardinality, Cardinality
  <2>2. Stream!TypeOK
    BY <2>t, <2>1 DEF StreamTypes, Stream!TypeOK
  <2>3. \A x : x \in Stream!InWork <=> \E w \in Mappers : Carrying(w) /\ x = worker2[w].val
    BY DEF Stream!InWork, Carrying
  <2>4. Len(received) + Len(out) = Stream!Cardinality(Stream!Delivered)
    BY <2>t, <2>1 DEF DeliveredOnce
  <2>5. ASSUME ~ctxDone2, ~failFast2 \/ failed = {}
        PROVE  /\ 1..taken = Stream!Delivered \cup failed \cup Stream!InWork
               /\ \A v \in Stream!InWork : v \notin Stream!Delivered \cup failed
    <3>1. /\ Stream!Delivered \subseteq 1..taken /\ failed \subseteq 1..taken
          /\ Stream!InWork \subseteq 1..taken
          /\ \A v \in Stream!InWork : v \notin Stream!Delivered \cup failed
      BY <2>t, <2>3 DEF DeliveredOnce, StreamTypes, CarriedOnce
    <3>2. 1..taken \subseteq Stream!Delivered \cup failed \cup Stream!InWork
      BY <2>t, <2>3, <2>5 DEF ValuesKept
    <3> QED BY <3>1, <3>2
  <2>6. closed2 # {} => Stream!InWork = {}
    BY <2>t, <2>3 DEF ClosedLast, Carrying
  <2> QED BY <2>t, <2>2, <2>4, <2>5, <2>6
          DEF DeliveredOnce, ErrorsReported, StreamSound, Stream!StreamSound
<1> QED BY <1>1, <1>2, <1>3, PTL DEF Stream!Spec

-----------------------------------------------------------------------------
(* The keyed limiter: what a key was granted, as a function E of time, and *)
(* the tokens T its bucket has at time n.                                  *)

LastInstant == MaxTime + MaxWait

Prior(E, s) == IF s = 0 THEN 0 ELSE E[s - 1]

(* The events from s on, and the tokens left now, were in the bucket or    *)
(* earned since; the events to come are one per instant until the bucket   *)
(* has paid for them.                                                      *)
Kept(E, T, n) ==
  /\ \A s, t \in Keyed!Horizon : s <= t => E[s] <= E[t]
  /\ \A s \in 0..n : E[LastInstant] - Prior(E, s) + T <= B + n - s
  /\ \A u \in Keyed!Horizon :
       u >= n => E[LastInstant] - E[u] <= IF n - T > u THEN n - T - u ELSE 0
  /\ \A s, t \in Keyed!Horizon : s <= t => E[t] - Prior(E, s) <= B + (t - s)

(* A token is earned.                                                      *)
LEMMA KeptTick ==
  ASSUME Keyed!KeyedAssumption, NEW E \in [Keyed!Horizon -> Nat], NEW T \in Int,
         NEW n \in Nat, n < MaxTime, T <= B, Kept(E, T, n)
  PROVE  Kept(E, IF T < B THEN T + 1 ELSE B, n + 1)
<1> DEFINE U == IF T < B THEN T + 1 ELSE B
<1>1. /\ MaxTime \in Nat /\ MaxWait \in Nat /\ B \in Nat /\ B >= 1
      /\ Keyed!Horizon = 0..LastInstant /\ LastInstant \in Nat /\ LastInstant >= MaxTime
  BY DEF Keyed!KeyedAssumption, Keyed!Horizon, LastInstant
<1>2. U \in Int /\ U <= T + 1 /\ U <= B /\ (T < B => U = T + 1)
  BY <1>1
<1> HIDE DEF U
<1>3. ASSUME NEW s \in 0..(n + 1)
      PROVE  E[LastInstant] - Prior(E, s) + U <= B + (n + 1) - s
  <2>1. CASE s <= n
    <3>1. s \in 0..n /\ E[LastInstant] - Prior(E, s) + T <= B + n - s
      BY <2>1 DEF Kept
    <3>2. Prior(E, s) \in Int /\ E[LastInstant] \in Int
      BY <1>1 DEF Prior
    <3> QED BY <1>2, <3>1, <3>2, <1>1
  <2>2. CASE s = n + 1
    <3>1. Prior(E, s) = E[n] /\ n \in Keyed!Horizon /\ E[n] \in Int /\ E[LastInstant] \in Int
      BY <1>1, <2>2 DEF Prior
    <3>2. E[LastInstant] - E[n] <= IF n - T > n THEN n - T - n ELSE 0
      BY <3>1 DEF Kept
    <3> QED BY <1>1, <1>2, <2>2, <3>1, <3>2
  <2> QED BY <2>1, <2>2
<1>4. ASSUME NEW u \in Keyed!Horizon, u >= n + 1
      PROVE  E[LastInstant] - E[u]
               <= IF (n + 1) - U > u THEN (n + 1) - U - u ELSE 0
  <2>1. E[LastInstant] - E[u] <= IF n - T > u THEN n - T - u ELSE 0
    BY <1>1, <1>4 DEF Kept
  <2>2. T < B => (n + 1) - U = n - T
    BY <1>1, <1>2
  <2>3. T >= B => ~(n - T > u)
    BY <1>1, <1>4
  <2> QED BY <1>1, <1>2, <2>1, <2>2, <2>3
<1>5. Kept(E, U, n + 1)
  BY <1>3, <1>4 DEF Kept
<1> QED BY <1>5 DEF U

(* A token is taken, for now or, when there is none, in advance.           *)
LEMMA KeptTake ==
  ASSUME Keyed!KeyedAssumption, NEW E \in [Keyed!Horizon -> Nat], NEW T \in Int,
         NEW n \in 0..MaxTime, NEW t \in Keyed!Horizon, Kept(E, T, n),
         (T >= 1 /\ t = n) \/ (T <= 0 /\ t = n + 1 - T)
  PROVE  /\ Keyed!Counted(E, t, 1) \in [Keyed!Horizon -> Nat]
         /\ Kept(Keyed!Counted(E, t, 1), T - 1, n)
<1> DEFINE F == Keyed!Counted(E, t, 1)
<1>1. /\ MaxTime \in Nat /\ MaxWait \in Nat /\ B \in Nat /\ B >= 1
      /\ Keyed!Horizon = 0..LastInstant /\ LastInstant \in Nat /\ LastInstant >= MaxTime
  BY DEF Keyed!KeyedAssumption, Keyed!Horizon, LastInstant
<1>2. /\ F \in [Keyed!Horizon -> Nat]
      /\ \A u \in Keyed!Horizon : F[u] = IF u >= t THEN E[u] + 1 ELSE E[u]
  BY DEF Keyed!Counted
<1>3. \A s \in Keyed!Horizon : s <= t => Prior(F, s) = Prior(E, s)
  BY <1>1, <1>2 DEF Prior
<1>4. \A s \in Keyed!Horizon : s > t => Prior(F, s) = Prior(E, s) + 1
  BY <1>1, <1>2 DEF Prior
<1>5. \A s \in Keyed!Horizon : Prior(E, s) \in Nat
  BY <1>1 DEF Prior
<1>6. t >= n /\ LastInstant \in Keyed!Horizon /\ F[LastInstant] = E[LastInstant] + 1
  BY <1>1, <1>2
<1> HIDE DEF F
<1>7. ASSUME NEW s \in Keyed!Horizon, NEW u \in Keyed!Horizon, s <= u PROVE F[s] <= F[u]
  <2>1. E[s] <= E[u] /\ E[s] \in Nat /\ E[u] \in Nat /\ s \in Nat /\ u \in Nat /\ t \in Nat
    BY <1>1, <1>7 DEF Kept
  <2>2. /\ F[s] = IF s >= t THEN E[s] + 1 ELSE E[s]
        /\ F[u] = IF u >= t THEN E[u] + 1 ELSE E[u]
    BY <1>2
  <2> QED BY <1>7, <2>1, <2>2
<1>8. ASSUME NEW s \in 0..n PROVE F[LastInstant] - Prior(F, s) + (T - 1) <= B + n - s
  <2>1. E[LastInstant] - Prior(E, s) + T <= B + n - s
    BY DEF Kept
  <2>2. s \in Keyed!Horizon /\ Prior(F, s) = Prior(E, s)
    BY <1>1, <1>3, <1>6
  <2> QED BY <1>1, <1>5, <1>6, <2>1, <2>2
<1>9. ASSUME NEW u \in Keyed!Horizon, u >= n
      PROVE  F[LastInstant] - F[u] <= IF n - (T - 1) > u THEN n - (T - 1) - u ELSE 0
  <2>1. E[LastInstant] - E[u] <= IF n - T > u THEN n - T - u ELSE 0
    BY <1>9 DEF Kept
  <2>2. F[u] = IF u >= t THEN E[u] + 1 ELSE E[u]
    BY <1>2
  <2>3. E[u] \in Nat /\ E[LastInstant] \in Nat /\ u \in Nat /\ n \in Nat
    BY <1>1, <1>6
  <2> QED BY <1>6, <1>9, <2>1, <2>2, <2>3
<1>10. ASSUME NEW s \in Keyed!Horizon, NEW u \in Keyed!Horizon, s <= u
       PROVE  F[u] - Prior(F, s) <= B + (u - s)
  <2>1. E[u] - Prior(E, s) <= B + (u - s) /\ E[u] <= E[LastInstant]
    BY <1>1, <1>10 DEF Kept
  <2>i. /\ s \in Nat /\ u \in Nat /\ t \in Nat /\ n \in Nat /\ E[u] \in Nat
        /\ E[LastInstant] \in Nat /\ Prior(E, s) \in Nat
    BY <1>1, <1>5, <1>6
  <2>f. F[u] = IF u >= t THEN E[u] + 1 ELSE E[u]
    BY <1>2
  <2>2. CASE u < t \/ s > t
    <3>1. CASE u < t
      BY <1>3, <1>10, <2>1, <2>i, <2>f, <3>1
    <3>2. CASE s > t
      BY <1>4, <1>10, <2>1, <2>i, <2>f, <3>2
    <3> QED BY <2>2, <3>1, <3>2
  <2>3. CASE u >= t /\ s <= n
    <3>1. E[LastInstant] - Prior(E, s) + T <= B + n - s
      BY <1>1, <2>3 DEF Kept
    <3>2. F[u] = E[u] + 1 /\ Prior(F, s) = Prior(E, s)
      BY <1>3, <1>6, <2>3, <2>i, <2>f
    <3> QED BY <1>1, <2>1, <2>3, <2>i, <3>1, <3>2
  <2>4. CASE u >= t /\ s > n /\ s <= t
    <3>1. s - 1 \in Keyed!Horizon /\ s - 1 >= n /\ Prior(E, s) = E[s - 1]
      BY <1>1, <2>4 DEF Prior
    <3>2. E[LastInstant] - E[s - 1] <= IF n - T > s - 1 THEN n - T - (s - 1) ELSE 0
      BY <3>1 DEF Kept
    <3>3. F[u] = E[u] + 1 /\ Prior(F, s) = Prior(E, s)
      BY <1>3, <2>4, <2>f
    <3>4. t = n + 1 - T
      BY <2>4, <2>i
    <3> QED BY <1>1, <2>1, <2>4, <2>i, <3>1, <3>2, <3>3, <3>4
  <2> QED BY <2>2, <2>3, <2>4, <2>i
<1>11. Kept(F, T - 1, n)
  BY <1>7, <1>8, <1>9, <1>10 DEF Kept
<1> QED BY <1>2, <1>11 DEF F

(* An event to come is cancelled; if it was the last its token comes back. *)
LEMMA KeptCancel ==
  ASSUME Keyed!KeyedAssumption, NEW E \in [Keyed!Horizon -> Nat], NEW T \in Int,
         NEW n \in 0..MaxTime, NEW t \in Keyed!Horizon, Kept(E, T, n),
         n < t, t <= n - T, E[t] > Prior(E, t)
  PROVE  /\ Keyed!Counted(E, t, -1) \in [Keyed!Horizon -> Nat]
         /\ Kept(Keyed!Counted(E, t, -1), T, n)
         /\ t = n - T => Kept(Keyed!Counted(E, t, -1), T + 1, n)
<1> DEFINE F == Keyed!Counted(E, t, -1)
<1>1. /\ MaxTime \in Nat /\ MaxWait \in Nat /\ B \in Nat /\ B >= 1
      /\ Keyed!Horizon = 0..LastInstant /\ LastInstant \in Nat /\ LastInstant >= MaxTime
  BY DEF Keyed!KeyedAssumption, Keyed!Horizon, LastInstant
<1>2. Prior(E, t) = E[t - 1] /\ t - 1 \in Keyed!Horizon
  BY <1>1 DEF Prior
<1>3. \A s, u \in Keyed!Horizon : s <= u => E[s] <= E[u]
  BY DEF Kept
<1>4. /\ F \in [Keyed!Horizon -> Nat]
      /\ \A u \in Keyed!Horizon : F[u] = IF u >= t THEN E[u] - 1 ELSE E[u]
  <2>1. \A u \in Keyed!Horizon : u >= t => E[u] - 1 \in Nat
    BY <1>1, <1>2, <1>3
  <2>2. F = [u \in Keyed!Horizon |-> IF u >= t THEN E[u] + (-1) ELSE E[u]]
    BY DEF Keyed!Counted
  <2> QED BY <2>1, <2>2
<1>5. /\ \A s \in Keyed!Horizon : s <= t => Prior(F, s) = Prior(E, s)
      /\ \A s \in Keyed!Horizon : s > t => Prior(F, s) = Prior(E, s) - 1
      /\ \A s \in Keyed!Horizon : Prior(E, s) \in Nat
  <2>1. ASSUME NEW s \in Keyed!Horizon
        PROVE  /\ s <= t => Prior(F, s) = Prior(E, s)
               /\ s > t => Prior(F, s) = Prior(E, s) - 1
               /\ Prior(E, s) \in Nat
    <3>1. CASE s = 0
      BY <1>1, <3>1 DEF Prior
    <3>2. CASE s # 0
      <4>1. s - 1 \in Keyed!Horizon /\ s \in Nat /\ t \in Nat
        BY <1>1, <3>2
      <4>2. F[s - 1] = IF s - 1 >= t THEN E[s - 1] - 1 ELSE E[s - 1]
        BY <1>4, <4>1
      <4>3. Prior(F, s) = F[s - 1] /\ Prior(E, s) = E[s - 1]
        BY <3>2 DEF Prior
      <4> QED BY <4>1, <4>2, <4>3
    <3> QED BY <3>1, <3>2
  <2> QED BY <2>1
<1>6. LastInstant \in Keyed!Horizon /\ F[LastInstant] = E[LastInstant] - 1
  BY <1>1, <1>4
<1> HIDE DEF F
<1>7. ASSUME NEW s \in Keyed!Horizon, NEW u \in Keyed!Horizon, s <= u PROVE F[s] <= F[u]
  <2>1. E[s] <= E[u]
    BY <1>3, <1>7
  <2>2. s < t => E[s] <= E[t - 1]
    BY <1>1, <1>2, <1>3
  <2>3. u >= t => E[t] <= E[u]
    BY <1>1, <1>3
  <2>4. /\ F[s] = IF s >= t THEN E[s] - 1 ELSE E[s]
        /\ F[u] = IF u >= t THEN E[u] - 1 ELSE E[u]
    BY <1>4
  <2>5. /\ E[s] \in Nat /\ E[u] \in Nat /\ E[t] \in Nat /\ E[t - 1] \in Nat
        /\ s \in Nat /\ u \in Nat /\ t \in Nat
    BY <1>1, <1>2
  <2> QED BY <1>2, <1>7, <2>1, <2>2, <2>3, <2>4, <2>5
<1>8. ASSUME NEW s \in 0..n
      PROVE  F[LastInstant] - Prior(F, s) + (T + 1) <= B + n - s
  <2>1. E[LastInstant] - Prior(E, s) + T <= B + n - s
    BY DEF Kept
  <2>2. s \in Keyed!Horizon /\ Prior(F, s) = Prior(E, s)
    BY <1>1, <1>5
  <2>3. Prior(E, s) \in Nat /\ E[LastInstant] \in Nat /\ s \in Nat /\ n \in Nat
    BY <1>1, <1>5, <1>6, <2>2
  <2> QED BY <1>1, <1>6, <2>1, <2>2, <2>3
<1>9. ASSUME NEW u \in Keyed!Horizon, u >= n
      PROVE  /\ F[LastInstant] - F[u] <= IF n - T > u THEN n - T - u ELSE 0
             /\ t = n - T =>
                  F[LastInstant] - F[u] <= IF n - (T + 1) > u THEN n - (T + 1) - u ELSE 0
  <2>1. E[LastInstant] - E[u] <= IF n - T > u THEN n - T - u ELSE 0
    BY <1>9 DEF Kept
  <2>2. F[u] = IF u >= t THEN E[u] - 1 ELSE E[u]
    BY <1>4
  <2>3. /\ E[u] \in Nat /\ E[LastInstant] \in Nat /\ u \in Nat /\ n \in Nat
        /\ t \in Nat
    BY <1>1, <1>6
  <2>4. E[u] <= E[LastInstant]
    BY <1>1, <1>3, <1>6
  <2> QED BY <1>6, <1>9, <2>1, <2>2, <2>3, <2>4
<1>10. ASSUME NEW s \in Keyed!Horizon, NEW u \in Keyed!Horizon, s <= u
       PROVE  F[u] - Prior(F, s) <= B + (u - s)
  <2>1. E[u] - Prior(E, s) <= B + (u - s)
    BY <1>10 DEF Kept
  <2>2. F[u] = IF u >= t THEN E[u] - 1 ELSE E[u]
    BY <1>4
  <2>3. E[u] \in Nat /\ Prior(E, s) \in Nat /\ u \in Nat /\ s \in Nat /\ t \in Nat
    BY <1>1, <1>5
  <2>4. CASE s <= t
    <3>1. Prior(F, s) = Prior(E, s)
      BY <1>5, <2>4
    <3> QED BY <1>1, <1>10, <2>1, <2>2, <2>3, <3>1
  <2>5. CASE s > t
    <3>1. Prior(F, s) = Prior(E, s) - 1 /\ u >= t
      BY <1>5, <1>10, <2>3, <2>5
    <3> QED BY <1>1, <2>1, <2>2, <2>3, <3>1
  <2> QED BY <2>3, <2>4, <2>5
<1>11. Kept(F, T, n)
  <2>1. ASSUME NEW s \in 0..n PROVE F[LastInstant] - Prior(F, s) + T <= B + n - s
    <3>1. s \in Keyed!Horizon /\ s <= t /\ s \in Nat /\ n \in Nat
      BY <1>1
    <3>2. Prior(F, s) \in Nat /\ F[LastInstant] \in Nat
      BY <1>4, <1>5, <1>6, <3>1
    <3>3. F[LastInstant] - Prior(F, s) + (T + 1) <= B + n - s
      BY <1>8
    <3> QED BY <1>1, <3>1, <3>2, <3>3
  <2> QED BY <1>7, <1>9, <1>10, <2>1 DEF Kept
<1>12. t = n - T => Kept(F, T + 1, n)
  BY <1>7, <1>8, <1>9, <1>10 DEF Kept
<1> QED BY <1>4, <1>11, <1>12 DEF F

-----------------------------------------------------------------------------
(* The limiter in use for a key is the last that was made for it.          *)
Bucket == [tokens : Int, last : Nat, lastEvent : Int]

LastBucket(k) == buckets[k][Len(buckets[k])]

Have(k) == IF buckets[k] = <<>> THEN B ELSE Keyed!Tokens(LastBucket(k))

Due(k) == now - Have(k)

KeyedPlaces ==
  {Keyed!Idle, [at |-> "closing"]}
    \cup [at : {"got"}, k : RateKeys, n : Nat, since : Nat]
    \cup [at : {"waiting"}, k : RateKeys, n : Nat, t : Keyed!Horizon]

KeyedTypes ==
  /\ now \in 0..MaxTime
  /\ buckets \in [RateKeys -> Seq(Bucket)]
  /\ limiters \in [RateKeys -> [n : Nat, lastTouch : Nat]]
  /\ closed \in BOOLEAN /\ sweeper \in BOOLEAN
  /\ call \in [Clients -> KeyedPlaces]
  /\ events \in [RateKeys -> [Keyed!Horizon -> Nat]]

(* An entry of the map is the key's last limiter; one that was swept was   *)
(* full, and one that is not full was used lately.                         *)
Account(k) ==
  /\ limiters[k].n \in {0, Len(buckets[k])}
  /\ limiters[k].n = 0 => limiters[k] = Keyed!NoEntry /\ Have(k) = B
  /\ limiters[k].lastTouch <= now
  /\ Have(k) < B => Due(k) <= limiters[k].lastTouch + MaxStall + MaxWait
  /\ buckets[k] # <<>> => LastBucket(k).last <= now
  /\ buckets[k] # <<>> /\ LastBucket(k).lastEvent > now => LastBucket(k).lastEvent = Due(k)

Accounts == \A k \in RateKeys : Account(k) /\ Kept(events[k], Have(k), now)

(* Whoever got a limiter uses it soon; whoever waits for a time to come    *)
(* has an event of its own then, paid by the limiter in use.               *)
Ahead(p) == call[p].at = "waiting" /\ call[p].t > now

Using(p) ==
  call[p].at = "got" =>
    /\ call[p].n = limiters[call[p].k].n /\ call[p].n # 0
    /\ call[p].since <= limiters[call[p].k].lastTouch
    /\ now <= call[p].since + MaxStall

Waiting(p) ==
  Ahead(p) =>
    /\ call[p].n = Len(buckets[call[p].k]) /\ call[p].n # 0
    /\ call[p].t <= Due(call[p].k)
    /\ events[call[p].k][call[p].t] > Prior(events[call[p].k], call[p].t)

Reserved ==
  /\ \A p \in Clients : Using(p) /\ Waiting(p)
  /\ \A p, q \in Clients :
       Ahead(p) /\ Ahead(q) /\ call[p].k = call[q].k /\ call[p].t = call[q].t => p = q

(* The inductive invariant.                                                *)
KeyedInv == KeyedTypes /\ Accounts /\ Reserved

LEMMA KeyedBounds ==
  ASSUME Keyed!KeyedAssumption
  PROVE  /\ B \in Nat /\ B >= 1 /\ TTL \in Nat
         /\ MaxWait \in Nat /\ MaxStall \in Nat /\ MaxTime \in Nat
         /\ Keyed!Horizon = 0..LastInstant /\ LastInstant \in Nat
         /\ LastInstant = MaxTime + MaxWait
BY DEF Keyed!KeyedAssumption, Keyed!Horizon, LastInstant

LEMMA LastBucketType ==
  ASSUME KeyedTypes, NEW k \in RateKeys, buckets[k] # <<>>
  PROVE  /\ Len(buckets[k]) \in Nat \ {0}
         /\ LastBucket(k) \in Bucket
         /\ LastBucket(k).tokens \in Int /\ LastBucket(k).last \in Nat
         /\ LastBucket(k).lastEvent \in Int
<1>1. buckets[k] \in Seq(Bucket)
  BY DEF KeyedTypes
<1>2. Len(buckets[k]) \in Nat \ {0}
  BY <1>1, EmptySeq
<1>3. LastBucket(k) \in Bucket
  BY <1>1, <1>2, ElementOfSeq DEF LastBucket
<1> QED BY <1>2, <1>3 DEF Bucket

LEMMA HaveType ==
  ASSUME Keyed!KeyedAssumption, KeyedTypes, NEW k \in RateKeys
  PROVE  Have(k) \in Int /\ Have(k) <= B /\ Due(k) \in Int /\ now \in Nat
<1>1. now \in Nat /\ B \in Nat
  BY KeyedBounds DEF KeyedTypes
<1>2. CASE buckets[k] = <<>>
  BY <1>1, <1>2 DEF Have, Due
<1>3. CASE buckets[k] # <<>>
  BY <1>1, <1>3, LastBucketType DEF Have, Due, Keyed!Tokens
<1> QED BY <1>2, <1>3

(* A new keyed limiter has granted nothing.                                *)
LEMMA KeyedInit ==
  ASSUME Keyed!KeyedAssumption, Keyed!Init PROVE KeyedInv
<1> USE DEF Keyed!Init
<1>1. KeyedTypes
  <2>1. buckets \in [RateKeys -> Seq(Bucket)]
    OBVIOUS
  <2>2. now \in 0..MaxTime
    BY KeyedBounds
  <2>3. limiters \in [RateKeys -> [n : Nat, lastTouch : Nat]]
    BY DEF Keyed!NoEntry
  <2>4. call \in [Clients -> KeyedPlaces]
    BY DEF KeyedPlaces
  <2>5. events \in [RateKeys -> [Keyed!Horizon -> Nat]]
    OBVIOUS
  <2> QED BY <2>1, <2>2, <2>3, <2>4, <2>5 DEF KeyedTypes
<1>2. ASSUME NEW k \in RateKeys PROVE Account(k) /\ Kept(events[k], Have(k), now)
  <2>1. /\ buckets[k] = <<>> /\ limiters[k] = Keyed!NoEntry /\ now = 0
        /\ events[k] = [t \in Keyed!Horizon |-> 0] /\ Have(k) = B
    BY DEF Have
  <2>2. Account(k)
    BY <2>1, KeyedBounds DEF Account, Keyed!NoEntry
  <2>3. \A s \in Keyed!Horizon : Prior(events[k], s) = 0 /\ events[k][s] = 0
    BY <2>1, KeyedBounds DEF Prior
  <2>4. LastInstant \in Keyed!Horizon /\ 0 \in Keyed!Horizon
    BY KeyedBounds
  <2>5. Kept(events[k], Have(k), now)
    <3>1. events[k][LastInstant] = 0 /\ Prior(events[k], 0) = 0
      BY <2>3, <2>4
    <3>2. \A s \in 0..now :
            events[k][LastInstant] - Prior(events[k], s) + Have(k) <= B + now - s
      <4>1. SUFFICES ASSUME NEW s \in 0..now
                     PROVE  events[k][LastInstant] - Prior(events[k], s) + Have(k) <= B + now - s
        OBVIOUS
      <4>2. s = 0
        BY <2>1
      <4> QED BY <2>1, <3>1, <4>2, KeyedBounds
    <3>3. \A u \in Keyed!Horizon :
            u >= now => events[k][LastInstant] - events[k][u]
                          <= IF now - Have(k) > u THEN now - Have(k) - u ELSE 0
      BY <2>1, <2>3, <2>4, KeyedBounds
    <3>4. \A s, t \in Keyed!Horizon :
            s <= t => /\ events[k][s] <= events[k][t]
                      /\ events[k][t] - Prior(events[k], s) <= B + (t - s)
      <4>1. SUFFICES ASSUME NEW s \in Keyed!Horizon, NEW t \in Keyed!Horizon, s <= t
                     PROVE  /\ events[k][s] <= events[k][t]
                            /\ events[k][t] - Prior(events[k], s) <= B + (t - s)
        OBVIOUS
      <4>2. events[k][s] = 0 /\ events[k][t] = 0 /\ Prior(events[k], s) = 0
        BY <2>3
      <4> QED BY <4>1, <4>2, KeyedBounds
    <3> QED BY <3>2, <3>3, <3>4 DEF Kept
  <2> QED BY <2>2, <2>5
<1>3. Reserved
  BY DEF Reserved, Using, Waiting, Ahead, Keyed!Idle
<1> QED BY <1>1, <1>2, <1>3 DEF KeyedInv, Accounts

(* A goroutine moves on without a token.                                   *)
LEMMA KeyedMove ==
  ASSUME Keyed!KeyedAssumption, KeyedInv, NEW p \in Clients,
         NEW stage \in {Keyed!Idle, [at |-> "closing"]}, call' = [call EXCEPT ![p] = stage],
         UNCHANGED <<now, buckets, limiters, events>>,
         closed' \in BOOLEAN, sweeper' \in BOOLEAN
  PROVE  KeyedInv'
<1>1. KeyedTypes'
  BY DEF KeyedInv, KeyedTypes, KeyedPlaces
<1>2. Accounts'
  BY DEF KeyedInv, Accounts, Account, Have, Due, LastBucket, Keyed!Tokens
<1>3. call'[p].at \notin {"got", "waiting"} /\ \A q \in Clients : q # p => call'[q] = call[q]
  BY DEF KeyedInv, KeyedTypes, Keyed!Idle
<1>4. Reserved'
  BY <1>3 DEF KeyedInv, Reserved, Using, Waiting, Ahead, Have, Due, LastBucket, Keyed!Tokens
<1> QED BY <1>1, <1>2, <1>4 DEF KeyedInv

(* Time passes: a bucket that is not full earns a token.                   *)
LEMMA KeyedTick ==
  ASSUME Keyed!KeyedAssumption, KeyedInv, Keyed!Tick PROVE KeyedInv'
<1>1. /\ now < MaxTime /\ now' = now + 1 /\ now \in 0..MaxTime /\ MaxTime \in Nat
      /\ UNCHANGED <<buckets, limiters, closed, sweeper, call, events>>
      /\ \A p \in Clients : call[p].at = "got" => now - call[p].since < MaxStall
  BY KeyedBounds DEF Keyed!Tick, KeyedInv, KeyedTypes
<1>2. KeyedTypes'
  BY <1>1 DEF KeyedInv, KeyedTypes
<1>3. ASSUME NEW k \in RateKeys
      PROVE  /\ Have(k)' = IF Have(k) < B THEN Have(k) + 1 ELSE B
             /\ Due(k)' = IF Have(k) < B THEN Due(k) ELSE now + 1 - B
  <2>1. CASE buckets[k] = <<>>
    BY <1>1, <2>1, KeyedBounds DEF Have, Due
  <2>2. CASE buckets[k] # <<>>
    <3>1. LastBucket(k)' = LastBucket(k)
      BY <1>1 DEF LastBucket
    <3>2. /\ Have(k) = Keyed!Tokens(LastBucket(k))
          /\ Have(k)' = Keyed!Tokens(LastBucket(k))'
      BY <1>1, <2>2 DEF Have
    <3>3. LastBucket(k).tokens \in Int /\ LastBucket(k).last \in Nat
      BY <2>2, LastBucketType DEF KeyedInv
    <3> DEFINE earned == LastBucket(k).tokens + (now - LastBucket(k).last)
    <3>6. earned \in Int /\ B \in Nat
      BY <1>1, <3>3, KeyedBounds
    <3>7. Have(k) = IF earned < B THEN earned ELSE B
      BY <3>2 DEF Keyed!Tokens
    <3>8. Have(k)' = IF earned' < B THEN earned' ELSE B
      BY <1>1, <3>2 DEF Keyed!Tokens
    <3>9. earned' = earned + 1
      BY <1>1, <3>1, <3>3
    <3>4. Have(k)' = IF Have(k) < B THEN Have(k) + 1 ELSE B
      <4> HIDE DEF earned
      <4> QED BY <3>6, <3>7, <3>8, <3>9
    <3>5. Have(k) \in Int /\ Have(k) <= B
      BY HaveType DEF KeyedInv
    <3> QED BY <1>1, <3>4, <3>5, KeyedBounds DEF Due
  <2> QED BY <2>1, <2>2
<1>4. ASSUME NEW k \in RateKeys PROVE (Account(k) /\ Kept(events[k], Have(k), now))'
  <2>1. Account(k) /\ Kept(events[k], Have(k), now)
    BY DEF KeyedInv, Accounts
  <2>2. Have(k) \in Int /\ Have(k) <= B /\ B \in Nat /\ now \in Nat
    BY HaveType, KeyedBounds DEF KeyedInv
  <2>3. limiters[k].lastTouch \in Nat
    BY DEF KeyedInv, KeyedTypes
  <2>4. buckets[k] # <<>> =>
          LastBucket(k).last \in Nat /\ LastBucket(k).lastEvent \in Int
    BY LastBucketType DEF KeyedInv
  <2>5. LastBucket(k)' = LastBucket(k)
    BY <1>1 DEF LastBucket
  <2>6. Due(k) = now - Have(k)
    BY DEF Due
  <2>7. Account(k)'
    BY <1>1, <1>3, <2>1, <2>2, <2>3, <2>4, <2>5, <2>6 DEF Account, Keyed!NoEntry
  <2>8. events[k] \in [Keyed!Horizon -> Nat]
    BY DEF KeyedInv, KeyedTypes
  <2>9. Kept(events[k], IF Have(k) < B THEN Have(k) + 1 ELSE B, now + 1)
    BY <1>1, <2>1, <2>2, <2>8, KeptTick
  <2>10. Kept(events[k], Have(k), now)'
    BY <1>1, <1>3, <2>9 DEF Kept
  <2> QED BY <2>7, <2>10
<1>5. Reserved'
  <2>1. ASSUME NEW p \in Clients PROVE Using(p)' /\ Waiting(p)' /\ (Ahead(p)' => Ahead(p))
    <3>1. Using(p) /\ Waiting(p) /\ call[p] \in KeyedPlaces
      BY DEF KeyedInv, Reserved, KeyedTypes
    <3>2. Using(p)'
      <4>1. call[p].at = "got" => call[p].since \in Nat
        BY <3>1 DEF KeyedPlaces, Keyed!Idle
      <4> QED BY <1>1, <3>1, <4>1, KeyedBounds DEF Using
    <3>3. call[p].at = "waiting" => call[p].t \in Nat /\ call[p].k \in RateKeys
      BY <3>1, KeyedBounds DEF KeyedPlaces, Keyed!Idle
    <3>4. Ahead(p)' => Ahead(p)
      BY <1>1, <3>3 DEF Ahead
    <3>5. ASSUME Ahead(p)', NEW k \in RateKeys, k = call[p].k PROVE call[p].t <= Due(k)'
      <4>1. call[p].t <= Due(k) /\ call[p].t > now
        BY <3>1, <3>4, <3>5 DEF Waiting, Ahead
      <4>2. Have(k) \in Int /\ Due(k) = now - Have(k)
        BY HaveType DEF Due, KeyedInv
      <4>3. CASE Have(k) < B
        BY <1>3, <4>1, <4>3
      <4>4. CASE ~(Have(k) < B)
        <5>1. B \in Nat /\ call[p].t \in Nat
          BY <1>1, <3>3, <3>5, KeyedBounds DEF Ahead
        <5> QED BY <1>1, <4>1, <4>2, <4>4, <5>1
      <4> QED BY <4>3, <4>4
    <3>6. Waiting(p)'
      <4>1. Ahead(p)' => call[p].t <= Due(call[p].k)'
        BY <1>1, <3>3, <3>4, <3>5 DEF Ahead
      <4> QED BY <1>1, <3>1, <3>4, <4>1 DEF Waiting, Prior
    <3> QED BY <3>2, <3>4, <3>6
  <2>2. \A p, q \in Clients :
          Ahead(p)' /\ Ahead(q)' /\ call[p].k = call[q].k /\ call[p].t = call[q].t => p = q
    BY <2>1 DEF KeyedInv, Reserved
  <2>3. (\A p, q \in Clients :
          Ahead(p) /\ Ahead(q) /\ call[p].k = call[q].k /\ call[p].t = call[q].t => p = q)'
    BY <1>1, <2>2
  <2> QED BY <2>1, <2>3 DEF Reserved
<1> QED BY <1>2, <1>4, <1>5 DEF KeyedInv, Accounts

(* The sweeper finds a limiter that has been full for a while, with nobody *)
(* on the way to it and no event to come.                                  *)
LEMMA KeyedSweep ==
  ASSUME Keyed!KeyedAssumption, Keyed!LongEnough, KeyedInv, Keyed!Sweep PROVE KeyedInv'
<1>1. /\ limiters' = [k \in RateKeys |-> IF Keyed!Expired(k) THEN Keyed!NoEntry ELSE limiters[k]]
      /\ UNCHANGED <<now, buckets, closed, sweeper, call, events>>
  BY DEF Keyed!Sweep
<1>2. /\ limiters \in [RateKeys -> [n : Nat, lastTouch : Nat]]
      /\ call \in [Clients -> KeyedPlaces]
  BY DEF KeyedInv, KeyedTypes
<1>3. KeyedTypes'
  <2>1. Keyed!NoEntry \in [n : Nat, lastTouch : Nat]
    BY DEF Keyed!NoEntry
  <2> QED BY <1>1, <1>2, <2>1 DEF KeyedInv, KeyedTypes
<1>4. \A k \in RateKeys : Have(k)' = Have(k) /\ Due(k)' = Due(k) /\ LastBucket(k)' = LastBucket(k)
  BY <1>1 DEF Have, Due, LastBucket, Keyed!Tokens
<1>5. ASSUME NEW k \in RateKeys, Keyed!Expired(k) PROVE Have(k) = B /\ Due(k) < now
  <2>1. Have(k) \in Int /\ Have(k) <= B /\ now \in Nat /\ limiters[k].lastTouch \in Nat
    BY <1>2, HaveType DEF KeyedInv
  <2>2. now - limiters[k].lastTouch >= TTL
    BY <1>5 DEF Keyed!Expired
  <2>3. Have(k) < B => now - Have(k) <= limiters[k].lastTouch + MaxStall + MaxWait
    BY DEF KeyedInv, Accounts, Account, Due
  <2>4. TTL >= MaxStall + B + MaxWait
    BY DEF Keyed!LongEnough
  <2>5. ~(Have(k) < B)
    <3>1. B \in Nat /\ TTL \in Nat /\ MaxStall \in Nat /\ MaxWait \in Nat
      BY KeyedBounds
    <3>2. now - limiters[k].lastTouch >= MaxStall + B + MaxWait
      BY <2>1, <2>2, <2>4, <3>1
    <3> QED BY <2>1, <2>3, <3>1, <3>2
  <2>6. Have(k) = B
    BY <2>1, <2>5, KeyedBounds
  <2> QED BY <2>1, <2>6, KeyedBounds DEF Due
<1>6. ASSUME NEW k \in RateKeys PROVE (Account(k) /\ Kept(events[k], Have(k), now))'
  <2>1. Account(k) /\ Kept(events[k], Have(k), now)
    BY DEF KeyedInv, Accounts
  <2>2. Kept(events[k], Have(k), now)'
    BY <1>1, <1>4, <2>1 DEF Kept
  <2>3. CASE Keyed!Expired(k)
    <3>1. limiters'[k] = Keyed!NoEntry /\ Have(k)' = B /\ now' = now /\ now \in Nat
      BY <1>1, <1>4, <1>5, <2>3, HaveType DEF KeyedInv
    <3>2. buckets[k] # <<>> => LastBucket(k).lastEvent <= now \/ LastBucket(k).lastEvent = Due(k)
      <4>1. buckets[k] # <<>> => LastBucket(k).lastEvent \in Int
        BY LastBucketType DEF KeyedInv
      <4> QED BY <2>1, <3>1, <4>1 DEF Account
    <3> QED BY <1>1, <1>4, <2>1, <2>2, <3>1, <3>2, KeyedBounds DEF Account, Keyed!NoEntry
  <2>4. CASE ~Keyed!Expired(k)
    <3>1. limiters'[k] = limiters[k]
      BY <1>1, <2>4
    <3> QED BY <1>1, <1>4, <2>1, <2>2, <3>1 DEF Account
  <2> QED BY <2>3, <2>4
<1>7. Reserved'
  <2>1. ASSUME NEW p \in Clients PROVE Using(p)' /\ Waiting(p)'
    <3>1. Using(p) /\ Waiting(p) /\ call[p] \in KeyedPlaces
      BY <1>2 DEF KeyedInv, Reserved
    <3>2. Using(p)'
      <4>1. SUFFICES ASSUME call[p].at = "got" PROVE ~Keyed!Expired(call[p].k)
        BY <1>1, <3>1, <4>1 DEF Using, KeyedPlaces, Keyed!Idle
      <4>2. call[p].k \in RateKeys /\ call[p].since \in Nat
        BY <3>1, <4>1 DEF KeyedPlaces, Keyed!Idle
      <4>3. /\ call[p].since <= limiters[call[p].k].lastTouch
            /\ now <= call[p].since + MaxStall
        BY <3>1, <4>1 DEF Using
      <4>4. limiters[call[p].k].lastTouch \in Nat /\ now \in Nat
        BY <1>2, <4>2, HaveType DEF KeyedInv
      <4>5. TTL >= MaxStall + B + MaxWait
        BY DEF Keyed!LongEnough
      <4>7. MaxStall < TTL
        BY <4>5, KeyedBounds
      <4>8. now - limiters[call[p].k].lastTouch <= MaxStall
        <5>1. MaxStall \in Nat
          BY KeyedBounds
        <5> QED BY <4>2, <4>3, <4>4, <5>1
      <4>6. now - limiters[call[p].k].lastTouch < TTL
        <5>1. MaxStall \in Nat /\ TTL \in Nat
          BY KeyedBounds
        <5> QED BY <4>4, <4>7, <4>8, <5>1
      <4> QED BY <4>4, <4>6, KeyedBounds DEF Keyed!Expired
    <3>3. Waiting(p)'
      <4>1. Ahead(p) => call[p].k \in RateKeys
        BY <3>1 DEF KeyedPlaces, Keyed!Idle, Ahead
      <4> QED BY <1>1, <1>4, <3>1, <4>1 DEF Waiting, Ahead, Prior
    <3> QED BY <3>2, <3>3
  <2>2. (\A p, q \in Clients :
          Ahead(p) /\ Ahead(q) /\ call[p].k = call[q].k /\ call[p].t = call[q].t => p = q)'
    BY <1>1 DEF KeyedInv, Reserved, Ahead
  <2> QED BY <2>1, <2>2 DEF Reserved
<1> QED BY <1>3, <1>6, <1>7 DEF KeyedInv, Accounts

(* A key that is not touched keeps its account.                            *)
LEMMA KeyedAside ==
  ASSUME KeyedInv, NEW k \in RateKeys, now' = now, buckets'[k] = buckets[k],
         limiters'[k] = limiters[k], events'[k] = events[k]
  PROVE  /\ Have(k)' = Have(k) /\ Due(k)' = Due(k)
         /\ (Account(k) /\ Kept(events[k], Have(k), now))'
<1>1. Have(k)' = Have(k) /\ LastBucket(k)' = LastBucket(k) /\ Due(k)' = Due(k)
  BY DEF Have, Due, LastBucket, Keyed!Tokens
<1>2. Account(k) /\ Kept(events[k], Have(k), now)
  BY DEF KeyedInv, Accounts
<1> QED BY <1>1, <1>2 DEF Account, Kept

(* A limiter in the map is touched, or a full one is made.                 *)
LEMMA KeyedGet ==
  ASSUME Keyed!KeyedAssumption, KeyedInv, NEW p \in Clients, NEW k \in RateKeys,
         Keyed!GetLimiter(p, k)
  PROVE  KeyedInv'
<1> DEFINE fresh == [tokens |-> B, last |-> now, lastEvent |-> 0]
           n == IF limiters[k] = Keyed!NoEntry THEN Len(buckets[k]) + 1 ELSE limiters[k].n
           got == [at |-> "got", k |-> k, n |-> n, since |-> now]
<1>1. /\ call[p] = Keyed!Idle
      /\ buckets' = IF limiters[k] # Keyed!NoEntry THEN buckets
                    ELSE [buckets EXCEPT ![k] = Append(buckets[k], fresh)]
      /\ limiters' = [limiters EXCEPT ![k] = [n |-> n, lastTouch |-> now]]
      /\ call' = [call EXCEPT ![p] = got]
      /\ UNCHANGED <<now, closed, sweeper, events>>
  BY DEF Keyed!GetLimiter, Keyed!Touched
<1>2. /\ buckets \in [RateKeys -> Seq(Bucket)] /\ buckets[k] \in Seq(Bucket)
      /\ limiters \in [RateKeys -> [n : Nat, lastTouch : Nat]]
      /\ call \in [Clients -> KeyedPlaces]
      /\ now \in 0..MaxTime /\ now \in Nat /\ B \in Nat
      /\ Len(buckets[k]) \in Nat
  BY KeyedBounds DEF KeyedInv, KeyedTypes
<1>3. Account(k) /\ Kept(events[k], Have(k), now)
  BY DEF KeyedInv, Accounts
<1>4. limiters[k] = Keyed!NoEntry <=> limiters[k].n = 0
  BY <1>3 DEF Account, Keyed!NoEntry
<1>5. n \in Nat \ {0}
  BY <1>2, <1>4
<1>6. fresh \in Bucket
  BY <1>2 DEF Bucket
<1>7. /\ buckets'[k] \in Seq(Bucket) /\ n = Len(buckets'[k]) /\ buckets'[k] # <<>>
      /\ Have(k)' = Have(k) /\ LastBucket(k)'.last <= now
      /\ LastBucket(k)'.lastEvent > now => LastBucket(k)'.lastEvent = Due(k)
  <2>1. CASE limiters[k] # Keyed!NoEntry
    <3>1. buckets' = buckets /\ now' = now
      BY <1>1, <2>1
    <3>2. Have(k)' = Have(k) /\ LastBucket(k)' = LastBucket(k)
      BY <3>1 DEF Have, LastBucket, Keyed!Tokens
    <3>3. n = Len(buckets[k]) /\ n # 0
      BY <1>3, <1>4, <2>1 DEF Account
    <3>4. buckets[k] # <<>>
      BY <1>2, <3>3, EmptySeq
    <3> QED BY <1>2, <1>3, <3>1, <3>2, <3>3, <3>4 DEF Account
  <2>2. CASE limiters[k] = Keyed!NoEntry
    <3>1. buckets'[k] = Append(buckets[k], fresh)
      BY <1>1, <1>2, <2>2
    <3>2. /\ buckets'[k] \in Seq(Bucket) /\ Len(buckets'[k]) = Len(buckets[k]) + 1
          /\ buckets'[k][Len(buckets[k]) + 1] = fresh
      BY <1>2, <1>6, <3>1, AppendProperties
    <3>3. LastBucket(k)' = fresh /\ n = Len(buckets'[k])
      BY <2>2, <3>2 DEF LastBucket
    <3>4. buckets'[k] # <<>>
      BY <1>2, <3>2, EmptySeq
    <3>5. Have(k) = B
      BY <1>3, <1>4, <2>2 DEF Account
    <3>6. Have(k)' = Keyed!Tokens(LastBucket(k))'
      BY <3>4 DEF Have
    <3>7. now' = now /\ fresh.tokens = B /\ fresh.last = now /\ fresh.lastEvent = 0
      BY <1>1
    <3>8. Have(k)' = B
      BY <1>2, <3>3, <3>6, <3>7 DEF Keyed!Tokens
    <3> QED BY <1>2, <3>2, <3>3, <3>4, <3>5, <3>7, <3>8
  <2> QED BY <2>1, <2>2
<1>8. limiters'[k] = [n |-> n, lastTouch |-> now] /\ limiters[k].lastTouch \in Nat
  BY <1>1, <1>2
<1> HIDE DEF n, fresh
<1>9. \A j \in RateKeys : j # k => buckets'[j] = buckets[j] /\ limiters'[j] = limiters[j]
  BY <1>1, <1>2
<1>10. KeyedTypes'
  <2>1. buckets' \in [RateKeys -> Seq(Bucket)]
    BY <1>1, <1>2, <1>7
  <2>2. limiters' \in [RateKeys -> [n : Nat, lastTouch : Nat]]
    BY <1>1, <1>2, <1>5
  <2>3. call' \in [Clients -> KeyedPlaces]
    BY <1>1, <1>2, <1>5 DEF KeyedPlaces
  <2> QED BY <1>1, <2>1, <2>2, <2>3 DEF KeyedInv, KeyedTypes
<1>11. Due(k)' = Due(k) /\ now' = now /\ events' = events
  BY <1>1, <1>7 DEF Due
<1>12. ASSUME NEW j \in RateKeys PROVE (Account(j) /\ Kept(events[j], Have(j), now))'
  <2>1. CASE j # k
    BY <1>9, <1>11, <2>1, KeyedAside
  <2>2. CASE j = k
    <3>1. Kept(events[k], Have(k), now)'
      BY <1>3, <1>7, <1>11 DEF Kept
    <3>2. Have(k) \in Int /\ Due(k) = now - Have(k)
      BY HaveType DEF KeyedInv, Due
    <3>3. Have(k) < B => Due(k) <= now + MaxStall + MaxWait
      <4>1. MaxStall \in Nat /\ MaxWait \in Nat
        BY KeyedBounds
      <4>2. Have(k) < B =>
              Due(k) <= limiters[k].lastTouch + MaxStall + MaxWait /\ limiters[k].lastTouch <= now
        BY <1>3 DEF Account
      <4> QED BY <1>2, <1>8, <3>2, <4>1, <4>2
    <3>4. Account(k)'
      BY <1>2, <1>5, <1>7, <1>8, <1>11, <3>3 DEF Account
    <3> QED BY <2>2, <3>1, <3>4
  <2> QED BY <2>1, <2>2
<1>13. \A q \in Clients : q # p => call'[q] = call[q]
  BY <1>1, <1>2
<1>14. call'[p] = got
  BY <1>1, <1>2
<1>15. ASSUME NEW q \in Clients PROVE Using(q)' /\ Waiting(q)' /\ (Ahead(q)' => q # p /\ Ahead(q))
  <2>1. CASE q = p
    <3>1. Using(p)'
      BY <1>2, <1>5, <1>8, <1>11, <1>14, KeyedBounds DEF Using
    <3> QED BY <1>14, <2>1, <3>1 DEF Waiting, Ahead
  <2>2. CASE q # p
    <3>1. call'[q] = call[q] /\ Using(q) /\ Waiting(q) /\ call[q] \in KeyedPlaces
      BY <1>2, <1>13, <2>2 DEF KeyedInv, Reserved
    <3>2. Ahead(q)' => Ahead(q)
      BY <1>11, <3>1 DEF Ahead
    <3>3. CASE call[q].at \notin {"got", "waiting"}
      BY <3>1, <3>2, <3>3, <2>2 DEF Using, Waiting, Ahead
    <3>4. CASE call[q].at \in {"got", "waiting"} /\ call[q].k # k
      <4>1. PICK j \in RateKeys : j = call[q].k
        BY <3>1, <3>4 DEF KeyedPlaces, Keyed!Idle
      <4>2. buckets'[j] = buckets[j] /\ limiters'[j] = limiters[j] /\ Due(j)' = Due(j)
        BY <1>9, <1>11, <3>4, <4>1, KeyedAside
      <4> QED BY <1>11, <2>2, <3>1, <3>2, <4>1, <4>2 DEF Using, Waiting, Ahead
    <3>5. CASE call[q].at \in {"got", "waiting"} /\ call[q].k = k
      <4>1. Using(q)'
        <5>1. SUFFICES ASSUME call[q].at = "got" PROVE Using(q)'
          BY <3>1 DEF Using
        <5>2. /\ call[q].n = limiters[k].n /\ call[q].n # 0 /\ call[q].since \in Nat
              /\ call[q].since <= limiters[k].lastTouch /\ now <= call[q].since + MaxStall
          BY <3>1, <3>5, <5>1 DEF Using, KeyedPlaces, Keyed!Idle
        <5>3. n = limiters[k].n
          BY <1>4, <5>2 DEF n
        <5>4. limiters[k].lastTouch <= now
          BY <1>3 DEF Account
        <5> QED BY <1>2, <1>8, <1>11, <3>1, <3>5, <5>2, <5>3, <5>4 DEF Using
      <4>2. Waiting(q)'
        <5>1. SUFFICES ASSUME Ahead(q) PROVE Waiting(q)'
          BY <3>2 DEF Waiting
        <5>2. /\ call[q].n = Len(buckets[k]) /\ call[q].n # 0 /\ call[q].t \in Nat
              /\ call[q].t <= Due(k) /\ call[q].t > now
          BY <3>1, <3>5, <5>1, KeyedBounds DEF Waiting, Ahead, KeyedPlaces, Keyed!Idle
        <5>3. Have(k) \in Int /\ Due(k) = now - Have(k)
          BY HaveType DEF KeyedInv, Due
        <5>4. Have(k) # B
          BY <1>2, <5>2, <5>3
        <5>5. limiters[k] # Keyed!NoEntry
          BY <1>3, <1>4, <5>4 DEF Account
        <5>6. n = Len(buckets[k])
          BY <1>3, <1>4, <5>5 DEF n, Account
        <5> QED BY <1>7, <1>11, <3>1, <3>5, <5>1, <5>2, <5>6 DEF Waiting, Ahead
      <4> QED BY <2>2, <3>2, <4>1, <4>2
    <3> QED BY <3>3, <3>4, <3>5
  <2> QED BY <2>1, <2>2
<1>16. Reserved'
  <2>1. ASSUME NEW q \in Clients, NEW r \in Clients, Ahead(q)', Ahead(r)',
               call'[q].k = call'[r].k, call'[q].t = call'[r].t
        PROVE  q = r
    <3>1. call'[q] = call[q] /\ call'[r] = call[r] /\ Ahead(q) /\ Ahead(r)
      BY <1>13, <1>15, <2>1
    <3> QED BY <2>1, <3>1 DEF KeyedInv, Reserved
  <2> QED BY <1>15, <2>1 DEF Reserved
<1> QED BY <1>10, <1>12, <1>16 DEF KeyedInv, Accounts

(* A token is taken by Allow or by Wait.                                   *)
LEMMA KeyedTake ==
  ASSUME Keyed!KeyedAssumption, KeyedInv, NEW p \in Clients, call[p].at = "got",
         NEW k \in RateKeys, k = call[p].k, NEW t \in Keyed!Horizon,
         Keyed!TakeToken(call[p], t),
         (Have(k) >= 1 /\ t = now)
           \/ (Have(k) <= 0 /\ t = now + 1 - Have(k) /\ 1 - Have(k) <= MaxWait),
         call' = [call EXCEPT ![p] = Keyed!Idle]
           \/ call' = [call EXCEPT ![p] =
                         [at |-> "waiting", k |-> call[p].k, n |-> call[p].n, t |-> t]],
         UNCHANGED <<now, limiters, closed, sweeper>>
  PROVE  KeyedInv'
<1>1. /\ buckets \in [RateKeys -> Seq(Bucket)] /\ buckets[k] \in Seq(Bucket)
      /\ limiters \in [RateKeys -> [n : Nat, lastTouch : Nat]]
      /\ limiters[k].lastTouch \in Nat
      /\ call \in [Clients -> KeyedPlaces]
      /\ events \in [RateKeys -> [Keyed!Horizon -> Nat]]
      /\ events[k] \in [Keyed!Horizon -> Nat]
      /\ now \in 0..MaxTime /\ now \in Nat /\ B \in Nat /\ t \in Nat
      /\ MaxWait \in Nat /\ MaxStall \in Nat
      /\ Keyed!Horizon = 0..LastInstant /\ LastInstant \in Nat
  <2>1. /\ B \in Nat /\ MaxWait \in Nat /\ MaxStall \in Nat /\ MaxTime \in Nat
        /\ Keyed!Horizon = 0..LastInstant /\ LastInstant \in Nat
    BY KeyedBounds
  <2>2. /\ buckets \in [RateKeys -> Seq(Bucket)]
        /\ limiters \in [RateKeys -> [n : Nat, lastTouch : Nat]]
        /\ call \in [Clients -> KeyedPlaces]
        /\ events \in [RateKeys -> [Keyed!Horizon -> Nat]]
        /\ now \in 0..MaxTime
    BY DEF KeyedInv, KeyedTypes
  <2>3. t \in Nat /\ now \in Nat
    BY <2>1, <2>2
  <2>4. limiters[k].lastTouch \in Nat
    BY <2>2
  <2> QED BY <2>1, <2>2, <2>3, <2>4
<1>2. Account(k) /\ Kept(events[k], Have(k), now) /\ Using(p)
  BY DEF KeyedInv, Accounts, Reserved
<1>3. /\ Have(k) \in Int /\ Have(k) <= B /\ Due(k) = now - Have(k)
  BY HaveType DEF KeyedInv, Due
<1>4. /\ call[p].n = limiters[k].n /\ call[p].n = Len(buckets[k]) /\ call[p].n # 0
      /\ now <= limiters[k].lastTouch + MaxStall
  <2>1. call[p].since \in Nat
    <3>1. call[p] \in KeyedPlaces
      BY <1>1
    <3> QED BY <3>1 DEF KeyedPlaces, Keyed!Idle
  <2>2. /\ call[p].n = limiters[k].n /\ call[p].n # 0
        /\ call[p].since <= limiters[k].lastTouch /\ now <= call[p].since + MaxStall
    BY <1>2 DEF Using
  <2>3. call[p].n = Len(buckets[k])
    BY <1>2, <2>2 DEF Account
  <2> QED BY <1>1, <2>1, <2>2, <2>3
<1> DEFINE n == Len(buckets[k])
           used == [tokens |-> Have(k) - 1, last |-> now, lastEvent |-> t]
           counted == Keyed!Counted(events[k], t, 1)
<1>5. n \in 1..Len(buckets[k]) /\ n \in Nat /\ buckets[k] # <<>>
  BY <1>1, <1>4, EmptySeq
<1>6. /\ buckets' = [buckets EXCEPT ![k] = [buckets[k] EXCEPT ![n] = used]]
      /\ events' = [events EXCEPT ![k] = counted]
  <2>1. Have(k) = Keyed!Tokens(buckets[k][n])
    BY <1>5 DEF Have, LastBucket
  <2> QED BY <1>4, <2>1 DEF Keyed!TakeToken
<1>7. used \in Bucket
  BY <1>1, <1>3 DEF Bucket
<1>8. /\ buckets'[k] = [buckets[k] EXCEPT ![n] = used]
      /\ buckets'[k] \in Seq(Bucket) /\ Len(buckets'[k]) = n /\ buckets'[k] # <<>>
      /\ LastBucket(k)' = used
  <2>1. buckets'[k] = [buckets[k] EXCEPT ![n] = used]
    BY <1>1, <1>6
  <2>2. buckets'[k] \in Seq(Bucket) /\ Len(buckets'[k]) = n
    BY <1>1, <1>5, <1>7, <2>1, ExceptSeq
  <2>3. buckets'[k][n] = used
    BY <1>1, <1>5, <2>1
  <2> QED BY <1>5, <2>1, <2>2, <2>3, EmptySeq DEF LastBucket
<1>9. Have(k)' = Have(k) - 1 /\ Due(k)' = Due(k) + 1
  <2>1. Have(k)' = Keyed!Tokens(LastBucket(k))'
    BY <1>8 DEF Have
  <2>2. Have(k)' = Have(k) - 1
    BY <1>1, <1>3, <1>8, <2>1 DEF Keyed!Tokens
  <2> QED BY <1>1, <1>3, <2>2 DEF Due
<1>10. /\ counted \in [Keyed!Horizon -> Nat]
       /\ Kept(counted, Have(k) - 1, now)
  BY <1>1, <1>2, <1>3, KeptTake
<1>11. \A u \in Keyed!Horizon :
         counted[u] = IF u >= t THEN events[k][u] + 1 ELSE events[k][u]
  BY DEF Keyed!Counted
<1>12. /\ events'[k] = counted
       /\ \A j \in RateKeys : j # k => buckets'[j] = buckets[j] /\ events'[j] = events[j]
  BY <1>1, <1>6
<1> HIDE DEF n, used, counted
<1>13. KeyedTypes'
  <2>1. buckets' \in [RateKeys -> Seq(Bucket)]
    BY <1>1, <1>6, <1>8
  <2>2. events' \in [RateKeys -> [Keyed!Horizon -> Nat]]
    BY <1>1, <1>6, <1>10
  <2>3. call[p].n \in Nat
    BY <1>4, <1>5 DEF n
  <2>4. call' \in [Clients -> KeyedPlaces]
    <3>1. /\ Keyed!Idle \in KeyedPlaces
          /\ [at |-> "waiting", k |-> call[p].k, n |-> call[p].n, t |-> t] \in KeyedPlaces
      BY <2>3 DEF KeyedPlaces
    <3> QED BY <1>1, <3>1
  <2> QED BY <2>1, <2>2, <2>4 DEF KeyedInv, KeyedTypes
<1>14. Due(k)' <= now + MaxWait /\ (t > now => t = Due(k)') /\ t <= now + MaxWait
  BY <1>1, <1>3, <1>9
<1>15. Account(k)'
  <2>1. Due(k)' <= limiters[k].lastTouch + MaxStall + MaxWait
    <3>1. Have(k) >= 1 => Due(k)' <= now
      BY <1>1, <1>3, <1>9
    <3>2. Have(k) <= 0 => Due(k)' <= now + MaxWait
      BY <1>14
    <3>3. Due(k)' \in Int
      BY <1>1, <1>3, <1>9
    <3>4. Due(k)' <= now + MaxWait
      BY <1>1, <1>3, <3>1, <3>2, <3>3
    <3>5. now <= limiters[k].lastTouch + MaxStall
      BY <1>4
    <3> QED
      <4>1. limiters[k].lastTouch \in Nat /\ MaxStall \in Nat /\ MaxWait \in Nat /\ now \in Nat
        BY <1>1
      <4> QED BY <3>3, <3>4, <3>5, <4>1
  <2>2. LastBucket(k)'.last = now /\ LastBucket(k)'.lastEvent = t
    BY <1>8 DEF used
  <2> QED BY <1>1, <1>2, <1>4, <1>8, <1>14, <2>1, <2>2 DEF Account, n
<1>16. ASSUME NEW j \in RateKeys PROVE (Account(j) /\ Kept(events[j], Have(j), now))'
  <2>1. CASE j # k
    BY <1>12, <2>1, KeyedAside
  <2>2. CASE j = k
    BY <1>9, <1>10, <1>12, <1>15, <2>2 DEF Kept
  <2> QED BY <2>1, <2>2
<1>17. \A q \in Clients : q # p => call'[q] = call[q]
  BY <1>1
<1>18. ASSUME NEW q \in Clients, q # p
       PROVE  /\ Using(q)' /\ Waiting(q)' /\ (Ahead(q)' => Ahead(q))
              /\ Ahead(q)' /\ call[q].k = k => call[q].t <= Due(k) /\ call[q].t \in Nat
  <2>1. call'[q] = call[q] /\ Using(q) /\ Waiting(q) /\ call[q] \in KeyedPlaces
    BY <1>1, <1>17, <1>18 DEF KeyedInv, Reserved
  <2>2. Using(q)'
    BY <2>1 DEF Using
  <2>3. Ahead(q)' <=> Ahead(q)
    BY <2>1 DEF Ahead
  <2>4. CASE ~Ahead(q)
    BY <2>2, <2>3, <2>4 DEF Waiting
  <2>5. CASE Ahead(q) /\ call[q].k # k
    <3>1. PICK j \in RateKeys : j = call[q].k
      BY <2>1, <2>5 DEF Ahead, KeyedPlaces, Keyed!Idle
    <3>2. buckets'[j] = buckets[j] /\ events'[j] = events[j] /\ Due(j)' = Due(j)
      BY <1>12, <2>5, <3>1, KeyedAside
    <3> QED BY <2>1, <2>2, <2>3, <2>5, <3>1, <3>2 DEF Waiting, Prior
  <2>6. CASE Ahead(q) /\ call[q].k = k
    <3>1. /\ call[q].n = n /\ call[q].n # 0 /\ call[q].t \in Keyed!Horizon
          /\ call[q].t <= Due(k) /\ call[q].t > now /\ call[q].t \in Nat
          /\ events[k][call[q].t] > Prior(events[k], call[q].t)
      BY <2>1, <2>6, KeyedBounds DEF Waiting, Ahead, KeyedPlaces, Keyed!Idle, n
    <3>2. PICK u \in Keyed!Horizon : u = call[q].t
      BY <3>1
    <3>3. u - 1 \in Keyed!Horizon /\ u \in Nat /\ u # 0
      <4>1. u \in Nat /\ u > now /\ u \in 0..LastInstant
        BY <1>1, <3>1, <3>2
      <4> QED BY <1>1, <4>1
    <3>4. events[k][u] > events[k][u - 1]
      BY <3>1, <3>2, <3>3 DEF Prior
    <3>5. counted[u] > counted[u - 1]
      <4>1. /\ counted[u] = IF u >= t THEN events[k][u] + 1 ELSE events[k][u]
            /\ counted[u - 1] = IF u - 1 >= t THEN events[k][u - 1] + 1 ELSE events[k][u - 1]
        BY <1>11, <3>3
      <4>2. events[k][u] \in Nat /\ events[k][u - 1] \in Nat
        BY <1>1, <3>3
      <4>3. u \in Nat /\ t \in Nat
        BY <1>1, <3>3
      <4>4. CASE u - 1 >= t
        BY <3>4, <4>1, <4>2, <4>3, <4>4
      <4>5. CASE ~(u - 1 >= t)
        BY <3>4, <4>1, <4>2, <4>3, <4>5
      <4> QED BY <4>4, <4>5
    <3>6. counted[u] > Prior(counted, u)
      BY <3>3, <3>5 DEF Prior
    <3>7. u <= Due(k)'
      BY <1>3, <1>9, <3>1, <3>2, <1>1
    <3>8. Waiting(q)'
      BY <1>8, <1>12, <2>1, <2>6, <3>1, <3>2, <3>6, <3>7 DEF Waiting, Prior
    <3> QED BY <2>2, <2>3, <3>1, <3>8
  <2> QED BY <2>4, <2>5, <2>6
<1>19. Using(p)' /\ Waiting(p)' /\ (Ahead(p)' => call'[p].k = k /\ call'[p].t = t /\ t > now)
  <2>1. CASE call' = [call EXCEPT ![p] = Keyed!Idle]
    <3>1. call'[p].at = "idle"
      BY <1>1, <2>1 DEF Keyed!Idle
    <3> QED BY <3>1 DEF Using, Waiting, Ahead
  <2>2. CASE call' = [call EXCEPT ![p] =
                        [at |-> "waiting", k |-> call[p].k, n |-> call[p].n, t |-> t]]
    <3>1. call'[p] = [at |-> "waiting", k |-> k, n |-> n, t |-> t]
      BY <1>1, <1>4, <2>2 DEF n
    <3>2. Using(p)' /\ (Ahead(p)' => call'[p].k = k /\ call'[p].t = t /\ t > now)
      BY <3>1 DEF Using, Ahead
    <3>3. ASSUME t > now PROVE counted[t] > Prior(counted, t)
      <4>1. t - 1 \in Keyed!Horizon /\ t # 0
        BY <1>1, <3>3
      <4>2. events[k][t - 1] <= events[k][t]
        <5>1. \A s, u \in Keyed!Horizon : s <= u => events[k][s] <= events[k][u]
          BY <1>2 DEF Kept
        <5>2. t - 1 <= t
          BY <1>1
        <5> QED BY <4>1, <5>1, <5>2
      <4>3. counted[t] = events[k][t] + 1 /\ counted[t - 1] = events[k][t - 1]
        BY <1>1, <1>11, <4>1
      <4>4. events[k][t] \in Nat /\ events[k][t - 1] \in Nat
        BY <1>1, <4>1
      <4> QED BY <4>1, <4>2, <4>3, <4>4 DEF Prior
    <3>4. ASSUME Ahead(p)' PROVE t <= Due(k)' /\ counted[t] > Prior(counted, t)
      BY <1>1, <1>3, <1>9, <1>14, <3>2, <3>3, <3>4
    <3>5. Waiting(p)'
      BY <1>4, <1>8, <1>12, <3>1, <3>4 DEF Waiting, Prior, n
    <3> QED BY <3>2, <3>5
  <2> QED BY <2>1, <2>2
<1>20. Reserved'
  <2>1. ASSUME NEW q \in Clients, NEW r \in Clients, Ahead(q)', Ahead(r)',
               call'[q].k = call'[r].k, call'[q].t = call'[r].t, q # r
        PROVE  FALSE
    <3>1. ASSUME NEW x \in Clients, x # p, Ahead(x)', Ahead(p)', call'[x].k = call'[p].k
          PROVE  call'[x].t # call'[p].t
      <4>1. call'[x] = call[x] /\ call[x].t <= Due(k) /\ call[x].t \in Nat
        BY <1>17, <1>18, <1>19, <3>1
      <4>2. call'[p].t = t /\ t = Due(k) + 1
        BY <1>1, <1>3, <1>9, <1>14, <1>19, <3>1
      <4> QED BY <1>1, <1>3, <4>1, <4>2
    <3>2. q # p /\ r # p
      BY <2>1, <3>1
    <3> QED BY <1>17, <1>18, <2>1, <3>2 DEF KeyedInv, Reserved
  <2> QED BY <1>18, <1>19, <2>1 DEF Reserved
<1> QED BY <1>13, <1>16, <1>20 DEF KeyedInv, Accounts

(* A Wait is cancelled before its time has come.                           *)
LEMMA KeyedCancel ==
  ASSUME Keyed!KeyedAssumption, KeyedInv, NEW p \in Clients, Keyed!WaitCancelled(p)
  PROVE  KeyedInv'
<1>1. /\ buckets \in [RateKeys -> Seq(Bucket)]
      /\ limiters \in [RateKeys -> [n : Nat, lastTouch : Nat]]
      /\ call \in [Clients -> KeyedPlaces]
      /\ events \in [RateKeys -> [Keyed!Horizon -> Nat]]
      /\ now \in 0..MaxTime /\ now \in Nat /\ B \in Nat /\ B >= 1
      /\ MaxWait \in Nat /\ MaxStall \in Nat
      /\ Keyed!Horizon = 0..LastInstant /\ LastInstant \in Nat
  <2>1. /\ B \in Nat /\ B >= 1 /\ MaxWait \in Nat /\ MaxStall \in Nat /\ MaxTime \in Nat
        /\ Keyed!Horizon = 0..LastInstant /\ LastInstant \in Nat
    BY KeyedBounds
  <2>2. /\ buckets \in [RateKeys -> Seq(Bucket)]
        /\ limiters \in [RateKeys -> [n : Nat, lastTouch : Nat]]
        /\ call \in [Clients -> KeyedPlaces]
        /\ events \in [RateKeys -> [Keyed!Horizon -> Nat]]
        /\ now \in 0..MaxTime
    BY DEF KeyedInv, KeyedTypes
  <2> QED BY <2>1, <2>2
<1>2. /\ call[p].at = "waiting" /\ now < call[p].t
      /\ call[p].k \in RateKeys /\ call[p].t \in Keyed!Horizon
  <2>1. call[p] \in KeyedPlaces
    BY <1>1
  <2> QED BY <2>1 DEF Keyed!WaitCancelled, KeyedPlaces, Keyed!Idle
<1>3. PICK k \in RateKeys, t \in Keyed!Horizon : k = call[p].k /\ t = call[p].t
  BY <1>2
<1>4. t \in Nat /\ now < t /\ Ahead(p)
  BY <1>1, <1>2, <1>3 DEF Ahead
<1>5. /\ Account(k) /\ Kept(events[k], Have(k), now)
      /\ Have(k) \in Int /\ Have(k) <= B /\ Due(k) = now - Have(k)
      /\ buckets[k] \in Seq(Bucket) /\ events[k] \in [Keyed!Horizon -> Nat]
      /\ limiters[k].lastTouch \in Nat
  BY <1>1, HaveType DEF KeyedInv, Accounts, Due
<1>6. /\ call[p].n = Len(buckets[k]) /\ call[p].n # 0 /\ t <= Due(k)
      /\ events[k][t] > Prior(events[k], t)
  BY <1>3, <1>4 DEF KeyedInv, Reserved, Waiting
<1> DEFINE n == Len(buckets[k])
           back == [tokens |-> Have(k) + 1, last |-> now, lastEvent |-> t - 1]
           counted == Keyed!Counted(events[k], t, -1)
<1>7. /\ n \in 1..Len(buckets[k]) /\ n \in Nat /\ buckets[k] # <<>>
      /\ Have(k) < 0
  BY <1>1, <1>4, <1>5, <1>6, EmptySeq
<1>8. /\ buckets' = IF LastBucket(k).lastEvent = t
                    THEN [buckets EXCEPT ![k] = [buckets[k] EXCEPT ![n] = back]]
                    ELSE buckets
      /\ events' = [events EXCEPT ![k] = counted]
      /\ call' = [call EXCEPT ![p] = Keyed!Idle]
      /\ UNCHANGED <<now, limiters, closed, sweeper>>
  <2>1. Have(k) = Keyed!Tokens(buckets[k][n])
    BY <1>7 DEF Have, LastBucket
  <2>2. Have(k) + 1 < B
    BY <1>1, <1>5, <1>7
  <2> QED BY <1>3, <1>6, <2>1, <2>2 DEF Keyed!WaitCancelled, LastBucket
<1>9. back \in Bucket
  BY <1>1, <1>4, <1>5 DEF Bucket
<1>10. /\ counted \in [Keyed!Horizon -> Nat] /\ Kept(counted, Have(k), now)
       /\ t = now - Have(k) => Kept(counted, Have(k) + 1, now)
  BY <1>1, <1>4, <1>5, <1>6, KeptCancel
<1>11. \A u \in Keyed!Horizon :
         counted[u] = IF u >= t THEN events[k][u] + (-1) ELSE events[k][u]
  BY DEF Keyed!Counted
<1>12. /\ events'[k] = counted
       /\ \A j \in RateKeys : j # k => buckets'[j] = buckets[j] /\ events'[j] = events[j]
  BY <1>1, <1>8
<1>13. /\ buckets'[k] \in Seq(Bucket) /\ Len(buckets'[k]) = n /\ buckets'[k] # <<>>
       /\ Kept(counted, Have(k)', now) /\ Due(k)' <= Due(k)
       /\ Account(k)'
       /\ \A u \in Nat : u <= Due(k) /\ u # t => u <= Due(k)'
  <2>1. CASE LastBucket(k).lastEvent = t
    <3>1. buckets'[k] = [buckets[k] EXCEPT ![n] = back]
      BY <1>1, <1>8, <2>1
    <3>2. buckets'[k] \in Seq(Bucket) /\ Len(buckets'[k]) = n
      BY <1>5, <1>7, <1>9, <3>1, ExceptSeq
    <3>3. buckets'[k][n] = back /\ buckets'[k] # <<>>
      BY <1>5, <1>7, <3>1, <3>2, EmptySeq
    <3>4. LastBucket(k)' = back /\ Have(k)' = Keyed!Tokens(LastBucket(k))'
      BY <3>2, <3>3 DEF LastBucket, Have
    <3>5. Have(k)' = Have(k) + 1
      BY <1>1, <1>5, <1>7, <1>8, <3>4 DEF Keyed!Tokens
    <3>6. Due(k)' = Due(k) - 1
      BY <1>1, <1>5, <1>8, <3>5 DEF Due
    <3>7. Due(k) = t
      BY <1>4, <1>5, <1>7, <2>1 DEF Account
    <3>8. Kept(counted, Have(k)', now)
      BY <1>5, <1>10, <3>5, <3>7
    <3>9. Account(k)'
      <4>1. LastBucket(k)'.last = now /\ LastBucket(k)'.lastEvent = t - 1
        BY <3>4
      <4>2. Due(k) <= limiters[k].lastTouch + MaxStall + MaxWait
        BY <1>1, <1>5, <1>7 DEF Account
      <4>3. Due(k)' <= limiters[k].lastTouch + MaxStall + MaxWait
        <5>1. /\ limiters[k].lastTouch + MaxStall + MaxWait \in Int
              /\ Due(k) \in Int
          BY <1>1, <1>4, <1>5, <3>7
        <5> QED BY <3>6, <4>2, <5>1
      <4>4. limiters[k].n # 0
        BY <1>1, <1>5, <1>7 DEF Account
      <4> QED BY <1>1, <1>5, <1>8, <3>2, <3>3, <3>6, <3>7, <4>1, <4>3, <4>4 DEF Account
    <3> QED BY <1>4, <3>2, <3>3, <3>6, <3>7, <3>8, <3>9
  <2>2. CASE LastBucket(k).lastEvent # t
    <3>1. buckets' = buckets
      BY <1>8, <2>2
    <3>2. Have(k)' = Have(k) /\ Due(k)' = Due(k) /\ LastBucket(k)' = LastBucket(k)
      BY <1>8, <3>1 DEF Have, Due, LastBucket, Keyed!Tokens
    <3>3. Account(k)'
      BY <1>5, <1>8, <3>1, <3>2 DEF Account
    <3> QED BY <1>1, <1>5, <1>7, <1>10, <3>1, <3>2, <3>3
  <2> QED BY <2>1, <2>2
<1> HIDE DEF n, back, counted
<1>14. KeyedTypes'
  <2>1. buckets' \in [RateKeys -> Seq(Bucket)]
    BY <1>1, <1>8, <1>13
  <2>2. events' \in [RateKeys -> [Keyed!Horizon -> Nat]]
    BY <1>1, <1>8, <1>10
  <2>3. call' \in [Clients -> KeyedPlaces]
    <3>1. Keyed!Idle \in KeyedPlaces
      BY DEF KeyedPlaces
    <3> QED BY <1>1, <1>8, <3>1
  <2> QED BY <1>8, <2>1, <2>2, <2>3 DEF KeyedInv, KeyedTypes
<1>15. ASSUME NEW j \in RateKeys PROVE (Account(j) /\ Kept(events[j], Have(j), now))'
  <2>1. CASE j # k
    BY <1>8, <1>12, <2>1, KeyedAside
  <2>2. CASE j = k
    BY <1>8, <1>12, <1>13, <2>2 DEF Kept
  <2> QED BY <2>1, <2>2
<1>16. call'[p].at = "idle" /\ \A q \in Clients : q # p => call'[q] = call[q]
  BY <1>1, <1>8 DEF Keyed!Idle
<1>17. ASSUME NEW q \in Clients PROVE Using(q)' /\ Waiting(q)' /\ (Ahead(q)' => q # p /\ Ahead(q))
  <2>1. CASE q = p
    BY <1>16, <2>1 DEF Using, Waiting, Ahead
  <2>2. CASE q # p
    <3>1. call'[q] = call[q] /\ Using(q) /\ Waiting(q) /\ call[q] \in KeyedPlaces
      BY <1>1, <1>16, <2>2 DEF KeyedInv, Reserved
    <3>2. Using(q)'
      BY <1>8, <3>1 DEF Using
    <3>3. Ahead(q)' <=> Ahead(q)
      BY <1>8, <3>1 DEF Ahead
    <3>4. CASE ~Ahead(q)
      BY <3>2, <3>3, <3>4 DEF Waiting
    <3>5. CASE Ahead(q) /\ call[q].k # k
      <4>1. PICK j \in RateKeys : j = call[q].k
        BY <3>1, <3>5 DEF Ahead, KeyedPlaces, Keyed!Idle
      <4>2. buckets'[j] = buckets[j] /\ events'[j] = events[j] /\ Due(j)' = Due(j)
        BY <1>8, <1>12, <3>5, <4>1, KeyedAside
      <4> QED BY <1>8, <2>2, <3>1, <3>2, <3>3, <3>5, <4>1, <4>2 DEF Waiting, Prior
    <3>6. CASE Ahead(q) /\ call[q].k = k
      <4>1. /\ call[q].n = n /\ call[q].n # 0 /\ call[q].t \in Keyed!Horizon
            /\ call[q].t <= Due(k) /\ call[q].t > now
            /\ events[k][call[q].t] > Prior(events[k], call[q].t)
        BY <3>1, <3>6 DEF Waiting, Ahead, KeyedPlaces, Keyed!Idle, n
      <4>2. PICK u \in Keyed!Horizon : u = call[q].t
        BY <4>1
      <4>3. u # t
        BY <1>3, <1>4, <2>2, <3>6, <4>2 DEF KeyedInv, Reserved
      <4>4. u - 1 \in Keyed!Horizon /\ u \in Nat /\ u # 0
        <5>1. u \in Nat /\ u > now /\ u \in 0..LastInstant
          BY <1>1, <4>1, <4>2
        <5> QED BY <1>1, <5>1
      <4>5. events[k][u] > events[k][u - 1]
        BY <4>1, <4>2, <4>4 DEF Prior
      <4>6. counted[u] > counted[u - 1]
        <5>1. /\ counted[u] = IF u >= t THEN events[k][u] + (-1) ELSE events[k][u]
              /\ counted[u - 1] = IF u - 1 >= t THEN events[k][u - 1] + (-1) ELSE events[k][u - 1]
          BY <1>11, <4>4
        <5>2. events[k][u] \in Nat /\ events[k][u - 1] \in Nat
          BY <1>5, <4>4
        <5>3. CASE u > t
          BY <1>4, <4>4, <4>5, <5>1, <5>2, <5>3
        <5>4. CASE u < t
          BY <1>4, <4>4, <4>5, <5>1, <5>2, <5>4
        <5> QED BY <1>4, <4>3, <4>4, <5>3, <5>4
      <4>7. counted[u] > Prior(counted, u)
        BY <4>4, <4>6 DEF Prior
      <4>8. u <= Due(k)'
        BY <1>13, <4>1, <4>2, <4>3, <4>4
      <4>9. Waiting(q)'
        BY <1>12, <1>13, <3>1, <3>6, <4>1, <4>2, <4>7, <4>8 DEF Waiting, Prior
      <4> QED BY <2>2, <3>2, <3>3, <4>9
    <3> QED BY <3>4, <3>5, <3>6
  <2> QED BY <2>1, <2>2
<1>18. Reserved'
  <2>1. ASSUME NEW q \in Clients, NEW r \in Clients, Ahead(q)', Ahead(r)',
               call'[q].k = call'[r].k, call'[q].t = call'[r].t
        PROVE  q = r
    <3>1. call'[q] = call[q] /\ call'[r] = call[r] /\ Ahead(q) /\ Ahead(r)
      BY <1>16, <1>17, <2>1
    <3> QED BY <2>1, <3>1 DEF KeyedInv, Reserved
  <2> QED BY <1>17, <2>1 DEF Reserved
<1> QED BY <1>14, <1>15, <1>18 DEF KeyedInv, Accounts

(* Every step of the keyed limiter preserves the invariant.                *)
LEMMA KeyedStep ==
  ASSUME Keyed!KeyedAssumption, Keyed!LongEnough, KeyedInv, [Keyed!Next]_(Keyed!vars)
  PROVE  KeyedInv'
<1>1. ASSUME NEW p \in Clients, NEW k \in RateKeys, Keyed!GetLimiter(p, k) PROVE KeyedInv'
  BY <1>1, KeyedGet
<1>2. ASSUME NEW p \in Clients, call[p].at = "got"
      PROVE  /\ call[p].k \in RateKeys
             /\ buckets[call[p].k][call[p].n] = LastBucket(call[p].k)
             /\ Keyed!Tokens(buckets[call[p].k][call[p].n]) = Have(call[p].k)
             /\ Have(call[p].k) \in Int
  <2>1. call[p] \in KeyedPlaces
    BY DEF KeyedInv, KeyedTypes
  <2>2. PICK k \in RateKeys : k = call[p].k
    BY <1>2, <2>1 DEF KeyedPlaces, Keyed!Idle
  <2>3. call[p].n = Len(buckets[k]) /\ call[p].n # 0
    BY <1>2, <2>2 DEF KeyedInv, Reserved, Using, Accounts, Account
  <2>4. buckets[k] # <<>>
    BY <2>3, EmptySeq
  <2> QED BY <2>2, <2>3, <2>4, HaveType DEF KeyedInv, LastBucket, Have
<1>3. closed \in BOOLEAN /\ sweeper \in BOOLEAN /\ now \in Keyed!Horizon /\ now \in Nat
  <2>1. now \in 0..MaxTime
    BY DEF KeyedInv, KeyedTypes
  <2> QED BY <2>1, KeyedBounds DEF KeyedInv, KeyedTypes
<1>4. ASSUME NEW p \in Clients, Keyed!Allow(p) PROVE KeyedInv'
  <2>1. /\ call[p].at = "got" /\ call' = [call EXCEPT ![p] = Keyed!Idle]
        /\ UNCHANGED <<now, limiters, closed, sweeper>>
    BY <1>4 DEF Keyed!Allow
  <2>2. CASE Have(call[p].k) >= 1
    <3>1. Keyed!TakeToken(call[p], now)
      BY <1>2, <1>4, <2>1, <2>2 DEF Keyed!Allow
    <3> QED BY <1>2, <1>3, <2>1, <2>2, <3>1, KeyedTake
  <2>3. CASE ~(Have(call[p].k) >= 1)
    <3>1. UNCHANGED <<buckets, events>>
      BY <1>2, <1>4, <2>1, <2>3 DEF Keyed!Allow
    <3> QED BY <1>3, <2>1, <3>1, KeyedMove
  <2> QED BY <2>2, <2>3
<1>5. ASSUME NEW p \in Clients, Keyed!Wait(p) PROVE KeyedInv'
  <2> DEFINE missing == 1 - Have(call[p].k)
             t == IF missing > 0 THEN now + missing ELSE now
  <2>1. call[p].at = "got"
    BY <1>5 DEF Keyed!Wait
  <2>2. /\ \/ /\ missing <= MaxWait
              /\ Keyed!TakeToken(call[p], t)
              /\ call' = [call EXCEPT ![p] =
                            [at |-> "waiting", k |-> call[p].k, n |-> call[p].n, t |-> t]]
           \/ /\ call' = [call EXCEPT ![p] = Keyed!Idle]
              /\ UNCHANGED <<buckets, events>>
        /\ UNCHANGED <<now, limiters, closed, sweeper>>
    BY <1>2, <1>5, <2>1 DEF Keyed!Wait
  <2>3. PICK k \in RateKeys : k = call[p].k
    BY <1>2, <2>1
  <2>4. Have(k) \in Int /\ missing \in Int /\ missing = 1 - Have(k)
    BY <1>2, <2>1, <2>3
  <2>5. CASE UNCHANGED <<buckets, events>> /\ call' = [call EXCEPT ![p] = Keyed!Idle]
    BY <1>3, <2>2, <2>5, KeyedMove
  <2>6. CASE /\ missing <= MaxWait
             /\ Keyed!TakeToken(call[p], t)
             /\ call' = [call EXCEPT ![p] =
                           [at |-> "waiting", k |-> call[p].k, n |-> call[p].n, t |-> t]]
    <3>1. /\ (Have(k) >= 1 /\ t = now)
               \/ (Have(k) <= 0 /\ t = now + 1 - Have(k) /\ 1 - Have(k) <= MaxWait)
          /\ t \in Keyed!Horizon
      <4>1. now \in 0..MaxTime /\ MaxTime \in Nat /\ MaxWait \in Nat
            /\ Keyed!Horizon = 0..(MaxTime + MaxWait)
        BY KeyedBounds DEF KeyedInv, KeyedTypes, Keyed!Horizon
      <4> QED BY <2>4, <2>6, <4>1
    <3> QED BY <2>1, <2>2, <2>3, <2>6, <3>1, KeyedTake
  <2> QED BY <2>2, <2>5, <2>6
<1>6. ASSUME NEW p \in Clients, Keyed!WaitDone(p) \/ Keyed!Close(p) \/ Keyed!CloseReturns(p)
      PROVE  KeyedInv'
  BY <1>3, <1>6, KeyedMove DEF Keyed!WaitDone, Keyed!Close, Keyed!CloseReturns
<1>7. ASSUME NEW p \in Clients, Keyed!WaitCancelled(p) PROVE KeyedInv'
  BY <1>7, KeyedCancel
<1>8. CASE Keyed!SweepLoopEnds \/ UNCHANGED Keyed!vars
  <2>1. /\ UNCHANGED <<now, buckets, limiters, call, events>>
        /\ closed' \in BOOLEAN /\ sweeper' \in BOOLEAN
    BY <1>3, <1>8 DEF Keyed!SweepLoopEnds, Keyed!vars
  <2> QED BY <2>1 DEF KeyedInv, KeyedTypes, Accounts, Account, Kept, Have, Due, LastBucket,
            Keyed!Tokens, Reserved, Using, Waiting, Ahead, Prior
<1> QED BY <1>1, <1>4, <1>5, <1>6, <1>7, <1>8, KeyedTick, KeyedSweep DEF Keyed!Next

(* A key keeps its rate: no stretch of time has more events than the burst *)
(* and what is earned meanwhile, although the sweeper drops limiters that  *)
(* goroutines may hold (sekisho.go:65-124).                                *)
THEOREM RateSafety ==
  ASSUME Keyed!KeyedAssumption, Keyed!LongEnough PROVE Keyed!Spec => []RateKept
<1>1. Keyed!Init => KeyedInv
  BY KeyedInit
<1>2. KeyedInv /\ [Keyed!Next]_(Keyed!vars) => KeyedInv'
  BY KeyedStep
<1>3. KeyedInv => RateKept
  <2> SUFFICES ASSUME KeyedInv PROVE RateKept
    OBVIOUS
  <2>1. Keyed!TypeOK
    BY DEF KeyedInv, KeyedTypes, Accounts, Account, Keyed!TypeOK
  <2>2. ASSUME NEW k \in RateKeys, NEW s \in Keyed!Horizon, NEW t \in Keyed!Horizon, s <= t
        PROVE  Keyed!Granted(k, s, t) <= B + (t - s)
    BY <2>2 DEF KeyedInv, Accounts, Kept, Prior, Keyed!Granted, Keyed!Earlier
  <2> QED BY <2>1, <2>2 DEF RateKept, Keyed!RateKept
<1> QED BY <1>1, <1>2, <1>3, PTL DEF Keyed!Spec
-----------------------------------------------------------------------------
(* The key locks.  KeyLockProofs proves the properties of the key locks by *)
(* themselves; here they are those of the instance in MCCalls.             *)
Shown == INSTANCE KeyLockProofs WITH
           count <- refCount, owner <- mutexOf, pc <- place2, key <- keyOf,
           ref <- refOf

(* Both instances assume the same and make the same steps.                 *)
LEMMA LocksSame ==
  /\ Locks!KeyLockAssumption <=> Shown!KeyLockAssumption
  /\ Locks!Init <=> Shown!Init
  /\ [Locks!Next]_(Locks!vars) <=> [Shown!Next]_(Shown!vars)
<1>1. Locks!KeyLockAssumption <=> Shown!KeyLockAssumption
  BY DEF Locks!KeyLockAssumption, Shown!KeyLockAssumption,
         Locks!IsFiniteSet, Shown!IsFiniteSet
<1>2. /\ Locks!Init <=> Shown!Init
      /\ [Locks!Next]_(Locks!vars) <=> [Shown!Next]_(Shown!vars)
  BY DEF Locks!Init, Locks!Next, Locks!Lock, Locks!LockAcquire,
           Locks!Unlock, Locks!UnlockRelease, Locks!TryLock,
           Locks!TryAttempt, Locks!TryBackout, Locks!ForceUnlock,
           Locks!ForceRelease, Locks!MutexUnlock, Locks!Enter,
           Locks!Leave, Locks!Fresh, Locks!Unused, Locks!At,
           Locks!Running, Locks!InUse, Locks!Counted, Locks!AnyKey,
           Locks!vars, Shown!Init, Shown!Next, Shown!Lock,
           Shown!LockAcquire, Shown!Unlock, Shown!UnlockRelease,
           Shown!TryLock, Shown!TryAttempt, Shown!TryBackout,
           Shown!ForceUnlock, Shown!ForceRelease, Shown!MutexUnlock,
           Shown!Enter, Shown!Leave, Shown!Fresh, Shown!Unused, Shown!At,
           Shown!Running, Shown!InUse, Shown!Counted, Shown!AnyKey,
           Shown!vars
<1> QED BY <1>1, <1>2

(* Two goroutines never hold one key, across the removal and re-creation   *)
(* of its entry (keylock.go:79-116).                                       *)
THEOREM LockExclusion ==
  ASSUME Locks!KeyLockAssumption
  PROVE  Locks!Spec => []MutualExclusion
<1>1. Shown!Spec => []Shown!MutualExclusion
  BY LocksSame, Shown!Exclusion
<1>2. Shown!MutualExclusion <=> MutualExclusion
  BY DEF Shown!MutualExclusion, Shown!Safe, MutualExclusion,
         Locks!MutualExclusion, Locks!Safe
<1> QED BY <1>1, <1>2, LocksSame, PTL DEF Locks!Spec, Shown!Spec

(* The map holds the keys in use with their exact counts, and no Unlock    *)
(* panics (keylock.go:79-149).                                             *)
THEOREM LockCounts ==
  ASSUME Locks!KeyLockAssumption
  PROVE  Locks!Spec => []RefsCounted
<1>1. Shown!Spec => []Shown!RefsCounted
  BY LocksSame, Shown!CountSafety
<1>2. Shown!RefsCounted <=> RefsCounted
  BY DEF Shown!RefsCounted, Shown!TypeOK, Shown!Safe, Shown!Users,
         Shown!Counted, Shown!InUse, Shown!Cardinality, Shown!IsFiniteSet,
         RefsCounted, Locks!RefsCounted, Locks!TypeOK, Locks!Safe,
         Locks!Users, Locks!Counted, Locks!InUse, Locks!Cardinality,
         Locks!IsFiniteSet
<1> QED BY <1>1, <1>2, LocksSame, PTL DEF Locks!Spec, Shown!Spec
=============================================================================
