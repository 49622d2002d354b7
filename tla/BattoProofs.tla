---------------------------- MODULE BattoProofs ----------------------------
(***************************************************************************)
(* Proofs that the Group of batto, for any number of callers and of keys,  *)
(* has a result for whoever is registered, lets nobody find a call that is *)
(* finished or given up, and runs one worker per key.                      *)
(***************************************************************************)
EXTENDS Batto, FiniteSetTheorems, TLAPS

(* What the two mutexes promise their holders.                             *)
Locks ==
  /\ \A p \in Procs : pc[p] = "joining" <=> gmu = p
  /\ \A c \in Calls : gmu = c => work[c] \in {"returned", "panicked"}
  /\ \A p \in Procs : pc[p] = "leaving" => cmu[cur[p]] = p

(* A caller inside the package is in a call, and brings an empty channel.  *)
Placed ==
  \A p \in Procs :
    /\ pc[p] # "idle" => cur[p] \in Calls
    /\ pc[p] \in {"idle", "joining"} => box[p] = "empty"

(* A caller inside wait is registered or has its result; whoever drains    *)
(* found the call done, whoever leaves found it open and keeps it so.      *)
Registered ==
  \A p \in Procs : pc[p] \in InCall =>
    /\ IF call[cur[p]].done THEN box[p] # "empty"
       ELSE p \in call[cur[p]].waiters /\ box[p] = "empty" /\ work[cur[p]] # "none"
    /\ pc[p] = "draining" => call[cur[p]].done
    /\ pc[p] = "leaving" => ~call[cur[p]].done

(* An open call has nobody registered who is elsewhere, and a call with a  *)
(* worker is open.                                                         *)
OpenCalls ==
  \A c \in Calls :
    /\ ~call[c].done => \A p \in call[c].waiters : pc[p] \in InCall /\ cur[p] = c
    /\ work[c] # "none" => ~call[c].done

(* A call in the map has a worker, and whoever is about to join a call     *)
(* found it there and keeps it there.                                      *)
Mapped ==
  /\ \A k \in Keys : m[k] # NoCall => work[m[k]] # "none"
  /\ \A p \in Procs : pc[p] = "joining" => \E k \in Keys : m[k] = cur[p]

(* The worker of a key is that of the call in the map.                     *)
LiveMapped == \A k \in Keys \ stale : \A c \in Live(k) : m[k] = c

(* The inductive invariant.                                                *)
IInv ==
  /\ TypeOK /\ Locks /\ Placed /\ Registered /\ OpenCalls
  /\ Mapped /\ MapHoldsLive /\ LiveMapped

Call == [key : Keys, waiters : SUBSET Procs, initiator : Procs \cup {NoCall},
         done : BOOLEAN, panicked : BOOLEAN, cancelled : BOOLEAN]

-----------------------------------------------------------------------------
(* At first no key is in flight.                                           *)
LEMMA InitIInv == Init => IInv
<1> SUFFICES ASSUME Init PROVE IInv
  OBVIOUS
<1> USE BattoAssumption DEF Init
<1>1. NoRecord \in Call
  BY DEF NoRecord, Call
<1>2. TypeOK
  BY <1>1 DEF TypeOK, Call
<1>3. Locks /\ Placed /\ Registered
  BY DEF Locks, Placed, Registered, InCall
<1>4. OpenCalls /\ MapHoldsLive /\ Mapped
  BY DEF OpenCalls, MapHoldsLive, CancelledAlone, Mapped, NoRecord
<1>5. LiveMapped
  BY DEF LiveMapped, Live
<1> QED BY <1>2, <1>3, <1>4, <1>5 DEF IInv

(* Do starts a call under a name nobody refers to.                         *)
LEMMA StartIInv ==
  ASSUME IInv, NEW p \in Procs, NEW k \in Keys, DoStart(p, k)
  PROVE  IInv'
<1> USE BattoAssumption
<1>0. TypeOK /\ Locks /\ Placed /\ Registered /\ OpenCalls
      /\ Mapped /\ MapHoldsLive /\ LiveMapped
  BY DEF IInv
<1>1. PICK c \in Calls :
        /\ Garbage(c)
        /\ call' = [call EXCEPT ![c] = NewCall(p, k)]
        /\ m' = [m EXCEPT ![k] = c]
        /\ work' = [work EXCEPT ![c] = "running"]
        /\ cur' = [cur EXCEPT ![p] = c]
  BY DEF DoStart
<1>2. /\ pc[p] = "idle" /\ m[k] = NoCall /\ gmu = Free
      /\ pc' = [pc EXCEPT ![p] = "waiting"]
      /\ gmu' = gmu /\ cmu' = cmu /\ box' = box /\ stale' = stale
  BY DEF DoStart
<1>3. work[c] = "none" /\ \A q \in Procs : cur[q] # c
  BY <1>1 DEF Garbage
<1>4. NewCall(p, k) \in Call
  BY DEF NewCall, Call
<1>5. TypeOK'
  BY <1>0, <1>1, <1>2, <1>4 DEF TypeOK, Call, InCall
<1>6. /\ call'[c] = NewCall(p, k)
      /\ \A d \in Calls : d # c => call'[d] = call[d] /\ work'[d] = work[d]
      /\ work'[c] = "running"
      /\ \A q \in Procs : q # p => pc'[q] = pc[q] /\ cur'[q] = cur[q]
      /\ pc'[p] = "waiting" /\ cur'[p] = c
      /\ m'[k] = c /\ \A l \in Keys : l # k => m'[l] = m[l]
  BY <1>0, <1>1, <1>2 DEF TypeOK
<1>7. Locks' /\ Placed'
  BY <1>0, <1>2, <1>3, <1>6 DEF Locks, Placed, TypeOK
<1>8. Registered'
  BY <1>0, <1>2, <1>3, <1>6 DEF Registered, Placed, NewCall, InCall
<1>9. OpenCalls'
  BY <1>0, <1>2, <1>3, <1>6 DEF OpenCalls, TypeOK, NewCall, InCall
<1>10. Mapped'
  <2>1. \A q \in Procs : pc'[q] # "joining"
    BY <1>0, <1>2, <1>6 DEF Locks
  <2>2. \A l \in Keys : m'[l] # NoCall => work'[m'[l]] # "none"
    <3> SUFFICES ASSUME NEW l \in Keys, m'[l] # NoCall PROVE work'[m'[l]] # "none"
      OBVIOUS
    <3>1. CASE l = k
      BY <1>6, <3>1
    <3>2. CASE l # k
      <4>1. m'[l] = m[l] /\ m[l] \in Calls /\ work[m[l]] # "none"
        BY <1>0, <1>6, <3>2 DEF TypeOK, Mapped
      <4> QED BY <1>3, <1>6, <4>1
    <3> QED BY <3>1, <3>2
  <2> QED BY <2>1, <2>2 DEF Mapped
<1>11. MapHoldsLive'
  <2>1. CancelledAlone'
    BY <1>0, <1>2, <1>3, <1>6 DEF MapHoldsLive, CancelledAlone, NewCall
  <2>2. ASSUME NEW l \in Keys, m'[l] # NoCall
        PROVE  /\ call'[m'[l]].key = l
               /\ ~call'[m'[l]].done /\ ~call'[m'[l]].cancelled
               /\ call'[m'[l]].waiters # {}
    <3>1. CASE l = k
      BY <1>6, <3>1 DEF NewCall
    <3>2. CASE l # k
      <4>1. m'[l] = m[l] /\ m[l] \in Calls /\ work[m[l]] # "none"
        BY <1>0, <1>6, <2>2, <3>2 DEF TypeOK, Mapped
      <4>2. call'[m[l]] = call[m[l]]
        BY <1>3, <1>6, <4>1
      <4> QED BY <1>0, <2>2, <4>1, <4>2 DEF MapHoldsLive
    <3> QED BY <3>1, <3>2
  <2> QED BY <2>1, <2>2 DEF MapHoldsLive
<1>12. LiveMapped'
  BY <1>0, <1>2, <1>3, <1>6 DEF LiveMapped, Live, NewCall, TypeOK
<1> QED BY <1>5, <1>7, <1>8, <1>9, <1>10, <1>11, <1>12 DEF IInv

(* The steps that neither change the map nor a call nor a worker.          *)
LEMMA CallerIInv ==
  ASSUME IInv, NEW p \in Procs,
         \/ \E k \in Keys : DoFind(p, k)
         \/ Receive(p) \/ CtxDone(p) \/ WaitLock(p)
  PROVE  IInv'
<1> USE BattoAssumption
<1>0. TypeOK /\ Locks /\ Placed /\ Registered /\ OpenCalls
      /\ Mapped /\ MapHoldsLive /\ LiveMapped
  BY DEF IInv
<1>a. /\ m' = m /\ call' = call /\ work' = work /\ stale' = stale
      /\ \A q \in Procs : q # p => pc'[q] = pc[q] /\ cur'[q] = cur[q] /\ box'[q] = box[q]
  BY <1>0 DEF DoFind, Receive, CtxDone, WaitLock, TypeOK
<1>l. LiveMapped'
  BY <1>0, <1>a DEF LiveMapped, Live
<1>1. CASE \E k \in Keys : DoFind(p, k)
  <2>1. PICK k \in Keys : DoFind(p, k)
    BY <1>1
  <2>2. TypeOK'
    BY <1>0, <2>1 DEF DoFind, TypeOK
  <2>3. Locks' /\ Placed' /\ Registered'
    BY <1>0, <2>1 DEF DoFind, TypeOK, Locks, Placed, Registered, InCall
  <2>4. OpenCalls' /\ Mapped' /\ MapHoldsLive'
    BY <1>0, <2>1
    DEF DoFind, TypeOK, OpenCalls, Mapped, MapHoldsLive, CancelledAlone, InCall
  <2> QED BY <2>2, <2>3, <2>4, <1>l DEF IInv
<1>2. CASE Receive(p)
  <2>2. TypeOK'
    BY <1>0, <1>2 DEF Receive, TypeOK
  <2>3. Locks' /\ Placed' /\ Registered'
    BY <1>0, <1>2 DEF Receive, TypeOK, Locks, Placed, Registered, InCall
  <2>4. OpenCalls' /\ Mapped' /\ MapHoldsLive'
    BY <1>0, <1>2
    DEF Receive, TypeOK, OpenCalls, Mapped, MapHoldsLive, CancelledAlone, InCall,
        Registered
  <2> QED BY <2>2, <2>3, <2>4, <1>l DEF IInv
<1>3. CASE CtxDone(p)
  <2>2. TypeOK'
    BY <1>0, <1>3 DEF CtxDone, TypeOK, InCall
  <2>3. Locks' /\ Placed' /\ Registered'
    BY <1>0, <1>3 DEF CtxDone, TypeOK, Locks, Placed, Registered, InCall
  <2>4. OpenCalls' /\ Mapped' /\ MapHoldsLive'
    BY <1>0, <1>3
    DEF CtxDone, TypeOK, OpenCalls, Mapped, MapHoldsLive, CancelledAlone, InCall
  <2> QED BY <2>2, <2>3, <2>4, <1>l DEF IInv
<1>4. CASE WaitLock(p)
  <2>1. /\ cur[p] \in Calls /\ cur' = cur /\ box' = box /\ gmu' = gmu
        /\ pc[p] = "cancelling" /\ cmu[cur[p]] = Free
        /\ \/ cmu' = cmu /\ pc' = [pc EXCEPT ![p] = "draining"]
           \/ cmu' = [cmu EXCEPT ![cur[p]] = p] /\ pc' = [pc EXCEPT ![p] = "leaving"]
    BY <1>0, <1>4 DEF WaitLock, Placed
  <2>2. TypeOK'
    <3>1. cmu' \in [Calls -> Procs \cup {Free}]
      BY <1>0, <2>1 DEF TypeOK
    <3>2. pc' \in [Procs -> InCall \cup {"idle", "joining"}]
      BY <1>0, <2>1 DEF TypeOK, InCall
    <3> QED BY <1>0, <1>a, <2>1, <3>1, <3>2 DEF TypeOK
  <2>3. Locks'
    <3>1. ASSUME NEW q \in Procs, pc'[q] = "leaving" PROVE cmu'[cur'[q]] = q
      <4>1. CASE q = p
        <5>1. pc' # [pc EXCEPT ![p] = "draining"]
          BY <1>0, <3>1, <4>1 DEF TypeOK
        <5>2. cmu' = [cmu EXCEPT ![cur[p]] = p]
          BY <2>1, <5>1
        <5>3. cmu'[cur[p]] = p
          BY <1>0, <2>1, <5>2 DEF TypeOK
        <5> QED BY <2>1, <4>1, <5>3
      <4>2. CASE q # p
        <5>1. pc[q] = "leaving" /\ cmu[cur[q]] = q /\ cur[q] # cur[p]
          BY <1>0, <1>a, <2>1, <3>1, <4>2 DEF Locks
        <5>2. cmu' = cmu \/ cmu' = [cmu EXCEPT ![cur[p]] = p]
          BY <2>1
        <5>3. cmu'[cur[q]] = cmu[cur[q]]
          <6>1. CASE cmu' = [cmu EXCEPT ![cur[p]] = p]
            <7>1. cur[q] \in Calls
              BY <1>0, <5>1 DEF Placed
            <7> QED BY <1>0, <5>1, <6>1, <7>1 DEF TypeOK
          <6> QED BY <5>2, <6>1
        <5> QED BY <2>1, <5>1, <5>3
      <4> QED BY <4>1, <4>2
    <3>2. \A q \in Procs : pc'[q] = "joining" <=> gmu' = q
      BY <1>0, <2>1 DEF TypeOK, Locks
    <3> QED BY <1>0, <1>a, <2>1, <3>1, <3>2 DEF Locks
  <2>4. Placed' /\ Registered'
    BY <1>0, <1>4, <2>1 DEF WaitLock, TypeOK, Placed, Registered, InCall
  <2>5. OpenCalls' /\ Mapped' /\ MapHoldsLive'
    BY <1>0, <1>4
    DEF WaitLock, TypeOK, OpenCalls, Mapped, MapHoldsLive, CancelledAlone, InCall
  <2> QED BY <2>2, <2>3, <2>4, <2>5, <1>l DEF IInv
<1> QED BY <1>1, <1>2, <1>3, <1>4

(* The rest of a Do that joins: the call it found is open.                 *)
LEMMA JoinIInv ==
  ASSUME IInv, NEW p \in Procs, DoJoin(p)
  PROVE  IInv'
<1> USE BattoAssumption
<1>0. TypeOK /\ Locks /\ Placed /\ Registered /\ OpenCalls
      /\ Mapped /\ MapHoldsLive /\ LiveMapped
  BY DEF IInv
<1> DEFINE c == cur[p]
<1>1. pc[p] = "joining" /\ gmu = p /\ c \in Calls /\ box[p] = "empty"
  BY <1>0 DEF DoJoin, Locks, Placed
<1>2. ~call[c].done /\ ~call[c].cancelled /\ work[c] # "none"
  BY <1>0, <1>1 DEF Mapped, MapHoldsLive, TypeOK
<1>3. /\ gmu' = Free
      /\ pc' = [pc EXCEPT ![p] = "waiting"]
      /\ call' = [call EXCEPT ![c].waiters = @ \cup {p}]
      /\ cur' = cur /\ m' = m /\ cmu' = cmu /\ work' = work /\ box' = box
      /\ stale' = stale
  BY <1>2 DEF DoJoin
<1>4. call[c] \in Call /\ call \in [Calls -> Call]
  BY <1>0, <1>1 DEF TypeOK, Call
<1>5. /\ call'[c] = [call[c] EXCEPT !.waiters = @ \cup {p}]
      /\ \A d \in Calls : d # c => call'[d] = call[d]
      /\ pc'[p] = "waiting" /\ \A q \in Procs : q # p => pc'[q] = pc[q]
  BY <1>0, <1>1, <1>3, <1>4 DEF TypeOK
<1>6. /\ call'[c].waiters = call[c].waiters \cup {p}
      /\ call'[c].key = call[c].key /\ call'[c].done = call[c].done
      /\ call'[c].cancelled = call[c].cancelled
      /\ call'[c] \in Call
  BY <1>4, <1>5 DEF Call
<1> HIDE DEF c
<1>7. TypeOK'
  <2>1. call' \in [Calls -> Call]
    BY <1>3, <1>4, <1>5, <1>6
  <2>2. pc' \in [Procs -> InCall \cup {"idle", "joining"}]
    BY <1>0, <1>3 DEF TypeOK, InCall
  <2> QED BY <1>0, <1>3, <2>1, <2>2 DEF TypeOK, Call
<1>8. Locks' /\ Placed'
  BY <1>0, <1>1, <1>3, <1>5 DEF Locks, Placed, c
<1>9. Registered'
  BY <1>0, <1>1, <1>2, <1>3, <1>5, <1>6 DEF Registered, InCall, c, Placed
<1>10. OpenCalls'
  BY <1>0, <1>1, <1>3, <1>5, <1>6 DEF OpenCalls, InCall, c
<1>11. Mapped' /\ LiveMapped'
  <2>1. Mapped'
    BY <1>0, <1>1, <1>3, <1>5 DEF Mapped
  <2>2. \A d \in Calls : call'[d].key = call[d].key /\ call'[d].cancelled = call[d].cancelled
    BY <1>5, <1>6
  <2> QED BY <1>0, <1>3, <2>1, <2>2 DEF LiveMapped, Live
<1>12. MapHoldsLive'
  <2>1. CancelledAlone'
    BY <1>0, <1>1, <1>2, <1>3, <1>5, <1>6 DEF MapHoldsLive, CancelledAlone, c
  <2>2. \A d \in Calls : /\ call'[d].key = call[d].key /\ call'[d].done = call[d].done
                         /\ call'[d].cancelled = call[d].cancelled
                         /\ call[d].waiters # {} => call'[d].waiters # {}
    BY <1>5, <1>6
  <2> QED BY <1>0, <1>3, <2>1, <2>2 DEF MapHoldsLive, TypeOK
<1> QED BY <1>7, <1>8, <1>9, <1>10, <1>11, <1>12 DEF IInv

(* delete(g.m, key) with g.mu in the hands of nobody who joins, for a call *)
(* that is not live any more.                                              *)
LEMMA DeleteKeyIInv ==
  ASSUME TypeOK, Mapped, MapHoldsLive, LiveMapped, NEW c \in Calls, DeleteKey(c),
         \A p \in Procs : pc[p] # "joining" /\ pc'[p] # "joining",
         \A d \in Calls : d # c => call'[d] = call[d] /\ work'[d] = work[d],
         call'[c].key = call[c].key,
         work'[c] = "none" \/ call'[c].cancelled
  PROVE  Mapped' /\ LiveMapped' /\ m' \in [Keys -> Calls \cup {NoCall}]
         /\ stale' \subseteq Keys
         /\ \A k \in Keys : m'[k] # NoCall => m'[k] = m[k] /\ m[k] # c
<1> USE BattoAssumption
<1> DEFINE key == call[c].key
<1>1. key \in Keys
  BY DEF TypeOK
<1>2. /\ m' = [m EXCEPT ![key] = NoCall]
      /\ stale' = IF m[key] \in {c, NoCall} THEN stale ELSE stale \cup {key}
  BY DEF DeleteKey
<1>3. /\ m'[key] = NoCall
      /\ \A k \in Keys : k # key => m'[k] = m[k]
      /\ m' \in [Keys -> Calls \cup {NoCall}] /\ stale' \subseteq Keys
      /\ stale \subseteq stale'
  BY <1>1, <1>2 DEF TypeOK
<1>4. \A k \in Keys : m[k] = c => k = key
  BY DEF MapHoldsLive
<1> HIDE DEF key
<1>5. \A k \in Keys : m'[k] # NoCall => m'[k] = m[k] /\ m[k] # c
  BY <1>3, <1>4
<1>6. Mapped'
  <2>1. ASSUME NEW k \in Keys, m'[k] # NoCall PROVE work'[m'[k]] # "none"
    <3>1. m'[k] = m[k] /\ m[k] \in Calls /\ m[k] # c
      BY <1>3, <1>5, <2>1 DEF TypeOK
    <3> QED BY <2>1, <3>1 DEF Mapped
  <2> QED BY <2>1 DEF Mapped
<1>7. LiveMapped'
  <2>1. ASSUME NEW k \in Keys \ stale', NEW d \in Calls,
               work'[d] # "none", call'[d].key = k, ~call'[d].cancelled
        PROVE  m'[k] = d
    <3>1. d # c
      BY <2>1
    <3>2. d \in Live(k)
      BY <2>1, <3>1 DEF Live
    <3>3. m[k] = d
      BY <1>3, <3>2 DEF LiveMapped
    <3>4. k # key
      BY <1>2, <2>1, <3>1, <3>3
    <3> QED BY <1>3, <3>3, <3>4
  <2> QED BY <2>1 DEF LiveMapped, Live
<1> QED BY <1>3, <1>5, <1>6, <1>7

(* What changes when a cancelled caller leaves.                            *)
LEMMA LeaveFacts ==
  ASSUME IInv, NEW p \in Procs, WaitLeave(p)
  PROVE  /\ pc[p] = "leaving" /\ gmu = Free /\ cmu[cur[p]] = p
         /\ cur[p] \in Calls /\ p \in call[cur[p]].waiters /\ ~call[cur[p]].done
         /\ box[p] = "empty" /\ work[cur[p]] # "none"
         /\ gmu' = gmu /\ work' = work /\ box' = box
         /\ cmu' = [cmu EXCEPT ![cur[p]] = Free]
         /\ pc' = [pc EXCEPT ![p] = "idle"]
         /\ cur' = [cur EXCEPT ![p] = NoCall]
         /\ call' \in [Calls -> Call] /\ call'[cur[p]] \in Call
         /\ call'[cur[p]].key = call[cur[p]].key /\ call'[cur[p]].done = call[cur[p]].done
         /\ call'[cur[p]].waiters = call[cur[p]].waiters \ {p}
         /\ call[cur[p]].waiters = {p} => call'[cur[p]].cancelled
         /\ call[cur[p]].waiters # {p} => call'[cur[p]].cancelled = call[cur[p]].cancelled
         /\ \A d \in Calls : d # cur[p] => call'[d] = call[d] /\ cmu'[d] = cmu[d]
         /\ pc'[p] = "idle" /\ cur'[p] = NoCall
         /\ \A q \in Procs : q # p => pc'[q] = pc[q] /\ cur'[q] = cur[q]
<1> USE BattoAssumption
<1> DEFINE c == cur[p]
<1>0. TypeOK /\ Locks /\ Placed /\ Registered /\ OpenCalls
      /\ Mapped /\ MapHoldsLive /\ LiveMapped
  BY DEF IInv
<1>1. /\ pc[p] = "leaving" /\ gmu = Free /\ cmu[c] = p
      /\ c \in Calls /\ p \in call[c].waiters /\ ~call[c].done
      /\ box[p] = "empty" /\ work[c] # "none"
  BY <1>0 DEF WaitLeave, Locks, Placed, Registered, InCall
<1>2. /\ gmu' = gmu /\ work' = work /\ box' = box
      /\ cmu' = [cmu EXCEPT ![c] = Free]
      /\ pc' = [pc EXCEPT ![p] = "idle"]
      /\ cur' = [cur EXCEPT ![p] = NoCall]
  BY DEF WaitLeave
<1>3. call[c] \in Call /\ call \in [Calls -> Call]
  BY <1>0, <1>1 DEF TypeOK, Call
<1>4. /\ call' = [call EXCEPT ![c] = call'[c]]
      /\ call'[c] \in Call
      /\ call'[c].key = call[c].key /\ call'[c].done = call[c].done
      /\ call'[c].waiters = call[c].waiters \ {p}
      /\ call[c].waiters = {p} => call'[c].cancelled
      /\ call[c].waiters # {p} => call'[c].cancelled = call[c].cancelled
  <2>1. /\ Without(c, p) \in Call
        /\ Without(c, p).key = call[c].key /\ Without(c, p).done = call[c].done
        /\ Without(c, p).waiters = call[c].waiters \ {p}
        /\ Without(c, p).cancelled = call[c].cancelled
    BY <1>3 DEF Without, Call
  <2>2. /\ [Without(c, p) EXCEPT !.cancelled = TRUE] \in Call
        /\ [Without(c, p) EXCEPT !.cancelled = TRUE].key = call[c].key
        /\ [Without(c, p) EXCEPT !.cancelled = TRUE].done = call[c].done
        /\ [Without(c, p) EXCEPT !.cancelled = TRUE].waiters = call[c].waiters \ {p}
        /\ [Without(c, p) EXCEPT !.cancelled = TRUE].cancelled
    BY <2>1 DEF Call
  <2>3. /\ call[c].waiters = {p} => call' = [call EXCEPT ![c] = [Without(c, p) EXCEPT !.cancelled = TRUE]]
        /\ call[c].waiters # {p} => call' = [call EXCEPT ![c] = Without(c, p)]
    BY DEF WaitLeave
  <2>4. /\ call[c].waiters = {p} => call'[c] = [Without(c, p) EXCEPT !.cancelled = TRUE]
        /\ call[c].waiters # {p} => call'[c] = Without(c, p)
    BY <1>1, <1>3, <2>3
  <2> QED BY <1>3, <2>1, <2>2, <2>3, <2>4
<1> HIDE DEF c
<1>5. /\ \A d \in Calls : d # c => call'[d] = call[d] /\ cmu'[d] = cmu[d]
      /\ call' \in [Calls -> Call]
  <2>1. cmu \in [Calls -> Procs \cup {Free}]
    BY <1>0 DEF TypeOK
  <2> QED BY <1>1, <1>2, <1>3, <1>4, <2>1
<1>6. /\ pc'[p] = "idle" /\ cur'[p] = NoCall
      /\ \A q \in Procs : q # p => pc'[q] = pc[q] /\ cur'[q] = cur[q]
  BY <1>0, <1>2 DEF TypeOK
<1> QED BY <1>1, <1>2, <1>4, <1>5, <1>6 DEF c

(* A cancelled caller leaves; the last one takes the call with it.         *)
LEMMA LeaveIInv ==
  ASSUME IInv, NEW p \in Procs, WaitLeave(p)
  PROVE  IInv'
<1> USE BattoAssumption
<1>0. TypeOK /\ Locks /\ Placed /\ Registered /\ OpenCalls
      /\ Mapped /\ MapHoldsLive /\ LiveMapped
  BY DEF IInv
<1> DEFINE c == cur[p]
           last == call[c].waiters = {p}
<1>1. /\ pc[p] = "leaving" /\ gmu = Free /\ cmu[c] = p
      /\ c \in Calls /\ p \in call[c].waiters /\ ~call[c].done
      /\ box[p] = "empty" /\ work[c] # "none"
      /\ gmu' = gmu /\ work' = work /\ box' = box
      /\ cmu' = [cmu EXCEPT ![c] = Free]
      /\ pc' = [pc EXCEPT ![p] = "idle"]
      /\ cur' = [cur EXCEPT ![p] = NoCall]
      /\ call' \in [Calls -> Call] /\ call'[c] \in Call
      /\ call'[c].key = call[c].key /\ call'[c].done = call[c].done
      /\ call'[c].waiters = call[c].waiters \ {p}
      /\ last => call'[c].cancelled
      /\ ~last => call'[c].cancelled = call[c].cancelled
      /\ \A d \in Calls : d # c => call'[d] = call[d] /\ cmu'[d] = cmu[d]
      /\ pc'[p] = "idle" /\ cur'[p] = NoCall
      /\ \A q \in Procs : q # p => pc'[q] = pc[q] /\ cur'[q] = cur[q]
  BY LeaveFacts
<1> HIDE DEF last
<1>6. \A q \in Procs : pc[q] # "joining" /\ pc'[q] # "joining"
  BY <1>0, <1>1 DEF Locks
<1>7. /\ Mapped' /\ LiveMapped' /\ m' \in [Keys -> Calls \cup {NoCall}]
      /\ stale' \subseteq Keys
      /\ \A k \in Keys : m'[k] # NoCall => m'[k] = m[k] /\ (last => m[k] # c)
  <2>1. CASE last
    <3>1. DeleteKey(c)
      BY <2>1 DEF WaitLeave, last
    <3> QED BY <1>0, <1>1, <1>6, <2>1, <3>1, DeleteKeyIInv
  <2>2. CASE ~last
    <3>1. m' = m /\ stale' = stale
      BY <2>2 DEF WaitLeave, last
    <3>2. \A d \in Calls : call'[d].key = call[d].key
                           /\ call'[d].cancelled = call[d].cancelled
      BY <1>1, <2>2
    <3>3. LiveMapped'
      BY <1>0, <1>1, <3>1, <3>2 DEF LiveMapped, Live
    <3>4. Mapped'
      BY <1>0, <1>1, <1>6, <3>1 DEF Mapped
    <3> QED BY <1>0, <2>2, <3>1, <3>3, <3>4 DEF TypeOK
  <2> QED BY <2>1, <2>2
<1> HIDE DEF c
<1>8. TypeOK'
  <2>1. /\ pc' \in [Procs -> InCall \cup {"idle", "joining"}]
        /\ cur' \in [Procs -> Calls \cup {NoCall}]
        /\ cmu' \in [Calls -> Procs \cup {Free}]
    BY <1>0, <1>1 DEF TypeOK
  <2> QED BY <1>0, <1>1, <1>7, <2>1 DEF TypeOK, Call
<1>9. Locks'
  BY <1>0, <1>1, <1>6 DEF Locks, Placed, c
<1>10. Placed'
  BY <1>0, <1>1 DEF Placed
<1>11. Registered'
  <2>1. \A d \in Calls : call'[d].done = call[d].done
                       /\ call'[d].waiters \in {call[d].waiters, call[d].waiters \ {p}}
    BY <1>1
  <2> SUFFICES ASSUME NEW q \in Procs, pc'[q] \in InCall
               PROVE  /\ IF call'[cur'[q]].done THEN box'[q] # "empty"
                         ELSE /\ q \in call'[cur'[q]].waiters /\ box'[q] = "empty"
                              /\ work'[cur'[q]] # "none"
                      /\ pc'[q] = "draining" => call'[cur'[q]].done
                      /\ pc'[q] = "leaving" => ~call'[cur'[q]].done
    BY DEF Registered, InCall
  <2>2. q # p /\ pc'[q] = pc[q] /\ cur'[q] = cur[q] /\ cur[q] \in Calls
    BY <1>0, <1>1 DEF InCall, Placed
  <2> QED BY <1>0, <1>1, <2>1, <2>2 DEF Registered
<1>12. OpenCalls'
  BY <1>0, <1>1 DEF OpenCalls, InCall, c
<1>13. MapHoldsLive'
  <2>1. ASSUME NEW d \in Calls, call'[d].cancelled
        PROVE  /\ call'[d].waiters = {}
               /\ \A q \in Procs : cur'[q] = d => pc'[q] \notin InCall
    <3>1. CASE d = c /\ last
      <4>1. call'[c].waiters = {}
        BY <1>1, <3>1 DEF last, c
      <4>2. \A q \in Procs : q # p /\ cur[q] = c => pc[q] \notin InCall
        BY <1>0, <1>1, <3>1 DEF Registered, last, c
      <4> QED BY <1>1, <3>1, <4>1, <4>2 DEF InCall
    <3>2. CASE ~(d = c /\ last)
      <4>1. call[d].cancelled /\ call'[d].waiters \subseteq call[d].waiters
        BY <1>1, <2>1, <3>2
      <4> QED BY <1>0, <1>1, <4>1 DEF MapHoldsLive, CancelledAlone, InCall
    <3> QED BY <3>1, <3>2
  <2>2. ASSUME NEW k \in Keys, m'[k] # NoCall
        PROVE  /\ call'[m'[k]].key = k
               /\ ~call'[m'[k]].done /\ ~call'[m'[k]].cancelled
               /\ call'[m'[k]].waiters # {}
    <3>1. m'[k] = m[k] /\ m[k] \in Calls
      BY <1>0, <1>7, <2>2 DEF TypeOK
    <3>2. CASE m[k] = c
      <4>1. ~last
        BY <1>7, <2>2, <3>2
      <4>2. call[c].waiters \ {p} # {}
        BY <1>1, <4>1 DEF last, c
      <4> QED BY <1>0, <1>1, <2>2, <3>1, <3>2, <4>1, <4>2 DEF MapHoldsLive
    <3>3. CASE m[k] # c
      BY <1>0, <1>1, <2>2, <3>1, <3>3 DEF MapHoldsLive
    <3> QED BY <3>2, <3>3
  <2> QED BY <2>1, <2>2 DEF MapHoldsLive, CancelledAlone
<1> QED BY <1>7, <1>8, <1>9, <1>10, <1>11, <1>12, <1>13 DEF IInv

(* fn ends and run waits for g.mu, or gets it.                             *)
LEMMA WorkIInv ==
  ASSUME IInv, NEW c \in Calls, WorkEnd(c) \/ RunLock(c)
  PROVE  IInv'
<1> USE BattoAssumption
<1>0. TypeOK /\ Locks /\ Placed /\ Registered /\ OpenCalls
      /\ Mapped /\ MapHoldsLive /\ LiveMapped
  BY DEF IInv
<1>1. /\ m' = m /\ call' = call /\ cmu' = cmu /\ pc' = pc /\ cur' = cur
      /\ box' = box /\ stale' = stale
      /\ work' \in [Calls -> {"none", "running", "returned", "panicked"}]
      /\ \A d \in Calls : work'[d] = "none" <=> work[d] = "none"
      /\ \A d \in Calls : work[d] \in {"returned", "panicked"} =>
           work'[d] \in {"returned", "panicked"}
  BY <1>0 DEF WorkEnd, RunLock, TypeOK
<1>2. gmu' = gmu \/ (gmu = Free /\ gmu' = c /\ work[c] \in {"returned", "panicked"})
  BY DEF WorkEnd, RunLock
<1>3. TypeOK'
  BY <1>0, <1>1, <1>2 DEF TypeOK
<1>4. Locks'
  BY <1>0, <1>1, <1>2 DEF Locks
<1>5. Placed' /\ MapHoldsLive'
  BY <1>0, <1>1 DEF Placed, MapHoldsLive, CancelledAlone
<1>6. Registered' /\ OpenCalls'
  BY <1>0, <1>1 DEF Registered, OpenCalls, Placed, InCall
<1>7. Mapped' /\ LiveMapped'
  BY <1>0, <1>1 DEF Mapped, LiveMapped, Live, TypeOK
<1> QED BY <1>3, <1>4, <1>5, <1>6, <1>7 DEF IInv

(* What changes when run tells everybody registered.                       *)
LEMMA FinishFacts ==
  ASSUME IInv, NEW c \in Calls, RunFinish(c)
  PROVE  /\ gmu = c /\ cmu[c] = Free /\ DeleteKey(c)
         /\ gmu' = Free /\ cmu' = cmu /\ pc' = pc /\ cur' = cur
         /\ work[c] \in {"returned", "panicked"} /\ ~call[c].done
         /\ call'[c].key = call[c].key /\ call'[c].waiters = call[c].waiters
         /\ call'[c].cancelled = call[c].cancelled /\ call'[c].done
         /\ \A d \in Calls : d # c => call'[d] = call[d]
         /\ call' \in [Calls -> Call]
         /\ work'[c] = "none" /\ \A d \in Calls : d # c => work'[d] = work[d]
         /\ work' \in [Calls -> {"none", "running", "returned", "panicked"}]
         /\ \A p \in call[c].waiters : box'[p] # "empty"
         /\ \A p \in Procs : p \notin call[c].waiters => box'[p] = box[p]
         /\ box' \in [Procs -> {"empty", "result", "panic", "ErrWorkerPanicked"}]
<1> USE BattoAssumption
<1>0. TypeOK /\ Locks /\ OpenCalls
  BY DEF IInv
<1>1. /\ gmu = c /\ cmu[c] = Free /\ DeleteKey(c)
      /\ call' = [call EXCEPT ![c].done = TRUE, ![c].panicked = (work[c] = "panicked")]
      /\ box' = [p \in Procs |-> IF p \in call[c].waiters THEN Outcome(c, p) ELSE box[p]]
      /\ gmu' = Free /\ work' = [work EXCEPT ![c] = "none"]
      /\ cmu' = cmu /\ pc' = pc /\ cur' = cur
  BY DEF RunFinish
<1>2. work[c] \in {"returned", "panicked"} /\ ~call[c].done
  BY <1>0, <1>1 DEF Locks, OpenCalls
<1>3. call \in [Calls -> Call]
  BY <1>0 DEF TypeOK, Call
<1>4. /\ call'[c].key = call[c].key /\ call'[c].waiters = call[c].waiters
      /\ call'[c].cancelled = call[c].cancelled /\ call'[c].done
      /\ call'[c] \in Call
      /\ \A d \in Calls : d # c => call'[d] = call[d]
      /\ call' \in [Calls -> Call]
  <2>1. call'[c] = [call[c] EXCEPT !.done = TRUE, !.panicked = (work[c] = "panicked")]
    BY <1>1, <1>3
  <2>2. \A d \in Calls : d # c => call'[d] = call[d]
    BY <1>1, <1>3
  <2>3. call[c] \in Call /\ (work[c] = "panicked") \in BOOLEAN
    BY <1>3
  <2>4. /\ call'[c].key = call[c].key /\ call'[c].waiters = call[c].waiters
        /\ call'[c].cancelled = call[c].cancelled /\ call'[c].done
        /\ call'[c] \in Call
    BY <2>1, <2>3 DEF Call
  <2>5. call' \in [Calls -> Call]
    BY <1>1, <1>3, <2>2, <2>4
  <2> QED BY <2>2, <2>4, <2>5
<1>5. /\ work'[c] = "none" /\ \A d \in Calls : d # c => work'[d] = work[d]
      /\ work' \in [Calls -> {"none", "running", "returned", "panicked"}]
  BY <1>0, <1>1 DEF TypeOK
<1>6. /\ \A p \in Procs : Outcome(c, p) \in {"result", "panic", "ErrWorkerPanicked"}
      /\ \A p \in call[c].waiters : box'[p] # "empty"
      /\ \A p \in Procs : p \notin call[c].waiters => box'[p] = box[p]
      /\ box' \in [Procs -> {"empty", "result", "panic", "ErrWorkerPanicked"}]
  <2>1. ASSUME NEW p \in Procs
        PROVE  Outcome(c, p) \in {"result", "panic", "ErrWorkerPanicked"}
    BY <1>2 DEF Outcome
  <2> QED BY <1>0, <1>1, <1>3, <2>1 DEF TypeOK, Call
<1> QED BY <1>1, <1>2, <1>4, <1>5, <1>6

(* run, with both mutexes, tells everybody registered.                     *)
LEMMA FinishIInv ==
  ASSUME IInv, NEW c \in Calls, RunFinish(c)
  PROVE  IInv'
<1> USE BattoAssumption
<1>0. TypeOK /\ Locks /\ Placed /\ Registered /\ OpenCalls
      /\ Mapped /\ MapHoldsLive /\ LiveMapped
  BY DEF IInv
<1>1. /\ gmu = c /\ cmu[c] = Free /\ DeleteKey(c)
      /\ gmu' = Free /\ cmu' = cmu /\ pc' = pc /\ cur' = cur
      /\ work[c] \in {"returned", "panicked"} /\ ~call[c].done
      /\ call'[c].key = call[c].key /\ call'[c].waiters = call[c].waiters
      /\ call'[c].cancelled = call[c].cancelled /\ call'[c].done
      /\ \A d \in Calls : d # c => call'[d] = call[d]
      /\ call' \in [Calls -> Call]
      /\ work'[c] = "none" /\ \A d \in Calls : d # c => work'[d] = work[d]
      /\ work' \in [Calls -> {"none", "running", "returned", "panicked"}]
      /\ \A p \in call[c].waiters : box'[p] # "empty"
      /\ \A p \in Procs : p \notin call[c].waiters => box'[p] = box[p]
      /\ box' \in [Procs -> {"empty", "result", "panic", "ErrWorkerPanicked"}]
  BY FinishFacts
<1>7. \A p \in Procs : pc[p] # "joining" /\ pc'[p] # "joining"
  BY <1>0, <1>1 DEF Locks
<1>8. /\ Mapped' /\ LiveMapped' /\ m' \in [Keys -> Calls \cup {NoCall}]
      /\ stale' \subseteq Keys
      /\ \A k \in Keys : m'[k] # NoCall => m'[k] = m[k] /\ m[k] # c
  BY <1>0, <1>1, <1>7, DeleteKeyIInv
<1>9. TypeOK'
  BY <1>0, <1>1, <1>8 DEF TypeOK, Call
<1>10. Locks'
  BY <1>0, <1>1, <1>7 DEF Locks
<1>11. \A p \in Procs : p \in call[c].waiters => pc[p] \in InCall /\ cur[p] = c
  BY <1>0, <1>1 DEF OpenCalls
<1>12. Placed'
  BY <1>0, <1>1, <1>11 DEF Placed, InCall
<1>13. Registered'
  <2> SUFFICES ASSUME NEW q \in Procs, pc[q] \in InCall
               PROVE  /\ IF call'[cur[q]].done THEN box'[q] # "empty"
                         ELSE /\ q \in call'[cur[q]].waiters /\ box'[q] = "empty"
                              /\ work'[cur[q]] # "none"
                      /\ pc[q] = "draining" => call'[cur[q]].done
                      /\ pc[q] = "leaving" => ~call'[cur[q]].done
    BY <1>1 DEF Registered
  <2>1. cur[q] \in Calls
    BY <1>0 DEF Placed, InCall
  <2>2. CASE cur[q] = c
    <3>1. q \in call[c].waiters /\ box'[q] # "empty"
      BY <1>0, <1>1, <2>2 DEF Registered
    <3>2. pc[q] # "leaving"
      BY <1>0, <1>1, <2>2 DEF Locks
    <3> QED BY <1>1, <2>2, <3>1, <3>2
  <2>3. CASE cur[q] # c
    <3>1. q \notin call[c].waiters
      BY <1>11, <2>3
    <3> QED BY <1>0, <1>1, <2>1, <2>3, <3>1 DEF Registered
  <2> QED BY <2>2, <2>3
<1>14. OpenCalls'
  BY <1>0, <1>1 DEF OpenCalls
<1>15. MapHoldsLive'
  <2>1. CancelledAlone'
    BY <1>0, <1>1 DEF MapHoldsLive, CancelledAlone
  <2>2. ASSUME NEW k \in Keys, m'[k] # NoCall
        PROVE  /\ call'[m'[k]].key = k
               /\ ~call'[m'[k]].done /\ ~call'[m'[k]].cancelled
               /\ call'[m'[k]].waiters # {}
    <3>1. m'[k] = m[k] /\ m[k] \in Calls /\ m[k] # c
      BY <1>0, <1>8, <2>2 DEF TypeOK
    <3> QED BY <1>0, <1>1, <2>2, <3>1 DEF MapHoldsLive
  <2> QED BY <2>1, <2>2 DEF MapHoldsLive
<1> QED BY <1>8, <1>9, <1>10, <1>12, <1>13, <1>14, <1>15 DEF IInv

(* Every step of the code preserves the invariant.                         *)
LEMMA NextIInv == IInv /\ [Next]_vars => IInv'
<1> SUFFICES ASSUME IInv, [Next]_vars PROVE IInv'
  OBVIOUS
<1>1. CASE UNCHANGED vars
  <2>1. /\ gmu' = gmu /\ m' = m /\ call' = call /\ cmu' = cmu /\ work' = work
        /\ pc' = pc /\ cur' = cur /\ box' = box /\ stale' = stale
    BY <1>1 DEF vars
  <2>2. TypeOK' /\ Locks' /\ Placed' /\ Registered' /\ OpenCalls'
    BY <2>1 DEF IInv, TypeOK, Locks, Placed, Registered, OpenCalls
  <2>3. Mapped' /\ MapHoldsLive' /\ LiveMapped'
    BY <2>1 DEF IInv, Mapped, MapHoldsLive, CancelledAlone, LiveMapped, Live
  <2> QED BY <2>2, <2>3 DEF IInv
<1>2. CASE Next
  BY <1>2, StartIInv, CallerIInv, JoinIInv, LeaveIInv, WorkIInv, FinishIInv DEF Next
<1> QED BY <1>1, <1>2

(* The inductive invariant of the Group.                                   *)
THEOREM Invariance == Spec => []IInv
BY InitIInv, NextIInv, PTL DEF Spec

(* Whoever waits is registered with an open call, or has its result: the   *)
(* receive behind c.done never blocks, and no result is sent twice         *)
(* (batto.go:116-147, 158-196).                                            *)
THEOREM ResultSafety == Spec => []ResultReady
<1>1. IInv => ResultReady
  BY DEF IInv, ResultReady, Registered
<1> QED BY <1>1, Invariance, PTL

(* Nobody can find a call that is finished or given up, and only a call    *)
(* everyone has left is cancelled (batto.go:85-103, 126-141).              *)
THEOREM MapSafety == Spec => []MapHoldsLive
<1>1. IInv => MapHoldsLive
  BY DEF IInv
<1> QED BY <1>1, Invariance, PTL

(* A key has one worker that is not abandoned, unless an abandoned worker  *)
(* deleted the call that replaced its own (batto.go:162, 186).             *)
THEOREM WorkerSafety == Spec => []OneWorker
<1>1. ASSUME IInv, NEW k \in Keys \ stale PROVE Cardinality(Live(k)) <= 1
  <2>1. \A c \in Live(k) : c = m[k]
    BY <1>1 DEF IInv, LiveMapped
  <2>2. Live(k) = {} \/ Live(k) = {m[k]}
    BY <2>1
  <2>3. Cardinality(Live(k)) = 0 \/ Cardinality(Live(k)) = 1
    BY <2>2, FS_EmptySet, FS_Singleton
  <2> QED BY <2>3
<1>2. IInv => OneWorker
  BY <1>1 DEF OneWorker
<1> QED BY <1>2, Invariance, PTL

-----------------------------------------------------------------------------
(* The Group implements SharedCall for each of its keys.                   *)

(* A worker that is not cancelled works for somebody.                      *)
Attended ==
  \A c \in Calls : work[c] # "none" /\ ~call[c].cancelled => call[c].waiters # {}

(* Only the last to leave makes the waiters of a call empty.               *)
LEMMA AttendedStep == IInv /\ Attended /\ [Next]_vars => Attended'
<1> SUFFICES ASSUME IInv, Attended, [Next]_vars PROVE Attended'
  OBVIOUS
<1>0. TypeOK /\ Placed
  BY DEF IInv
<1>1. ASSUME NEW p \in Procs, NEW k \in Keys, DoStart(p, k) PROVE Attended'
  <2>1. PICK c \in Calls : /\ call' = [call EXCEPT ![c] = NewCall(p, k)]
                           /\ work' = [work EXCEPT ![c] = "running"]
    BY <1>1 DEF DoStart
  <2>2. /\ call'[c].waiters = {p}
        /\ \A d \in Calls : d # c => call'[d] = call[d] /\ work'[d] = work[d]
    BY <1>0, <2>1 DEF TypeOK, NewCall
  <2> QED BY <2>2 DEF Attended
<1>2. ASSUME NEW p \in Procs, DoJoin(p) PROVE Attended'
  <2>1. cur[p] \in Calls /\ call[cur[p]].waiters \subseteq Procs
    BY <1>0, <1>2 DEF DoJoin, Placed, TypeOK
  <2>2. CASE call' = call
    BY <1>2, <2>2 DEF DoJoin, Attended
  <2>3. CASE call' = [call EXCEPT ![cur[p]].waiters = @ \cup {p}]
    <3>1. call'[cur[p]] = [call[cur[p]] EXCEPT !.waiters = @ \cup {p}]
      BY <1>0, <2>1, <2>3 DEF TypeOK
    <3>2. p \in call'[cur[p]].waiters
      BY <1>0, <2>1, <3>1 DEF TypeOK
    <3>3. \A d \in Calls : d # cur[p] => call'[d] = call[d]
      BY <1>0, <2>3 DEF TypeOK
    <3> QED BY <1>2, <3>2, <3>3 DEF DoJoin, Attended
  <2> QED BY <1>2, <2>2, <2>3 DEF DoJoin
<1>3. ASSUME NEW p \in Procs, WaitLeave(p) PROVE Attended'
  BY <1>3, LeaveFacts DEF Attended
<1>4. ASSUME NEW c \in Calls, RunFinish(c) PROVE Attended'
  BY <1>4, FinishFacts DEF Attended
<1>5. ASSUME NEW c \in Calls, WorkEnd(c) PROVE Attended'
  BY <1>0, <1>5 DEF WorkEnd, Attended, TypeOK
<1>6. CASE call' = call /\ work' = work
  BY <1>6 DEF Attended
<1>7. ASSUME NEW p \in Procs, (\E k \in Keys : DoFind(p, k)) \/ Receive(p)
                              \/ CtxDone(p) \/ WaitLock(p)
      PROVE  call' = call /\ work' = work
  BY <1>7 DEF DoFind, Receive, CtxDone, WaitLock
<1>8. ASSUME NEW c \in Calls, RunLock(c) PROVE call' = call /\ work' = work
  BY <1>8 DEF RunLock
<1> QED BY <1>1, <1>2, <1>3, <1>4, <1>5, <1>6, <1>7, <1>8 DEF Next, vars

(* The waits for a mutex, for a function and for a context do not show.    *)
LEMMA SharedQuiet ==
  ASSUME IInv, NEW k \in Keys,
         \/ \E p \in Procs : \/ \E l \in Keys : DoFind(p, l)
                             \/ CtxDone(p) \/ WaitLock(p)
         \/ \E c \in Calls : WorkEnd(c) \/ RunLock(c)
         \/ UNCHANGED vars
  PROVE  UNCHANGED Shared(k)!callVars
<1>0. TypeOK /\ Placed
  BY DEF IInv
<1>1. m' = m /\ call' = call /\ box' = box
  BY DEF DoFind, CtxDone, WaitLock, WorkEnd, RunLock, vars
<1>2. \A p \in Procs : /\ pc'[p] \in InCall <=> pc[p] \in InCall
                       /\ pc[p] \in InCall => cur'[p] = cur[p]
  BY <1>0 DEF DoFind, CtxDone, WaitLock, WorkEnd, RunLock, vars, TypeOK, InCall
<1>3. \A c \in Calls : work'[c] = "none" <=> work[c] = "none"
  BY <1>0 DEF DoFind, CtxDone, WaitLock, WorkEnd, RunLock, vars, TypeOK
<1>4. Sharing(k)' = Sharing(k)
  BY <1>1, <1>2 DEF Sharing
<1>5. Answered(k)' = Answered(k)
  BY <1>1, <1>2 DEF Answered
<1>6. Abandoned(k)' = Abandoned(k)
  BY <1>1, <1>3 DEF Abandoned
<1> QED BY <1>1, <1>4, <1>5, <1>6 DEF Shared!callVars

(* A call is begun for a key that is free, and no other key sees it.       *)
LEMMA SharedStart ==
  ASSUME IInv, NEW k \in Keys, NEW p \in Procs, NEW l \in Keys, DoStart(p, l)
  PROVE  Shared(k)!Next \/ UNCHANGED Shared(k)!callVars
<1> USE BattoAssumption
<1>0. TypeOK /\ Placed
  BY DEF IInv
<1>1. PICK c \in Calls :
        /\ Garbage(c)
        /\ call' = [call EXCEPT ![c] = NewCall(p, l)]
        /\ m' = [m EXCEPT ![l] = c]
        /\ work' = [work EXCEPT ![c] = "running"]
        /\ cur' = [cur EXCEPT ![p] = c]
  BY DEF DoStart
<1>2. /\ pc[p] = "idle" /\ m[l] = NoCall /\ box' = box /\ box[p] = "empty"
      /\ pc' = [pc EXCEPT ![p] = "waiting"]
  BY <1>0 DEF DoStart, Placed
<1>3. /\ work[c] = "none" /\ \A q \in Procs : cur[q] # c
      /\ call'[c].key = l /\ ~call'[c].cancelled
      /\ \A d \in Calls : d # c => call'[d] = call[d] /\ work'[d] = work[d]
      /\ m'[l] = c /\ \A i \in Keys : i # l => m'[i] = m[i]
  BY <1>0, <1>1 DEF Garbage, TypeOK, NewCall
<1>4. /\ pc'[p] \in InCall /\ pc[p] \notin InCall /\ cur'[p] = c
      /\ \A q \in Procs : q # p => pc'[q] = pc[q] /\ cur'[q] = cur[q]
  BY <1>0, <1>1, <1>2 DEF TypeOK, InCall
<1>5. \A q \in Procs : q # p /\ pc[q] \in InCall =>
        cur[q] \in Calls /\ call'[cur'[q]] = call[cur[q]]
  BY <1>0, <1>3, <1>4 DEF Placed, InCall
<1>6. Abandoned(k)' = Abandoned(k) /\ c \notin Abandoned(k)
  BY <1>3 DEF Abandoned
<1>7. Answered(k)' = Answered(k)
  BY <1>2, <1>4, <1>5 DEF Answered
<1>8. CASE k = l
  <2>1. Sharing(k)' = [Sharing(k) EXCEPT ![p] = c]
    <3>1. ASSUME NEW q \in Procs
          PROVE  (IF pc'[q] \in InCall /\ call'[cur'[q]].key = k THEN cur'[q] ELSE NoCall)
                   = IF q = p THEN c ELSE Sharing(k)[q]
      <4>1. CASE q = p
        BY <1>3, <1>4, <1>5, <1>8, <4>1 DEF Sharing
      <4>2. CASE q # p
        BY <1>3, <1>4, <1>5, <1>8, <4>2 DEF Sharing
      <4> QED BY <4>1, <4>2
    <3> QED BY <3>1 DEF Sharing
  <2>2. Sharing(k)[p] = NoCall /\ \A q \in Procs : Sharing(k)[q] # c
    BY <1>3, <1>4 DEF Sharing
  <2>3. Shared(k)!Begin(p, c)
    BY <1>2, <1>3, <1>6, <1>7, <1>8, <2>1, <2>2 DEF Shared!Begin, Shared!Sharers
  <2> QED BY <2>3 DEF Shared!Next
<1>9. CASE k # l
  <2>1. Sharing(k)' = Sharing(k)
    BY <1>3, <1>4, <1>5, <1>9 DEF Sharing
  <2> QED BY <1>3, <1>6, <1>7, <1>9, <2>1 DEF Shared!callVars
<1> QED BY <1>8, <1>9

(* Who joins finds the call of its key, which is not over.                 *)
LEMMA SharedJoin ==
  ASSUME IInv, NEW k \in Keys, NEW p \in Procs, DoJoin(p)
  PROVE  Shared(k)!Next \/ UNCHANGED Shared(k)!callVars
<1> USE BattoAssumption
<1>0. TypeOK /\ Locks /\ Placed /\ Mapped /\ MapHoldsLive
  BY DEF IInv
<1> DEFINE c == cur[p]
<1>1. /\ pc[p] = "joining" /\ c \in Calls /\ box[p] = "empty"
      /\ \E l \in Keys : m[l] = c
  BY <1>0 DEF DoJoin, Placed, Mapped
<1>2. /\ m[call[c].key] = c /\ ~call[c].done
      /\ \A l \in Keys : m[l] = c => call[c].key = l
  BY <1>0, <1>1 DEF MapHoldsLive
<1>3. /\ pc' = [pc EXCEPT ![p] = "waiting"]
      /\ call' = [call EXCEPT ![c].waiters = @ \cup {p}]
      /\ cur' = cur /\ m' = m /\ work' = work /\ box' = box
  BY <1>2 DEF DoJoin
<1>4. call'[c] = [call[c] EXCEPT !.waiters = @ \cup {p}]
  BY <1>0, <1>1, <1>3 DEF TypeOK
<1>5. call'[c].key = call[c].key /\ call'[c].cancelled = call[c].cancelled
  BY <1>0, <1>1, <1>4 DEF TypeOK
<1>6. \A d \in Calls : call'[d].key = call[d].key /\ call'[d].cancelled = call[d].cancelled
  <2>1. \A d \in Calls : d # c => call'[d] = call[d]
    BY <1>0, <1>3 DEF TypeOK
  <2> QED BY <1>5, <2>1
<1>7. /\ pc'[p] \in InCall /\ pc[p] \notin InCall
      /\ \A q \in Procs : q # p => pc'[q] = pc[q]
      /\ \A q \in Procs : pc[q] \in InCall => cur[q] \in Calls
  BY <1>0, <1>1, <1>3 DEF TypeOK, InCall, Placed
<1> HIDE DEF c
<1>8. Abandoned(k)' = Abandoned(k)
  BY <1>3, <1>6 DEF Abandoned
<1>9. Answered(k)' = Answered(k)
  BY <1>1, <1>3, <1>6, <1>7 DEF Answered
<1>10. CASE k = call[c].key
  <2>1. Sharing(k)' = [Sharing(k) EXCEPT ![p] = c]
    <3>1. ASSUME NEW q \in Procs
          PROVE  (IF pc'[q] \in InCall /\ call'[cur'[q]].key = k THEN cur'[q] ELSE NoCall)
                   = IF q = p THEN c ELSE Sharing(k)[q]
      <4>1. CASE q = p
        BY <1>1, <1>3, <1>6, <1>7, <1>10, <4>1 DEF Sharing, c
      <4>2. CASE q # p
        BY <1>1, <1>3, <1>6, <1>7, <1>10, <4>2 DEF Sharing
      <4> QED BY <4>1, <4>2
    <3> QED BY <3>1 DEF Sharing
  <2>2. Sharing(k)[p] = NoCall
    BY <1>7 DEF Sharing
  <2>3. Shared(k)!Join(p)
    BY <1>1, <1>2, <1>3, <1>8, <1>9, <1>10, <2>1, <2>2 DEF Shared!Join
  <2> QED BY <2>3 DEF Shared!Next
<1>11. CASE k # call[c].key
  <2>1. Sharing(k)' = Sharing(k)
    BY <1>1, <1>3, <1>6, <1>7, <1>11 DEF Sharing, c
  <2> QED BY <1>3, <1>8, <1>9, <2>1 DEF Shared!callVars
<1> QED BY <1>10, <1>11

(* A caller that has its answer returns with it.                           *)
LEMMA SharedReceive ==
  ASSUME IInv, NEW k \in Keys, NEW p \in Procs, Receive(p)
  PROVE  Shared(k)!Next \/ UNCHANGED Shared(k)!callVars
<1> USE BattoAssumption
<1>0. TypeOK /\ Placed
  BY DEF IInv
<1>1. /\ pc[p] \in InCall /\ cur[p] \in Calls /\ box[p] # "empty"
      /\ m' = m /\ call' = call /\ work' = work
  BY <1>0 DEF Receive, InCall, Placed
<1>2. /\ pc'[p] \notin InCall /\ box'[p] = "empty"
      /\ \A q \in Procs : q # p => pc'[q] = pc[q] /\ cur'[q] = cur[q] /\ box'[q] = box[q]
  BY <1>0 DEF Receive, InCall, TypeOK
<1>3. Abandoned(k)' = Abandoned(k)
  BY <1>1 DEF Abandoned
<1>4. Answered(k)' = Answered(k) \ {p}
  BY <1>1, <1>2 DEF Answered
<1>5. Sharing(k)' = [Sharing(k) EXCEPT ![p] = NoCall]
  <2>1. ASSUME NEW q \in Procs
        PROVE  (IF pc'[q] \in InCall /\ call'[cur'[q]].key = k THEN cur'[q] ELSE NoCall)
                 = IF q = p THEN NoCall ELSE Sharing(k)[q]
    BY <1>1, <1>2 DEF Sharing
  <2> QED BY <2>1 DEF Sharing
<1>6. CASE p \in Answered(k)
  <2>1. Shared(k)!Return(p)
    BY <1>1, <1>3, <1>4, <1>5, <1>6 DEF Shared!Return
  <2> QED BY <2>1 DEF Shared!Next
<1>7. CASE p \notin Answered(k)
  <2>1. Sharing(k)[p] = NoCall
    BY <1>1, <1>7 DEF Sharing, Answered
  <2>2. Sharing(k)' = Sharing(k)
    BY <1>5, <2>1 DEF Sharing
  <2>3. Answered(k)' = Answered(k)
    BY <1>4, <1>7
  <2> QED BY <1>1, <1>3, <2>2, <2>3 DEF Shared!callVars
<1> QED BY <1>6, <1>7

(* Who leaves gives its call up, and the last one frees the key.           *)
LEMMA SharedLeave ==
  ASSUME IInv, NEW k \in Keys, NEW p \in Procs, WaitLeave(p)
  PROVE  Shared(k)!Next \/ UNCHANGED Shared(k)!callVars
<1> USE BattoAssumption
<1>0. TypeOK /\ Placed /\ Registered
  BY DEF IInv
<1> DEFINE c == cur[p]
<1>1. /\ pc[p] = "leaving" /\ c \in Calls /\ p \in call[c].waiters /\ ~call[c].done
      /\ box[p] = "empty" /\ work[c] # "none"
      /\ work' = work /\ box' = box
      /\ call'[c].key = call[c].key
      /\ call[c].waiters = {p} => call'[c].cancelled
      /\ call[c].waiters # {p} => call'[c].cancelled = call[c].cancelled
      /\ \A d \in Calls : d # c => call'[d] = call[d]
      /\ pc'[p] = "idle"
      /\ \A q \in Procs : q # p => pc'[q] = pc[q] /\ cur'[q] = cur[q]
  BY LeaveFacts
<1>2. IF call[c].waiters = {p} THEN m' = [m EXCEPT ![call[c].key] = NoCall]
      ELSE m' = m
  BY DEF WaitLeave, DeleteKey
<1>3. \A d \in Calls : call'[d].key = call[d].key
  BY <1>1
<1>4. /\ pc[p] \in InCall /\ pc'[p] \notin InCall
      /\ \A q \in Procs : pc[q] \in InCall => cur[q] \in Calls
  BY <1>0, <1>1 DEF InCall, Placed
<1>5. \A q \in Procs : pc[q] \in InCall /\ cur[q] = c => q \in call[c].waiters
  BY <1>0, <1>1 DEF Registered
<1> HIDE DEF c
<1>6. Answered(k)' = Answered(k) /\ p \notin Answered(k)
  BY <1>1, <1>3, <1>4 DEF Answered
<1>7. Sharing(k)' = [Sharing(k) EXCEPT ![p] = NoCall]
  <2>1. ASSUME NEW q \in Procs
        PROVE  (IF pc'[q] \in InCall /\ call'[cur'[q]].key = k THEN cur'[q] ELSE NoCall)
                 = IF q = p THEN NoCall ELSE Sharing(k)[q]
    BY <1>1, <1>3, <1>4 DEF Sharing
  <2> QED BY <2>1 DEF Sharing
<1>8. CASE k = call[c].key
  <2>1. Sharing(k)[p] = c /\ c # NoCall
    BY <1>1, <1>4, <1>8 DEF Sharing, c
  <2>2. CASE call[c].waiters = {p}
    <3>1. m'[k] = NoCall
      BY <1>0, <1>2, <1>8, <2>2 DEF TypeOK
    <3>2. Abandoned(k)' = Abandoned(k) \cup {c}
      BY <1>1, <1>3, <1>8, <2>2 DEF Abandoned
    <3>3. \A q \in Procs : Sharing(k)[q] = c <=> q = p
      BY <1>5, <2>1, <2>2 DEF Sharing
    <3>4. Shared(k)!Sharers(Sharing(k)[p]) = {p}
      BY <2>1, <3>3 DEF Shared!Sharers
    <3>5. Shared(k)!GiveUp(p)
      BY <1>6, <1>7, <2>1, <3>1, <3>2, <3>4 DEF Shared!GiveUp
    <3> QED BY <3>5 DEF Shared!Next
  <2>3. CASE call[c].waiters # {p}
    <3>1. Abandoned(k)' = Abandoned(k)
      BY <1>1, <1>3, <2>3 DEF Abandoned
    <3>2. Shared(k)!GiveUp(p)
      BY <1>2, <1>6, <1>7, <2>1, <2>3, <3>1 DEF Shared!GiveUp
    <3> QED BY <3>2 DEF Shared!Next
  <2> QED BY <2>2, <2>3
<1>9. CASE k # call[c].key
  <2>1. Sharing(k)[p] = NoCall
    BY <1>9 DEF Sharing, c
  <2>2. Sharing(k)' = Sharing(k)
    BY <1>7, <2>1 DEF Sharing
  <2>3. Abandoned(k)' = Abandoned(k)
    BY <1>1, <1>3, <1>9 DEF Abandoned
  <2>4. m'[k] = m[k]
    BY <1>0, <1>2, <1>9 DEF TypeOK
  <2> QED BY <1>6, <2>2, <2>3, <2>4 DEF Shared!callVars
<1> QED BY <1>8, <1>9

(* The end of a worker answers all who share its call, and nobody else.    *)
LEMMA SharedFinish ==
  ASSUME IInv, Attended, NEW k \in Keys, NEW c \in Calls, RunFinish(c)
  PROVE  Shared(k)!Next \/ UNCHANGED Shared(k)!callVars
<1> USE BattoAssumption
<1>0. TypeOK /\ Placed /\ Registered /\ OpenCalls
  BY DEF IInv
<1>1. /\ DeleteKey(c) /\ pc' = pc /\ cur' = cur
      /\ work[c] # "none" /\ ~call[c].done
      /\ call'[c].key = call[c].key /\ call'[c].cancelled = call[c].cancelled
      /\ \A d \in Calls : d # c => call'[d] = call[d]
      /\ work'[c] = "none" /\ \A d \in Calls : d # c => work'[d] = work[d]
      /\ \A p \in call[c].waiters : box'[p] # "empty"
      /\ \A p \in Procs : p \notin call[c].waiters => box'[p] = box[p]
  BY FinishFacts
<1>2. \A d \in Calls : call'[d].key = call[d].key /\ call'[d].cancelled = call[d].cancelled
  BY <1>1
<1>3. \A p \in Procs : p \in call[c].waiters <=> pc[p] \in InCall /\ cur[p] = c
  BY <1>0, <1>1 DEF Registered, OpenCalls
<1>4. \A p \in call[c].waiters : p \in Procs /\ box[p] = "empty"
  BY <1>0, <1>1, <1>3 DEF Registered, TypeOK
<1>5. \A p \in Procs : pc[p] \in InCall => cur[p] \in Calls
  BY <1>0 DEF Placed, InCall
<1>6. Sharing(k)' = Sharing(k)
  BY <1>1, <1>2, <1>5 DEF Sharing
<1>7. m' = [m EXCEPT ![call[c].key] = NoCall]
  BY <1>1 DEF DeleteKey
<1>8. Abandoned(k)' = Abandoned(k) \ {c}
  BY <1>1, <1>2 DEF Abandoned
<1>9. CASE k = call[c].key
  <2>1. Shared(k)!Sharers(c) = call[c].waiters
    <3>1. \A p \in Procs : Sharing(k)[p] = c <=> p \in call[c].waiters
      BY <1>3, <1>9 DEF Sharing
    <3> QED BY <1>4, <3>1 DEF Shared!Sharers
  <2>2. Answered(k)' = Answered(k) \cup call[c].waiters
    BY <1>1, <1>2, <1>3, <1>4, <1>5, <1>9 DEF Answered
  <2>3. call[c].waiters \cap Answered(k) = {}
    BY <1>4 DEF Answered
  <2>4. call[c].waiters # {} \/ c \in Abandoned(k)
    BY <1>1, <1>9 DEF Attended, Abandoned
  <2>5. m'[k] = NoCall
    BY <1>0, <1>7, <1>9 DEF TypeOK
  <2>6. Shared(k)!End(c)
    BY <1>6, <1>8, <2>1, <2>2, <2>3, <2>4, <2>5 DEF Shared!End
  <2> QED BY <2>6 DEF Shared!Next
<1>10. CASE k # call[c].key
  <2>1. Answered(k)' = Answered(k)
    BY <1>1, <1>2, <1>3, <1>5, <1>10 DEF Answered
  <2>2. Abandoned(k)' = Abandoned(k)
    BY <1>8, <1>10 DEF Abandoned
  <2>3. m'[k] = m[k]
    BY <1>0, <1>7, <1>10 DEF TypeOK
  <2> QED BY <1>6, <2>1, <2>2, <2>3 DEF Shared!callVars
<1> QED BY <1>9, <1>10

(* A step of the Group is for each key a step of its SharedCall, or none.  *)
LEMMA SharedStep ==
  ASSUME IInv, Attended, [Next]_vars, NEW k \in Keys
  PROVE  Shared(k)!Next \/ UNCHANGED Shared(k)!callVars
BY SharedQuiet, SharedStart, SharedJoin, SharedReceive, SharedLeave, SharedFinish DEF Next

(* Everybody who joins a call gets the answer of that call, at once with   *)
(* the others and once; a call is started only for a free key, and a key   *)
(* is freed only by a worker that ends or by the last caller that leaves   *)
(* (batto.go:63-194).                                                      *)
THEOREM SharesRefinement == Spec => SharesCall
<1>1. Init => Attended /\ \A k \in Keys : Shared(k)!Init
  <2> SUFFICES ASSUME Init, NEW k \in Keys PROVE Attended /\ Shared(k)!Init
    BY BattoAssumption
  <2>1. Sharing(k) = [p \in Procs |-> NoCall]
    BY DEF Init, Sharing, InCall
  <2>2. Answered(k) = {} /\ Abandoned(k) = {} /\ Attended
    BY DEF Init, Answered, Abandoned, Attended, InCall
  <2> QED BY <2>1, <2>2 DEF Init, Shared!Init
<1>2. IInv /\ Attended /\ [Next]_vars =>
        \A k \in Keys : [Shared(k)!Next]_(Shared(k)!callVars)
  BY SharedStep
<1> QED BY <1>1, <1>2, Invariance, AttendedStep, PTL DEF Spec, SharesCall
=============================================================================
