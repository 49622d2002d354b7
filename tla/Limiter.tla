------------------------------ MODULE Limiter ------------------------------
(***************************************************************************)
(* The adaptive limiter of sync/limiter/limiter.go.                        *)
(*                                                                         *)
(* Acquire is that of the semaphore; Release also moves the limit.  The    *)
(* Vegas formula is a choice among the outcomes it can have: the queue it  *)
(* estimates is limit * (1 - minRTT / smoothedRTT).  It is at most the     *)
(* limit, so only a limit above beta can shrink, it can always be small,   *)
(* and with round trips of 0 it is 0/0, which moves nothing.               *)
(* limit is the integer part of l.limit.                                   *)
(***************************************************************************)
EXTENDS Integers, Sequences, FiniteSets

CONSTANTS
  Procs,                \* goroutines that use the limiter
  Cancellable,          \* the ones whose context may be cancelled
  Initials,             \* values NewAdaptiveLimiter is called with
  MinLimit, MaxLimit,   \* l.minLimit and l.maxLimit: 1 and 1000
  Beta                  \* l.beta: 5

LimiterAssumption ==
  /\ IsFiniteSet(Procs)
  /\ Initials \subseteq Nat
  /\ MinLimit \in Nat /\ MaxLimit \in Nat /\ Beta \in Nat
  /\ MinLimit <= MaxLimit /\ Beta <= MaxLimit + 1

VARIABLES
  initial,  \* initialLimit
  limit,    \* int(l.limit)
  active,   \* l.active
  waitChs,  \* l.waitChs, as the goroutines that wait on them
  granted,  \* goroutines whose channel Release has closed
  pc

vars == <<initial, limit, active, waitChs, granted, pc>>

Init ==
  /\ initial \in Initials
  /\ limit = initial
  /\ active = 0
  /\ waitChs = <<>>
  /\ granted = {}
  /\ pc = [p \in Procs |-> "idle"]

Acquire(p) ==
  /\ pc[p] = "idle"
  /\ \/ /\ active < limit
        /\ active' = active + 1
        /\ pc' = [pc EXCEPT ![p] = "holding"]
        /\ UNCHANGED waitChs
     \/ /\ active >= limit
        /\ waitChs' = Append(waitChs, p)
        /\ pc' = [pc EXCEPT ![p] = "waiting"]
        /\ UNCHANGED active
  /\ UNCHANGED <<initial, limit, granted>>

(* The select takes one case; either may be taken when both are ready.     *)
Receive(p) ==
  /\ pc[p] = "waiting" /\ p \in granted
  /\ granted' = granted \ {p}
  /\ pc' = [pc EXCEPT ![p] = "holding"]
  /\ UNCHANGED <<initial, limit, active, waitChs>>

CtxDone(p) ==
  /\ pc[p] = "waiting" /\ p \in Cancellable
  /\ pc' = [pc EXCEPT ![p] = "cancelling"]
  /\ UNCHANGED <<initial, limit, active, waitChs, granted>>

(* append(l.waitChs[:i], l.waitChs[i+1:]...)                               *)
Without(seq, i) == SubSeq(seq, 1, i - 1) \o SubSeq(seq, i + 1, Len(seq))

(* The cancelled Acquire takes its channel off the list, if it is there.   *)
Abandon(p) ==
  /\ pc[p] = "cancelling"
  /\ \/ \E i \in DOMAIN waitChs :
          waitChs[i] = p /\ waitChs' = Without(waitChs, i)
     \/ /\ \A i \in DOMAIN waitChs : waitChs[i] # p
        /\ UNCHANGED waitChs
  /\ granted' = granted \ {p}
  /\ pc' = [pc EXCEPT ![p] = "idle"]
  /\ UNCHANGED <<initial, limit, active>>

\* mutant: the limit shrinks without a threshold
AdjustedAny == {IF limit < MaxLimit THEN limit + 1 ELSE MaxLimit, limit - 1}

(* What the limit can become.                                              *)
Adjusted ==
  {limit, IF limit < MaxLimit THEN limit + 1 ELSE MaxLimit}
    \cup (IF limit >= Beta
          THEN {IF limit - 1 < MinLimit THEN MinLimit ELSE limit - 1} ELSE {})

\* mutant: one waiter is woken for the slot given back
WokenOne(newLimit) == IF Len(waitChs) > 0 THEN 1 ELSE 0

(* How many the loop of Release wakes: as many as there are free slots.    *)
Woken(newLimit) ==
  LET slots == newLimit - (active - 1)
  IN IF slots <= 0 THEN 0
     ELSE IF slots < Len(waitChs) THEN slots ELSE Len(waitChs)

(* Release, one locked section.                                            *)
Release(p) ==
  \E newLimit \in Adjusted :
    LET k == Woken(newLimit) IN
    /\ pc[p] = "holding"
    /\ limit' = newLimit
    /\ active' = active - 1 + k
    /\ granted' = granted \cup {waitChs[i] : i \in 1..k}
    /\ waitChs' = SubSeq(waitChs, k + 1, Len(waitChs))
    /\ pc' = [pc EXCEPT ![p] = "idle"]
    /\ UNCHANGED initial

Next ==
  \E p \in Procs :
    Acquire(p) \/ Receive(p) \/ CtxDone(p) \/ Abandon(p) \/ Release(p)

Spec == Init /\ [][Next]_vars

-----------------------------------------------------------------------------
Holding == {p \in Procs : pc[p] = "holding"}

TypeOK ==
  /\ initial \in Initials
  /\ limit \in Int /\ active \in Nat
  /\ waitChs \in Seq(Procs) /\ granted \subseteq Procs
  /\ pc \in [Procs -> {"idle", "waiting", "cancelling", "holding"}]

(* Nobody waits while a slot is free, although the limit jumps with every   *)
(* Release (limiter.go:98-107), and the limit neither grows beyond where it *)
(* began or maxLimit, whichever is more, nor sinks below where it began or  *)
(* beta - 1, whichever is less: minLimit never has to stop it.              *)
LimitSound ==
  /\ TypeOK
  /\ waitChs # <<>> => active >= limit
  /\ limit >= initial \/ limit >= Beta - 1
  /\ limit <= initial \/ limit <= MaxLimit

(* The limiter implements the gate: first come first served, and never more *)
(* admitted than the limit of that moment.                                  *)
Gate == INSTANCE SlotGate WITH
          used <- active, holders <- Holding \cup granted, queue <- waitChs

LimiterGate == Gate!Spec
=============================================================================
