------------------------------ MODULE Breaker ------------------------------
(***************************************************************************)
(* The circuit breaker of sync/breaker/breaker.go.                         *)
(*                                                                         *)
(* Do is two sections under cb.mu with the wrapped function between them,  *)
(* so a call that was admitted in one state may report in another.  Time   *)
(* is a clock of whole units.                                              *)
(***************************************************************************)
EXTENDS Integers, Sequences, FiniteSets

CONSTANTS
  Procs,        \* goroutines that call Do
  Cooldown,     \* cfg.Cooldown
  Window,       \* cfg.Window
  MinRequests,  \* cfg.MinRequests
  Num, Den,     \* cfg.FailureThreshold is Num / Den
  MaxTime,      \* bound on the clock
  MaxCalls      \* bound on the calls of Do that are admitted

(* What resolveDefaults makes of any Config.                               *)
Resolved ==
  /\ Cooldown \in Nat \ {0}
  /\ Window \in Nat \ {0}
  /\ MinRequests \in Nat \ {0}
  /\ Num \in Nat \ {0} /\ Den \in Nat \ {0} /\ Num <= Den

BreakerAssumption ==
  /\ Resolved
  /\ MaxTime \in Nat
  /\ MaxCalls \in Nat

States == {"Closed", "Open", "HalfOpen"}

VARIABLES
  now,                \* time.Now()
  state,              \* cb.state
  openTime,           \* cb.openTime
  records,            \* cb.records
  halfOpenExecuting,  \* cb.halfOpenExecuting
  pc,                 \* where each goroutine is: its isHalfOpen, once in fn
  admitted,           \* number of calls admitted
  closedAt,           \* history: when the breaker last closed
  lost                \* history: has a trial panicked?

vars == <<now, state, openTime, records, halfOpenExecuting, pc, admitted,
          closedAt, lost>>

-----------------------------------------------------------------------------
New ==
  /\ state = "Closed"
  /\ openTime = 0
  /\ records = <<>>
  /\ halfOpenExecuting = FALSE

Init ==
  /\ New
  /\ now = 0
  /\ pc = [p \in Procs |-> "idle"]
  /\ admitted = 0
  /\ closedAt = 0
  /\ lost = FALSE

Tick ==
  /\ now < MaxTime
  /\ now' = now + 1
  /\ UNCHANGED <<state, openTime, records, halfOpenExecuting, pc, admitted,
                 closedAt, lost>>

(* The state checkState leaves behind.                                     *)
Checked == IF state = "Open" /\ now - openTime > Cooldown THEN "HalfOpen" ELSE state

\* mutant: the records survive the transition
TransitionKeeps(target, time, recs) ==
  /\ state' = target
  /\ openTime' = IF state = target THEN openTime ELSE time
  /\ records' = recs
  /\ closedAt' = IF target = "Closed" /\ state # target THEN now ELSE closedAt

(* transitionTo, when cb.records are recs.  The zero time is 0; it is only *)
(* read in the state Open.                                                 *)
TransitionTo(target, time, recs) ==
  /\ state' = target
  /\ openTime' = IF state = target THEN openTime ELSE time
  /\ records' = IF state # target /\ target \in {"Closed", "Open"}
                THEN <<>> ELSE recs
  /\ closedAt' = IF target = "Closed" /\ state # target THEN now ELSE closedAt

\* mutant: every call in the half-open state is a trial
BeginAlways(p) ==
  /\ pc[p] = "idle" /\ admitted < MaxCalls
  /\ Checked # "Open"
  /\ TransitionTo(Checked, 0, records)
  /\ halfOpenExecuting' = (halfOpenExecuting \/ Checked = "HalfOpen")
  /\ pc' = [pc EXCEPT ![p] = IF Checked = "HalfOpen" THEN "trial" ELSE "call"]
  /\ admitted' = admitted + 1
  /\ UNCHANGED <<now, lost>>

(* Do up to the call of fn, for a call that is let through.                *)
DoBegin(p) ==
  /\ pc[p] = "idle" /\ admitted < MaxCalls
  /\ Checked # "Open"
  /\ ~(Checked = "HalfOpen" /\ halfOpenExecuting)
  /\ TransitionTo(Checked, 0, records)
  /\ halfOpenExecuting' = (halfOpenExecuting \/ Checked = "HalfOpen")
  /\ pc' = [pc EXCEPT ![p] = IF Checked = "HalfOpen" THEN "trial" ELSE "call"]
  /\ admitted' = admitted + 1
  /\ UNCHANGED <<now, lost>>

(* State(), and a Do that returns ErrCircuitOpen: checkState is all that   *)
(* they do.                                                                *)
CheckState ==
  /\ Checked # state
  /\ TransitionTo(Checked, 0, records)
  /\ UNCHANGED <<now, halfOpenExecuting, pc, admitted, lost>>

(* The rest of Do for the trial call.                                      *)
TrialEnd(p, failed) ==
  /\ pc[p] = "trial"
  /\ halfOpenExecuting' = FALSE
  /\ IF failed THEN TransitionTo("Open", now, records)
               ELSE TransitionTo("Closed", 0, records)
  /\ pc' = [pc EXCEPT ![p] = "idle"]
  /\ UNCHANGED <<now, admitted, lost>>

(* pruneRecords: the expired records at the front go.                      *)
Prune(recs) ==
  LET expired == {i \in DOMAIN recs : \A j \in 1..i : recs[j].t < now - Window}
  IN SubSeq(recs, Cardinality(expired) + 1, Len(recs))

Failures(recs) == Cardinality({i \in DOMAIN recs : recs[i].isFailed})

Tripped(recs) ==
  /\ Len(recs) >= MinRequests
  /\ Failures(recs) * Den >= Num * Len(recs)

(* The rest of Do for any other call, whatever the state is by now.        *)
CallEnd(p, failed) ==
  LET recs == Prune(Append(records, [t |-> now, isFailed |-> failed])) IN
  /\ pc[p] = "call"
  /\ IF Tripped(recs) THEN TransitionTo("Open", now, recs)
                      ELSE TransitionTo(state, now, recs)
  /\ pc' = [pc EXCEPT ![p] = "idle"]
  /\ UNCHANGED <<now, halfOpenExecuting, admitted, lost>>

(* fn panics: nothing of the rest of Do is run.                            *)
Panic(p) ==
  /\ pc[p] \in {"call", "trial"}
  /\ lost' = (lost \/ pc[p] = "trial")
  /\ pc' = [pc EXCEPT ![p] = "idle"]
  /\ UNCHANGED <<now, state, openTime, records, halfOpenExecuting, admitted,
                 closedAt>>

Next ==
  \/ Tick
  \/ CheckState
  \/ \E p \in Procs :
       \/ DoBegin(p)
       \/ \E failed \in BOOLEAN : TrialEnd(p, failed) \/ CallEnd(p, failed)
       \/ Panic(p)

Spec == Init /\ [][Next]_vars

-----------------------------------------------------------------------------
Trials == {p \in Procs : pc[p] = "trial"}

(* Every variable has its type; the time of the opening is in the past.     *)
TypeOK ==
  /\ now \in 0..MaxTime
  /\ state \in States
  /\ openTime \in 0..now
  /\ records \in Seq([t : 0..MaxTime, isFailed : BOOLEAN])
  /\ halfOpenExecuting \in BOOLEAN
  /\ pc \in [Procs -> {"idle", "call", "trial"}]
  /\ admitted \in 0..MaxCalls
  /\ closedAt \in 0..MaxTime
  /\ lost \in BOOLEAN

(* "Half-Open: A single trial request is permitted" (doc.go:16): there is   *)
(* never a second one, even when the first is so slow that the breaker has  *)
(* opened and cooled down again, and after a trial that panicked there is   *)
(* none at all, as halfOpenExecuting stays set (breaker.go:125-138).        *)
OneTrial ==
  /\ TypeOK
  /\ Cardinality(Trials) <= 1
  /\ halfOpenExecuting <=> (Trials # {} \/ lost)
  /\ lost => Trials = {}

(* While the breaker is closed, the failures of an earlier outage do not    *)
(* count against it, although calls admitted before it report in every      *)
(* state (breaker.go:149, 185-187), and it does not go on with failures     *)
(* beyond its threshold (breaker.go:153-165).                               *)
ClosedSound ==
  state = "Closed" =>
    /\ \A i \in DOMAIN records : records[i].t >= closedAt
    /\ ~Tripped(records)
=============================================================================
