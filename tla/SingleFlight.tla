---------------------------- MODULE SingleFlight ----------------------------
(***************************************************************************)
(* SingleFlight of generic/concurrency.go.                                 *)
(***************************************************************************)
EXTENDS Naturals, FiniteSets

CONSTANTS
  Procs,    \* goroutines that call Do
  Keys,
  MaxCalls  \* bound on the calls that are made

FlightAssumption == MaxCalls \in Nat

VARIABLES
  m,        \* g.m: the number of each key's call, or 0
  made,     \* how many calls were made
  done,     \* the calls that have a result: their wg is at zero
  doing,    \* the Do each goroutine is in
  panicked  \* history: the calls whose function panicked

vars == <<m, made, done, doing, panicked>>

Idle == [at |-> "idle"]
In(state, k, c) == [at |-> state, key |-> k, call |-> c]

Init ==
  /\ m = [k \in Keys |-> 0]
  /\ made = 0
  /\ done = {} /\ panicked = {}
  /\ doing = [p \in Procs |-> Idle]

(* The first section of Do finds a call to wait for, or makes one.         *)
Join(p, k) ==
  /\ doing[p] = Idle /\ m[k] # 0
  /\ doing' = [doing EXCEPT ![p] = In("wait", k, m[k])]
  /\ UNCHANGED <<m, made, done, panicked>>

Lead(p, k) ==
  /\ doing[p] = Idle /\ m[k] = 0 /\ made < MaxCalls
  /\ made' = made + 1
  /\ m' = [m EXCEPT ![k] = made + 1]
  /\ doing' = [doing EXCEPT ![p] = In("run", k, made + 1)]
  /\ UNCHANGED <<done, panicked>>

\* mutant: the key is deleted before the result is there, without a second look
FnReturnsEarly(p) ==
  /\ doing[p].at = "run"
  /\ m' = [m EXCEPT ![doing[p].key] = 0]
  /\ done' = done \cup {doing[p].call}
  /\ doing' = [doing EXCEPT ![p].at = "delete"]
  /\ UNCHANGED <<made, panicked>>

(* fn returns, and c.wg.Done().                                            *)
FnReturns(p) ==
  /\ doing[p].at = "run"
  /\ done' = done \cup {doing[p].call}
  /\ doing' = [doing EXCEPT ![p].at = "delete"]
  /\ UNCHANGED <<m, made, panicked>>

(* fn panics: nothing of the rest of Do is run, the goroutine may go on.   *)
FnPanics(p) ==
  /\ doing[p].at = "run"
  /\ panicked' = panicked \cup {doing[p].call}
  /\ doing' = [doing EXCEPT ![p] = Idle]
  /\ UNCHANGED <<m, made, done>>

(* The last section of Do, which deletes the key whatever its call is.     *)
Delete(p) ==
  /\ doing[p].at = "delete"
  /\ m' = [m EXCEPT ![doing[p].key] = 0]
  /\ doing' = [doing EXCEPT ![p] = Idle]
  /\ UNCHANGED <<made, done, panicked>>

(* c.wg.Wait() returns.                                                    *)
WaitReturns(p) ==
  /\ doing[p].at = "wait" /\ doing[p].call \in done
  /\ doing' = [doing EXCEPT ![p] = Idle]
  /\ UNCHANGED <<m, made, done, panicked>>

Next ==
  \E p \in Procs :
    \/ \E k \in Keys : Join(p, k) \/ Lead(p, k)
    \/ FnReturns(p) \/ FnPanics(p) \/ Delete(p) \/ WaitReturns(p)

Spec == Init /\ [][Next]_vars

(* Functions end, and nobody stands still between two sections.            *)
Fairness ==
  \A p \in Procs :
    /\ WF_vars(FnReturns(p) \/ FnPanics(p))
    /\ WF_vars(Delete(p) \/ WaitReturns(p))

-----------------------------------------------------------------------------
TypeOK ==
  /\ m \in [Keys -> 0..made] /\ made \in 0..MaxCalls
  /\ done \cup panicked \subseteq 1..made
  /\ \A p \in Procs : doing[p].at \in {"idle", "wait", "run", "delete"}

Leaders(k) == {p \in Procs : doing[p].at \in {"run", "delete"} /\ doing[p].key = k}

(* A key has one call at a time, from the first section of its Do to the    *)
(* last: whoever runs a function finds its own call in the map, so the      *)
(* unchecked delete (concurrency.go:163-165) never removes another's, and a *)
(* call in the map has somebody who will delete it unless its function has  *)
(* panicked, after which the key never gets a new one.                      *)
OneFlight ==
  /\ TypeOK
  /\ \A k \in Keys :
       /\ Cardinality(Leaders(k)) <= 1
       /\ \A p \in Leaders(k) : m[k] = doing[p].call
       /\ m[k] # 0 => (Leaders(k) # {} \/ m[k] \in panicked)
       /\ m[k] \in panicked => Leaders(k) = {}
  /\ \A p \in Procs :
       doing[p].at = "wait" /\ doing[p].call \notin done =>
         m[doing[p].key] = doing[p].call

(* SingleFlight is a SharedCall for each of its keys: a call stays in the   *)
(* map after its end, until its leader takes it out.                        *)
Sharing(k) ==
  [p \in Procs |-> IF doing[p] # Idle /\ doing[p].key = k THEN doing[p].call
                   ELSE 0]

Answered(k) ==
  {p \in Procs : doing[p] # Idle /\ doing[p].key = k /\ doing[p].call \in done}

Shared(k) == INSTANCE SharedCall WITH
  Callers <- Procs, Calls <- 1..MaxCalls, NoCall <- 0,
  flight <- m[k], over <- m[k] \in done,
  sharing <- Sharing(k), answered <- Answered(k), lost <- {}

(* All who come for a key while its call is in the map get the result of    *)
(* that call, also who comes after its end (concurrency.go:137-165).        *)
SharesCall ==
  /\ \A k \in Keys : Shared(k)!Init
  /\ [][\A k \in Keys : [Shared(k)!Next]_(Shared(k)!callVars)]_vars

(* As long as no function panics, every Do returns.                         *)
DoReturns ==
  [](panicked = {}) => \A p \in Procs : doing[p].at # "idle" ~> doing[p].at = "idle"
=============================================================================
