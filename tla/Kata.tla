------------------------------- MODULE Kata -------------------------------
(***************************************************************************)
(* The finite state machine of kata/.                                      *)
(*                                                                         *)
(* Transition looks its rule up and copies the hooks under the read lock,  *)
(* runs the before-hooks without a lock, sets the state under the write    *)
(* lock and runs the after-hooks without a lock.  What a hook does to the  *)
(* machine is what any other goroutine can do meanwhile.  current, rules   *)
(* and the hooks of an event are read and written under f.mu only.         *)
(***************************************************************************)
EXTENDS Naturals

CONSTANTS
  Procs,     \* goroutines that call the machine
  States,
  Events,
  Initial,   \* the state NewFSM is called with
  NoState,   \* "there is no such rule"
  Addable,   \* rules AddRules is called with: [from, event, to]
  Forced,    \* states ForceSet is called with
  MaxHooks   \* bound on the hooks of each kind that an event has

KataAssumption ==
  /\ Initial \in States /\ Forced \subseteq States
  /\ Addable \subseteq [from : States, event : Events, to : States]
  /\ NoState \notin States
  /\ MaxHooks \in Nat

VARIABLES
  current,    \* f.current
  rules,      \* f.rules
  hooks,      \* how many before- and after-hooks each event has
  call,       \* the Transition each goroutine is in
  overtaken   \* history: was the state written since its lookup?

vars == <<current, rules, hooks, call, overtaken>>

Idle == [at |-> "idle"]

Init ==
  /\ current = Initial
  /\ rules = [x \in States \X Events |-> NoState]
  /\ hooks = [e \in Events |-> [before |-> 0, after |-> 0]]
  /\ call = [p \in Procs |-> Idle]
  /\ overtaken = [p \in Procs |-> FALSE]

(* One rule of AddRules; a second one for the same pair replaces the first.*)
AddRule(r) ==
  /\ rules' = [rules EXCEPT ![<<r.from, r.event>>] = r.to]
  /\ UNCHANGED <<current, hooks, call, overtaken>>

OnBefore(e) ==
  /\ hooks[e].before < MaxHooks
  /\ hooks' = [hooks EXCEPT ![e].before = @ + 1]
  /\ UNCHANGED <<current, rules, call, overtaken>>

OnAfter(e) ==
  /\ hooks[e].after < MaxHooks
  /\ hooks' = [hooks EXCEPT ![e].after = @ + 1]
  /\ UNCHANGED <<current, rules, call, overtaken>>

SetCurrent(s) ==
  /\ current' = s
  /\ overtaken' = [p \in Procs |-> TRUE]

ForceSet(s) ==
  /\ SetCurrent(s)
  /\ UNCHANGED <<rules, hooks, call>>

(* Transition up to its first hook; without a rule it fails and changes    *)
(* nothing.                                                                *)
Lookup(p, e) ==
  /\ call[p] = Idle
  /\ rules[<<current, e>>] # NoState
  /\ call' = [call EXCEPT ![p] =
       [at |-> "before", from |-> current, event |-> e, to |-> rules[<<current, e>>],
        todo |-> hooks[e].before, after |-> hooks[e].after]]
  /\ overtaken' = [overtaken EXCEPT ![p] = FALSE]
  /\ UNCHANGED <<current, rules, hooks>>

(* A before-hook agrees.                                                   *)
HookAgrees(p) ==
  /\ call[p].at = "before" /\ call[p].todo > 0
  /\ call' = [call EXCEPT ![p].todo = @ - 1]
  /\ UNCHANGED <<current, rules, hooks, overtaken>>

(* A before-hook fails and the transition is off.                          *)
HookAborts(p) ==
  /\ call[p].at = "before" /\ call[p].todo > 0
  /\ call' = [call EXCEPT ![p] = Idle]
  /\ UNCHANGED <<current, rules, hooks, overtaken>>

(* f.current = to.                                                         *)
Apply(p) ==
  /\ call[p].at = "before" /\ call[p].todo = 0
  /\ SetCurrent(call[p].to)
  /\ call' = [call EXCEPT ![p].at = "after", ![p].todo = call[p].after]
  /\ UNCHANGED <<rules, hooks>>

\* mutant: an after-hook that fails takes the transition back
AfterRollsBack(p) ==
  /\ call[p].at = "after"
  /\ IF call[p].todo > 0
     THEN call' = [call EXCEPT ![p].todo = @ - 1] /\ current' = call[p].from
     ELSE call' = [call EXCEPT ![p] = Idle] /\ UNCHANGED current
  /\ UNCHANGED <<rules, hooks, overtaken>>

(* An after-hook, whose error is ignored, or the return of Transition.     *)
After(p) ==
  /\ call[p].at = "after"
  /\ IF call[p].todo > 0 THEN call' = [call EXCEPT ![p].todo = @ - 1]
                         ELSE call' = [call EXCEPT ![p] = Idle]
  /\ UNCHANGED <<current, rules, hooks, overtaken>>

Next ==
  \/ \E r \in Addable : AddRule(r)
  \/ \E e \in Events : OnBefore(e) \/ OnAfter(e)
  \/ \E s \in Forced : ForceSet(s)
  \/ \E p \in Procs :
       \/ \E e \in Events : Lookup(p, e)
       \/ HookAgrees(p) \/ HookAborts(p) \/ Apply(p) \/ After(p)

Spec == Init /\ [][Next]_vars

-----------------------------------------------------------------------------
TypeOK ==
  /\ current \in States
  /\ rules \in [States \X Events -> States \cup {NoState}]
  /\ hooks \in [Events -> [before : 0..MaxHooks, after : 0..MaxHooks]]
  /\ overtaken \in [Procs -> BOOLEAN]

(* The state a transition was checked against is the state it is applied    *)
(* to, unless another write came in between while its hooks ran, and only a *)
(* ForceSet or a transition that went through is such a write: one that a   *)
(* before-hook refused, or whose after-hook failed, moves nothing           *)
(* (transition.go:48-61).  It targets what some rule said.                  *)
MoveExplained ==
  /\ TypeOK
  /\ \A p \in Procs :
       call[p].at = "before" =>
         /\ ~overtaken[p] => current = call[p].from
         /\ [from |-> call[p].from, event |-> call[p].event, to |-> call[p].to]
              \in Addable

(* "Transition atomically moves the FSM from its current state to the next  *)
(* state determined by the given event" (transition.go:12-13): the state it *)
(* leaves is the one its rule starts from.  Stated for Forced = {}.         *)
AtomicMove ==
  [][\A p \in Procs :
       call[p].at = "before" /\ call'[p].at = "after" => current = call[p].from]_vars
=============================================================================
