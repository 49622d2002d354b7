----------------------------- MODULE MCBehavior -----------------------------
(* Behavior for TLC: one of two behaviours calls the orchestrator while it *)
(* runs, and two goroutines call Stop.                                     *)
EXTENDS Behavior, TLC

MCNameOf == [b \in Behaviors |-> b]
=============================================================================
