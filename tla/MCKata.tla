------------------------------- MODULE MCKata -------------------------------
(* Kata for TLC: two goroutines that fire the one event of                 *)
(* TestFSM_ConcurrentTransitions (kata_test.go:212) in the first state.    *)
EXTENDS Kata, TLC

MCRules == {[from |-> "A", event |-> "go", to |-> "B"],
            [from |-> "B", event |-> "back", to |-> "A"]}

MCForced == {}
=============================================================================
