------------------------------- MODULE MCJobs -------------------------------
(* Jobs for TLC: two jobs, two ids, two callers, one waiter and a capacity *)
(* of one, so that the second job comes after the first or in another      *)
(* store, under the same id or another one.  A program's jobs are all      *)
(* one-shot or all keep-alive; BothKinds mixes the two in one program.     *)
EXTENDS Jobs, TLC

Timed == [cb |-> TRUE, wait |-> TRUE, watch |-> {"timer"}, keep |-> FALSE]
Bare == [cb |-> TRUE, wait |-> FALSE, watch |-> {}, keep |-> FALSE]
Bound == [cb |-> TRUE, wait |-> FALSE, watch |-> {"ctx"}, keep |-> FALSE]
Stream == [cb |-> TRUE, wait |-> TRUE, watch |-> {}, keep |-> TRUE]

OneKind == {{Timed, Bare}, {Bound}, {Stream}}
BothKinds == {{Timed, Stream}}
OneShots == {{Timed}}
=============================================================================
