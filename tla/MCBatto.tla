------------------------------ MODULE MCBatto ------------------------------
(* Batto for TLC: three callers, so that one can abandon a call, one start *)
(* the call that replaces it and one join.  The name of a call whose       *)
(* worker has ended is used again, so two are enough for an abandoned      *)
(* worker next to a live one, and for two live ones once the abandoned one *)
(* has ended.                                                              *)
EXTENDS Batto, TLC

(* Callers are interchangeable, and so are the names of calls.             *)
Symmetry == Permutations(Procs) \cup Permutations(Calls)
=============================================================================
