------------------------------- MODULE Fanout -------------------------------
(***************************************************************************)
(* ParallelForEach of generic/concurrency.go, and with it ParallelMap,     *)
(* which is the same without errors: one call.  An element is its index.   *)
(***************************************************************************)
EXTENDS Integers, Sequences, FiniteSets

CONSTANTS
  MaxSize,  \* bound on len(slice)
  Limits    \* values of limit

FanoutAssumption == MaxSize \in Nat /\ Limits \subseteq Int

VARIABLES
  size,     \* len(slice)
  limit,    \* limit, once raised to 1
  ctxDone,  \* ctx.Done() is closed
  next,     \* the next element the loop starts
  slots,    \* len(sem)
  item,     \* where the goroutine of each element is
  errs,     \* the elements whose errors are in errs
  failed,   \* history: the elements whose fn returned an error
  answer,   \* "new", "running", "ctx" or "done"
  firstErr  \* the element whose error is returned, or 0

vars == <<size, limit, ctxDone, next, slots, item, errs, failed, answer, firstErr>>

Elements == 1..MaxSize

Init ==
  /\ size \in 1..MaxSize
  /\ limit \in {IF l <= 0 THEN 1 ELSE l : l \in Limits}
  /\ ctxDone = FALSE
  /\ next = 1 /\ slots = 0
  /\ item = [i \in Elements |-> "new"]
  /\ errs = <<>> /\ failed = {}
  /\ answer = "new" /\ firstErr = 0

Call ==
  /\ answer = "new"
  /\ answer' = "running"
  /\ UNCHANGED <<size, limit, ctxDone, next, slots, item, errs, failed, firstErr>>

CtxDone ==
  /\ ~ctxDone
  /\ ctxDone' = TRUE
  /\ UNCHANGED <<size, limit, next, slots, item, errs, failed, answer, firstErr>>

\* mutant: the slot is not waited for
HasSlotAlways == TRUE

HasSlot == slots < limit

(* The select of the loop takes a slot, perhaps although ctx is done.      *)
Spawn ==
  /\ answer = "running" /\ next <= size
  /\ HasSlot
  /\ slots' = slots + 1
  /\ item' = [item EXCEPT ![next] = "run"]
  /\ next' = next + 1
  /\ UNCHANGED <<size, limit, ctxDone, errs, failed, answer, firstErr>>

(* It takes ctx.Done(): the call returns, its goroutines go on.            *)
GiveUp ==
  /\ answer = "running" /\ next <= size /\ ctxDone
  /\ answer' = "ctx"
  /\ UNCHANGED <<size, limit, ctxDone, next, slots, item, errs, failed, firstErr>>

(* fn returns; its error goes into errs if there is room.                  *)
FnReturns(i, err) ==
  /\ item[i] = "run"
  /\ item' = [item EXCEPT ![i] = "returned"]
  /\ failed' = IF err THEN failed \cup {i} ELSE failed
  /\ errs' = IF err /\ Len(errs) < size THEN Append(errs, i) ELSE errs
  /\ UNCHANGED <<size, limit, ctxDone, next, slots, answer, firstErr>>

(* The deferred calls, the last one first: <-sem, then wg.Done().          *)
FreeSlot(i) ==
  /\ item[i] = "returned"
  /\ slots' = slots - 1
  /\ item' = [item EXCEPT ![i] = "released"]
  /\ UNCHANGED <<size, limit, ctxDone, next, errs, failed, answer, firstErr>>

Done(i) ==
  /\ item[i] = "released"
  /\ item' = [item EXCEPT ![i] = "done"]
  /\ UNCHANGED <<size, limit, ctxDone, next, slots, errs, failed, answer, firstErr>>

(* wg.Wait() returns after the loop.                                       *)
Return ==
  /\ answer = "running" /\ next > size
  /\ \A i \in 1..size : item[i] = "done"
  /\ answer' = "done"
  /\ IF errs = <<>> THEN UNCHANGED <<errs, firstErr>>
                    ELSE firstErr' = Head(errs) /\ errs' = Tail(errs)
  /\ UNCHANGED <<size, limit, ctxDone, next, slots, item, failed>>

Goroutine(i) ==
  FreeSlot(i) \/ Done(i) \/ \E err \in BOOLEAN : FnReturns(i, err)

Next ==
  \/ Call \/ CtxDone \/ Spawn \/ GiveUp \/ Return
  \/ \E i \in Elements : Goroutine(i)

Spec == Init /\ [][Next]_vars

(* The loop and the goroutines run on, and fn returns.                     *)
Fairness ==
  /\ WF_vars(Spawn \/ GiveUp \/ Return)
  /\ \A i \in Elements : WF_vars(Goroutine(i))

-----------------------------------------------------------------------------
At(places) == {i \in Elements : item[i] \in places}

TypeOK ==
  /\ size \in 1..MaxSize /\ limit \in Nat \ {0} /\ ctxDone \in BOOLEAN
  /\ next \in 1..(size + 1) /\ slots \in Nat
  /\ item \in [Elements -> {"new", "run", "returned", "released", "done"}]
  /\ errs \in Seq(1..size) /\ firstErr \in 0..size

(* fn runs in at most limit goroutines at a time, and the slots are those   *)
(* of goroutines that have not ended, also when the call was cancelled and  *)
(* they go on without it.  Any other return comes after every element was   *)
(* run, with an error if and only if one of them has failed, for errs has   *)
(* room for all (concurrency.go:67-90).                                     *)
FanoutSound ==
  /\ TypeOK
  /\ slots = Cardinality(At({"run", "returned"}))
  /\ slots <= limit
  /\ answer = "done" =>
       /\ At({"done"}) = 1..size
       /\ IF failed = {} THEN firstErr = 0 ELSE firstErr \in failed

(* The call returns.                                                        *)
FanoutReturns == answer = "running" ~> answer # "running"
=============================================================================
