----------------------------- MODULE DataLoader -----------------------------
(***************************************************************************)
(* DataLoader of generic/concurrency.go.  A Load stands for the channel it *)
(* makes; batches run concurrently, each in the goroutine of its timer.    *)
(***************************************************************************)
EXTENDS Naturals, FiniteSets

CONSTANTS
  Loads,    \* the calls of Load
  Keys,
  KeyOf,    \* the key of each
  Nothing   \* an empty channel

(* The names of values, of an error and of the states of a Load differ.    *)
LoaderAssumption ==
  /\ KeyOf \in [Loads -> Keys]
  /\ Keys \cap {"error", "new", "waiting", "cancelled"} = {}
  /\ Nothing \notin Keys \cup {"error"}

VARIABLES
  pending,  \* l.pending, as the loads whose channels are in it
  timer,    \* l.timer is not nil
  batches,  \* the loads of each batch whose batchFn is running
  chan,     \* what is in each load's channel: a key's value or an error
  load      \* where each load is, or what it returned

vars == <<pending, timer, batches, chan, load>>

Init ==
  /\ pending = {} /\ timer = FALSE /\ batches = {}
  /\ chan = [l \in Loads |-> Nothing]
  /\ load = [l \in Loads |-> "new"]

(* The locked section of Load; the timer is started if there is none.      *)
Load(l) ==
  /\ load[l] = "new"
  /\ load' = [load EXCEPT ![l] = "waiting"]
  /\ pending' = pending \cup {l}
  /\ timer' = TRUE
  /\ UNCHANGED <<batches, chan>>

\* mutant: the timer is not reset
ExecuteBatchOn ==
  /\ timer
  /\ batches' = IF pending = {} THEN batches ELSE batches \cup {pending}
  /\ pending' = {}
  /\ UNCHANGED <<timer, chan, load>>

(* The timer fires and executeBatch takes what is pending.                 *)
ExecuteBatch ==
  /\ timer
  /\ batches' = IF pending = {} THEN batches ELSE batches \cup {pending}
  /\ pending' = {} /\ timer' = FALSE
  /\ UNCHANGED <<chan, load>>

(* batchFn returns an error, or values for some of the keys; executeBatch  *)
(* sends to every channel of the batch.                                    *)
BatchReturns(b, found) ==
  /\ b \in batches
  /\ batches' = batches \ {b}
  /\ chan' = [l \in Loads |->
                IF l \notin b THEN chan[l]
                ELSE IF KeyOf[l] \in found THEN KeyOf[l] ELSE "error"]
  /\ UNCHANGED <<pending, timer, load>>

(* The select of Load: the result, or the context.                         *)
Receive(l) ==
  /\ load[l] = "waiting" /\ chan[l] # Nothing
  /\ load' = [load EXCEPT ![l] = chan[l]]
  /\ chan' = [chan EXCEPT ![l] = Nothing]
  /\ UNCHANGED <<pending, timer, batches>>

CtxDone(l) ==
  /\ load[l] = "waiting"
  /\ load' = [load EXCEPT ![l] = "cancelled"]
  /\ UNCHANGED <<pending, timer, batches, chan>>

Next ==
  \/ ExecuteBatch
  \/ \E b \in batches, found \in SUBSET Keys : BatchReturns(b, found)
  \/ \E l \in Loads : Load(l) \/ Receive(l) \/ CtxDone(l)

Spec == Init /\ [][Next]_vars

(* The timer fires, batch functions return, and goroutines run on.         *)
Fairness ==
  /\ WF_vars(ExecuteBatch)
  /\ \A l \in Loads :
       /\ WF_vars(Receive(l))
       /\ WF_vars(\E b \in batches, found \in SUBSET Keys :
                          l \in b /\ BatchReturns(b, found))

-----------------------------------------------------------------------------
TypeOK ==
  /\ pending \subseteq Loads /\ timer \in BOOLEAN
  /\ batches \subseteq SUBSET Loads
  /\ chan \in [Loads -> Keys \cup {"error", Nothing}]
  /\ load \in [Loads -> Keys \cup {"new", "waiting", "cancelled", "error"}]

(* The timer runs exactly while something is pending, so no load waits for  *)
(* a timer that is not there and none fires for nothing; a load is in one   *)
(* place only, so the one send to its channel finds it empty, although the  *)
(* load itself may be gone (concurrency.go:299-303, 318-354); and it gets   *)
(* the value of its own key.                                                *)
LoadsBatchedOnce ==
  /\ TypeOK
  /\ timer <=> pending # {}
  /\ \A b \in batches : b # {} /\ b \cap pending = {}
  /\ \A b, c \in batches : b # c => b \cap c = {}
  /\ \A l \in pending \cup UNION batches : chan[l] = Nothing
  /\ \A l \in Loads :
       /\ load[l] = "waiting" =>
            l \in pending \cup UNION batches \/ chan[l] # Nothing
       /\ {chan[l], load[l]} \cap Keys \subseteq {KeyOf[l]}

(* Every Load returns.                                                      *)
LoadReturns == \A l \in Loads : load[l] = "waiting" ~> load[l] # "waiting"
=============================================================================
