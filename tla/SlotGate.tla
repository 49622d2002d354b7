------------------------------ MODULE SlotGate ------------------------------
(***************************************************************************)
(* What a gate in front of a bounded number of slots promises, whatever    *)
(* its locks and channels: sync/semaphore and the adaptive limiter of      *)
(* sync/limiter both implement it.                                         *)
(*                                                                         *)
(* A slot is taken only while fewer than limit are in use, and in the      *)
(* order of arrival: nobody enters past a queue.  The limit may move at    *)
(* any time; a limit that sinks below the slots in use takes nothing back. *)
(***************************************************************************)
EXTENDS Integers, Sequences

CONSTANT Procs

VARIABLES
  limit,    \* slots that may be in use
  used,     \* slots in use
  holders,  \* who owns a slot
  queue     \* who waits for one, in the order of arrival

gateVars == <<limit, used, holders, queue>>

Init ==
  /\ limit \in Int
  /\ used = 0
  /\ holders = {}
  /\ queue = <<>>

(* A slot is free and nobody waits for it.                                 *)
Enter(p) ==
  /\ p \notin holders
  /\ queue = <<>>
  /\ used < limit
  /\ used' = used + 1
  /\ holders' = holders \cup {p}
  /\ UNCHANGED <<limit, queue>>

Arrive(p) ==
  /\ p \notin holders
  /\ queue' = Append(queue, p)
  /\ UNCHANGED <<limit, used, holders>>

(* Who waits may give up, wherever in the queue.                           *)
GiveUp(i) ==
  /\ queue' = SubSeq(queue, 1, i - 1) \o SubSeq(queue, i + 1, Len(queue))
  /\ UNCHANGED <<limit, used, holders>>

(* An owner that goes without giving its slot back; the slot stays in use. *)
Lose(p) ==
  /\ holders' = holders \ {p}
  /\ UNCHANGED <<limit, used, queue>>

(* The one in gone, if any, gives its slot back, the limit moves, and *)
(* the first k in the queue get slots, if there are any below the limit.   *)
Serve(gone, k) ==
  /\ limit' \in Int
  /\ used' = used - (IF gone = {} THEN 0 ELSE 1) + k
  /\ k > 0 => used' <= limit'
  /\ holders' = (holders \ gone) \cup {queue[i] : i \in 1..k}
  /\ queue' = SubSeq(queue, k + 1, Len(queue))

Next ==
  \/ \E p \in Procs : Enter(p) \/ Arrive(p) \/ Lose(p)
  \/ \E i \in DOMAIN queue : GiveUp(i)
  \/ \E gone \in {{}} \cup {{p} : p \in holders}, k \in 0..Len(queue) :
       Serve(gone, k)

Spec == Init /\ [][Next]_gateVars
=============================================================================
