----------------------------- MODULE SharedCall -----------------------------
(***************************************************************************)
(* What the callers of one key are promised by the packages that suppress  *)
(* duplicate calls, whatever their locks and channels: the Group of batto  *)
(* and SingleFlight of generic both implement it for each of their keys.   *)
(*                                                                         *)
(* A call is begun only when the key has none, and everybody who comes     *)
(* until the key is freed shares it.  When it ends all who share it are    *)
(* answered at once, each with the answer of that call and no other.  The  *)
(* key is freed by the end of a call or by the last who gives one up; the  *)
(* end of a call that was given up frees it too, and takes it from the     *)
(* call that has replaced the other.                                       *)
(***************************************************************************)

CONSTANTS
  Callers,
  Calls,
  NoCall   \* "the key is free", "in no call"

VARIABLES
  flight,    \* the call that callers find
  over,      \* that call has ended already
  sharing,   \* the call each caller is in
  answered,  \* the callers that have the answer of their call
  lost       \* calls that everybody gave up, and that have not ended

callVars == <<flight, over, sharing, answered, lost>>

Init ==
  /\ flight = NoCall
  /\ over = FALSE
  /\ sharing = [p \in Callers |-> NoCall]
  /\ answered = {}
  /\ lost = {}

Sharers(c) == {p \in Callers : sharing[p] = c}

Begin(p, c) ==
  /\ sharing[p] = NoCall /\ flight = NoCall
  /\ Sharers(c) = {} /\ c \notin lost
  /\ flight' = c
  /\ sharing' = [sharing EXCEPT ![p] = c]
  /\ UNCHANGED <<over, answered, lost>>

(* Who finds a call that is over has its answer at once.                   *)
Join(p) ==
  /\ sharing[p] = NoCall /\ flight # NoCall
  /\ sharing' = [sharing EXCEPT ![p] = flight]
  /\ answered' = IF over THEN answered \cup {p} ELSE answered
  /\ UNCHANGED <<flight, over, lost>>

(* The last one to give a call up may free the key, and then the call goes *)
(* on without a caller.                                                    *)
GiveUp(p) ==
  /\ sharing[p] # NoCall /\ p \notin answered
  /\ sharing' = [sharing EXCEPT ![p] = NoCall]
  /\ \/ UNCHANGED <<flight, over, lost>>
     \/ /\ Sharers(sharing[p]) = {p}
        /\ flight' = NoCall /\ over' = FALSE
        /\ lost' = lost \cup {sharing[p]}
  /\ UNCHANGED answered

End(c) ==
  /\ Sharers(c) # {} \/ c \in lost
  /\ Sharers(c) \cap answered = {}
  /\ answered' = answered \cup Sharers(c)
  /\ lost' = lost \ {c}
  /\ \/ flight' = NoCall /\ over' = FALSE
     \/ flight = c /\ over' = TRUE /\ UNCHANGED flight
  /\ UNCHANGED sharing

(* A caller returns with its answer, and may free a key whose call is over. *)
Return(p) ==
  /\ p \in answered
  /\ sharing' = [sharing EXCEPT ![p] = NoCall]
  /\ answered' = answered \ {p}
  /\ \/ UNCHANGED <<flight, over>>
     \/ over /\ flight' = NoCall /\ over' = FALSE
  /\ UNCHANGED lost

Next ==
  \/ \E p \in Callers :
       \/ \E c \in Calls : Begin(p, c)
       \/ Join(p) \/ GiveUp(p) \/ Return(p)
  \/ \E c \in Calls : End(c)

Spec == Init /\ [][Next]_callVars
=============================================================================
