-------------------------------- MODULE Bus --------------------------------
(***************************************************************************)
(* The event dispatcher of bus/bus.go.                                     *)
(*                                                                         *)
(* Publish holds b.mu for reading from its lookup to its last send, so a   *)
(* publisher between Publish and PublishEnd is a reader; it tests the flag *)
(* of a subscription and sends to its channel in two steps.  The           *)
(* operations under the write lock are atomic: what can run beside them,   *)
(* the CompareAndSwap of Unsubscribe, is a step of its own.                *)
(***************************************************************************)
EXTENDS Integers, Sequences

CONSTANTS
  Types,      \* event types, as resolveType yields them
  Procs,      \* goroutines that publish
  MaxSubs,    \* bound on the subscriptions made
  MaxEvents,  \* bound on the events published
  Capacity    \* of a channel: 128 (Subscribe) or 256 (SubscribeAll)

ASSUME BusAssumption ==
  /\ MaxSubs \in Nat
  /\ MaxEvents \in Nat
  /\ Capacity \in Nat \ {0}
  /\ Types # {}

Subs == 1..MaxSubs
Events == [by : Procs, n : 1..MaxEvents]

VARIABLES
  closed,   \* b.closed
  nextID,   \* b.nextID
  subs,     \* b.subs; an absent type has no subscriptions
  all,      \* b.all
  types,    \* sub.types
  flag,     \* sub.closed
  open,     \* is sub.ch open?
  buf,      \* the events in sub.ch
  pub,      \* where each publisher is
  sent,     \* the number of events published
  leaving,  \* subscriptions whose Unsubscribe is about to take b.mu
  every,    \* history: the subscriptions SubscribeAll made
  panicked, \* history: has a close of a closed channel panicked?
  log,      \* history: the events sent to each subscription
  dropped   \* history: the events dropped for a full channel

registry == <<closed, nextID, subs, all, types, every>>
channel == <<buf, log, dropped>>
vars == <<registry, flag, open, channel, pub, sent, leaving, panicked>>

-----------------------------------------------------------------------------
(* n is the number of the event and type its type; todo the subscriptions  *)
(* the loops have not come to, sub the one whose flag was found unset, or  *)
(* 0.                                                                      *)
Publishers ==
  [on : BOOLEAN, n : 0..MaxEvents, type : Types, todo : SUBSET Subs, sub : 0..MaxSubs]

NotPublishing ==
  [on |-> FALSE, n |-> 0, type |-> CHOOSE t \in Types : TRUE, todo |-> {}, sub |-> 0]

Init ==
  /\ closed = FALSE
  /\ nextID = 0
  /\ subs = [t \in Types |-> {}]
  /\ all = {}
  /\ types = [s \in Subs |-> {}]
  /\ flag = [s \in Subs |-> FALSE]
  /\ open = [s \in Subs |-> FALSE]
  /\ buf = [s \in Subs |-> <<>>]
  /\ pub = [p \in Procs |-> NotPublishing]
  /\ sent = 0
  /\ leaving = {}
  /\ every = {}
  /\ panicked = FALSE
  /\ log = [s \in Subs |-> <<>>]
  /\ dropped = [s \in Subs |-> {}]

(* b.mu.Lock().                                                            *)
Exclusive == \A p \in Procs : ~pub[p].on

(* On a closed bus a subscription is born closed.  T = {}: no event, or    *)
(* only nil ones, were given.                                              *)
Subscribe(T) ==
  LET s == nextID + 1 IN
  /\ Exclusive /\ nextID < MaxSubs
  /\ nextID' = s
  /\ flag' = [flag EXCEPT ![s] = closed]
  /\ open' = [open EXCEPT ![s] = ~closed]
  /\ types' = [types EXCEPT ![s] = IF closed THEN {} ELSE T]
  /\ subs' = [t \in Types |-> IF ~closed /\ t \in T THEN subs[t] \cup {s} ELSE subs[t]]
  /\ UNCHANGED <<closed, all, every, channel, pub, sent, leaving, panicked>>

SubscribeAll ==
  LET s == nextID + 1 IN
  /\ Exclusive /\ nextID < MaxSubs
  /\ nextID' = s
  /\ flag' = [flag EXCEPT ![s] = closed]
  /\ open' = [open EXCEPT ![s] = ~closed]
  /\ all' = IF closed THEN all ELSE all \cup {s}
  /\ every' = every \cup {s}
  /\ UNCHANGED <<closed, subs, types, channel, pub, sent, leaving, panicked>>

\* mutant: the subscriptions to every event are left out
PublishTyped(p, t) ==
  /\ ~pub[p].on /\ ~closed /\ sent < MaxEvents
  /\ sent' = sent + 1
  /\ pub' = [pub EXCEPT ![p] =
       [on |-> TRUE, n |-> sent + 1, type |-> t, todo |-> subs[t], sub |-> 0]]
  /\ UNCHANGED <<registry, flag, open, channel, leaving, panicked>>

(* Publish of a new event of type t, up to its loops; on a closed bus it   *)
(* does nothing.                                                           *)
Publish(p, t) ==
  /\ ~pub[p].on /\ ~closed /\ sent < MaxEvents
  /\ sent' = sent + 1
  /\ pub' = [pub EXCEPT ![p] =
       [on |-> TRUE, n |-> sent + 1, type |-> t, todo |-> subs[t] \cup all, sub |-> 0]]
  /\ UNCHANGED <<registry, flag, open, channel, leaving, panicked>>

Event(p) == [by |-> p, n |-> pub[p].n]

(* The first loop is over the subscriptions to the type, the second over   *)
(* the subscriptions to every event, each in any order.                    *)
Turn(p) ==
  LET typed == pub[p].todo \cap subs[pub[p].type] IN
  IF typed # {} THEN typed ELSE pub[p].todo

(* directSend: sub.closed.Load().                                          *)
DirectLoad(p, s) ==
  /\ pub[p].on /\ pub[p].sub = 0
  /\ s \in Turn(p)
  /\ pub' = [pub EXCEPT ![p].todo = @ \ {s}, ![p].sub = IF flag[s] THEN 0 ELSE s]
  /\ UNCHANGED <<registry, flag, open, channel, sent, leaving, panicked>>

(* directSend: the select that sends or, for want of room, drops.          *)
DirectSend(p) ==
  LET s == pub[p].sub IN
  /\ pub[p].on /\ s # 0
  /\ IF Len(buf[s]) < Capacity
     THEN /\ buf' = [buf EXCEPT ![s] = Append(@, Event(p))]
          /\ log' = [log EXCEPT ![s] = Append(@, Event(p))]
          /\ UNCHANGED dropped
     ELSE /\ dropped' = [dropped EXCEPT ![s] = @ \cup {Event(p)}]
          /\ UNCHANGED <<buf, log>>
  /\ pub' = [pub EXCEPT ![p].sub = 0]
  /\ UNCHANGED <<registry, flag, open, sent, leaving, panicked>>

PublishEnd(p) ==
  /\ pub[p].on /\ pub[p].todo = {} /\ pub[p].sub = 0
  /\ pub' = [pub EXCEPT ![p] = NotPublishing]
  /\ UNCHANGED <<registry, flag, open, channel, sent, leaving, panicked>>

(* The subscriber receives an event; what a closed channel holds can still *)
(* be received.                                                            *)
Receive(s) ==
  /\ buf[s] # <<>>
  /\ buf' = [buf EXCEPT ![s] = Tail(@)]
  /\ UNCHANGED <<registry, flag, open, log, dropped, pub, sent, leaving, panicked>>

\* mutant: the flag is taken for the whole of the work
UnsubscribeFlagged(s) ==
  /\ s <= nextID /\ ~flag[s]
  /\ flag' = [flag EXCEPT ![s] = TRUE]
  /\ leaving' = IF s \in all THEN leaving \cup {s} ELSE leaving
  /\ UNCHANGED <<registry, open, channel, pub, sent, panicked>>

(* The CompareAndSwap of Unsubscribe; who loses it returns.                *)
Unsubscribe(s) ==
  /\ s <= nextID /\ ~flag[s]
  /\ flag' = [flag EXCEPT ![s] = TRUE]
  /\ leaving' = leaving \cup {s}
  /\ UNCHANGED <<registry, open, channel, pub, sent, panicked>>

\* mutant: the types of the subscription are not looked up
UnsubscribeForgets(s) ==
  /\ s \in leaving /\ Exclusive
  /\ all' = all \ {s}
  /\ panicked' = (panicked \/ ~open[s])
  /\ open' = [open EXCEPT ![s] = FALSE]
  /\ leaving' = leaving \ {s}
  /\ UNCHANGED <<closed, nextID, subs, types, every, flag, channel, pub, sent>>

\* mutant: the channel is closed without the write lock
UnsubscribeUnlocked(s) ==
  /\ s \in leaving
  /\ all' = all \ {s}
  /\ subs' = [t \in Types |-> IF t \in types[s] THEN subs[t] \ {s} ELSE subs[t]]
  /\ panicked' = (panicked \/ ~open[s])
  /\ open' = [open EXCEPT ![s] = FALSE]
  /\ leaving' = leaving \ {s}
  /\ UNCHANGED <<closed, nextID, types, every, flag, channel, pub, sent>>

(* unsubscribe: the close panics if the channel is closed already, and the *)
(* deferred Unlock is run; a caller may recover and go on.                 *)
UnsubscribeLocked(s) ==
  /\ s \in leaving /\ Exclusive
  /\ all' = all \ {s}
  /\ subs' = [t \in Types |-> IF t \in types[s] THEN subs[t] \ {s} ELSE subs[t]]
  /\ panicked' = (panicked \/ ~open[s])
  /\ open' = [open EXCEPT ![s] = FALSE]
  /\ leaving' = leaving \ {s}
  /\ UNCHANGED <<closed, nextID, types, every, flag, channel, pub, sent>>

(* The subscriptions in the registry, each once.                           *)
Unique == all \cup UNION {subs[t] : t \in Types}

Close ==
  /\ Exclusive /\ ~closed
  /\ closed' = TRUE
  /\ flag' = [s \in Subs |-> flag[s] \/ s \in Unique]
  /\ open' = [s \in Subs |-> open[s] /\ s \notin Unique]
  /\ subs' = [t \in Types |-> {}]
  /\ all' = {}
  /\ UNCHANGED <<nextID, types, every, channel, pub, sent, leaving, panicked>>

Next ==
  \/ \E T \in SUBSET Types : Subscribe(T)
  \/ SubscribeAll
  \/ \E p \in Procs :
       \/ \E t \in Types : Publish(p, t)
       \/ \E s \in Subs : DirectLoad(p, s)
       \/ DirectSend(p)
       \/ PublishEnd(p)
  \/ \E s \in Subs : Receive(s) \/ Unsubscribe(s) \/ UnsubscribeLocked(s)
  \/ Close

Spec == Init /\ [][Next]_vars

(* A Publish under way goes on, and sync.RWMutex lets a writer in: it      *)
(* holds back the readers that come after a waiting writer.                *)
Fairness ==
  /\ \A p \in Procs :
       /\ WF_vars(\E s \in Subs : DirectLoad(p, s))
       /\ WF_vars(DirectSend(p))
       /\ WF_vars(PublishEnd(p))
  /\ \A s \in Subs : SF_vars(UnsubscribeLocked(s))

FairSpec == Spec /\ Fairness

-----------------------------------------------------------------------------
(* Every variable has its type; no channel holds more than its capacity.    *)
TypeOK ==
  /\ closed \in BOOLEAN /\ panicked \in BOOLEAN
  /\ nextID \in 0..MaxSubs
  /\ subs \in [Types -> SUBSET Subs]
  /\ all \in SUBSET Subs
  /\ types \in [Subs -> SUBSET Types]
  /\ every \in SUBSET Subs
  /\ flag \in [Subs -> BOOLEAN]
  /\ open \in [Subs -> BOOLEAN]
  /\ buf \in [Subs -> Seq(Events)]
  /\ \A s \in Subs : Len(buf[s]) <= Capacity
  /\ pub \in [Procs -> Publishers]
  /\ sent \in 0..MaxEvents
  /\ leaving \in SUBSET Subs
  /\ log \in [Subs -> Seq(Events)]
  /\ dropped \in [Subs -> SUBSET Events]

(* Publish never sends on a closed channel, which would panic, however      *)
(* Unsubscribe and Close run between its test of sub.closed and its send:   *)
(* what keeps them out is the read lock, not the flag (bus.go:228-237).     *)
NoSendOnClosed == \A p \in Procs : pub[p].sub # 0 => open[pub[p].sub]

Registered ==
  \A s \in Subs :
    /\ \A t \in Types : s \in subs[t] <=> open[s] /\ t \in types[s]
    /\ s \in all <=> open[s] /\ s \in every
    /\ s \in every => types[s] = {}
    /\ ~open[s] /\ s <= nextID => flag[s]

(* Nothing closed is left in either map and nothing open is missing: a      *)
(* subscription is registered for its types, or for every event, as long as *)
(* its channel is open and never after, also when Unsubscribe and Close     *)
(* overlap (bus.go:198-211, 243-254).                                       *)
RegistryExact == TypeOK /\ Registered

Sent(s) == {log[s][i] : i \in DOMAIN log[s]}

(* A Publish passes over no subscription that is registered for its event:  *)
(* when it returns each has got the event, was found closed, or had no room *)
(* (bus.go:159-183).                                                        *)
Delivered ==
  \A p \in Procs : pub[p].on =>
    \A s \in subs[pub[p].type] \cup all :
      \/ s \in pub[p].todo \cup {pub[p].sub}
      \/ flag[s]
      \/ Event(p) \in Sent(s) \cup dropped[s]

(* A subscription that was given up has its channel closed in the end, so   *)
(* that a range over C() ends (bus.go:58-60).                               *)
ChannelCloses == \A s \in Subs : flag[s] ~> ~open[s]

(* "It is safe to call Unsubscribe concurrently from multiple goroutines"   *)
(* (bus.go:64): no channel is closed twice.                                 *)
NoDoubleClose == ~panicked

=============================================================================
