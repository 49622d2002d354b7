----------------------------- MODULE BusProofs -----------------------------
(***************************************************************************)
(* What Bus guarantees for any number of publishers, subscriptions and     *)
(* events: the registry holds exactly the open subscriptions, no publisher *)
(* sends on a closed channel, and none passes over a subscription.         *)
(*                                                                         *)
(* The inductive invariant adds to these what the locks give: a publisher  *)
(* that holds the read lock looks only at subscriptions that are           *)
(* registered (Reading), one that does not is at rest, and a subscription  *)
(* on its way out has its flag set (Leaving).                              *)
(***************************************************************************)
EXTENDS Bus, TLAPS, SequenceTheorems

(* A publisher's remaining subscriptions are registered for its event, as   *)
(* no writer ran since its lookup.                                          *)
Reading ==
  \A p \in Procs :
    /\ pub[p].on => pub[p].todo \cup ({pub[p].sub} \ {0}) \subseteq subs[pub[p].type] \cup all
    /\ pub[p].on => pub[p].n \in 1..MaxEvents
    /\ ~pub[p].on => pub[p].todo = {} /\ pub[p].sub = 0

(* What unsubscribe is about to remove was flagged; what was not created    *)
(* yet is in no use.                                                        *)
Leaving ==
  /\ \A s \in leaving : flag[s] /\ s <= nextID
  /\ \A s \in Subs : s > nextID => ~open[s] /\ types[s] = {} /\ s \notin every

(* The types of the variables the argument depends on.                      *)
Types0 ==
  /\ nextID \in 0..MaxSubs
  /\ subs \in [Types -> SUBSET Subs]
  /\ all \in SUBSET Subs
  /\ types \in [Subs -> SUBSET Types]
  /\ every \in SUBSET Subs
  /\ flag \in [Subs -> BOOLEAN]
  /\ open \in [Subs -> BOOLEAN]
  /\ closed \in BOOLEAN
  /\ pub \in [Procs -> Publishers]
  /\ leaving \in SUBSET Subs
  /\ sent \in 0..MaxEvents
  /\ log \in [Subs -> Seq(Events)]
  /\ dropped \in [Subs -> SUBSET Events]

IInv == Types0 /\ Reading /\ Leaving /\ Registered /\ Delivered

-----------------------------------------------------------------------------
(* A publisher at rest is a publisher.                                      *)
LEMMA RestTyped == NotPublishing \in Publishers
<1>1. (CHOOSE t \in Types : TRUE) \in Types
  BY BusAssumption
<1> QED
  BY <1>1, BusAssumption DEF NotPublishing, Publishers, Subs

(* The empty bus satisfies the invariant.                                   *)
LEMMA InitIInv == Init => IInv
<1> SUFFICES ASSUME Init PROVE IInv
  OBVIOUS
<1>1. Types0
  <2>1. pub \in [Procs -> Publishers]
    BY RestTyped DEF Init
  <2>2. log \in [Subs -> Seq(Events)] /\ dropped \in [Subs -> SUBSET Events]
    BY DEF Init
  <2>3. nextID \in 0..MaxSubs /\ sent \in 0..MaxEvents
    BY BusAssumption DEF Init
  <2>4. /\ flag \in [Subs -> BOOLEAN] /\ open \in [Subs -> BOOLEAN]
        /\ closed \in BOOLEAN
    BY DEF Init
  <2>5. /\ subs \in [Types -> SUBSET Subs] /\ types \in [Subs -> SUBSET Types]
        /\ all \in SUBSET Subs /\ leaving \in SUBSET Subs /\ every \in SUBSET Subs
    BY DEF Init
  <2> QED
    BY <2>1, <2>2, <2>3, <2>4, <2>5 DEF Types0
<1>2. Reading
  BY DEF Init, Reading, NotPublishing
<1>3. Leaving
  BY DEF Init, Leaving, Subs
<1>4. Registered
  BY DEF Init, Registered, Subs
<1>5. Delivered
  BY DEF Init, Delivered, NotPublishing
<1> QED
  BY <1>1, <1>2, <1>3, <1>4, <1>5 DEF IInv

(* What DirectLoad and DirectSend do to a publisher.                        *)
LEMMA PublisherUpdate ==
  ASSUME pub \in [Procs -> Publishers], NEW p \in Procs,
         NEW T \in SUBSET Subs, NEW s \in 0..MaxSubs,
         pub' = [pub EXCEPT ![p].todo = T, ![p].sub = s]
  PROVE  /\ pub' \in [Procs -> Publishers]
         /\ \A q \in Procs : q # p => pub'[q] = pub[q]
         /\ pub'[p].todo = T /\ pub'[p].sub = s
         /\ pub'[p].on = pub[p].on /\ pub'[p].n = pub[p].n
         /\ pub'[p].type = pub[p].type
<1> DEFINE r == [pub[p] EXCEPT !.todo = T, !.sub = s]
<1>1. pub[p] \in Publishers
  OBVIOUS
<1>2. /\ r \in Publishers
      /\ r.todo = T /\ r.sub = s /\ r.on = pub[p].on /\ r.n = pub[p].n
      /\ r.type = pub[p].type
  BY <1>1 DEF Publishers
<1>3. pub' = [pub EXCEPT ![p] = r]
  OBVIOUS
<1> HIDE DEF r
<1> QED
  BY <1>2, <1>3

(* A writer leaves the promises to publishers alone, as none is under way.  *)
LEMMA WriterReads ==
  ASSUME Exclusive, Reading, UNCHANGED pub
  PROVE  Reading' /\ Delivered'
BY DEF Exclusive, Reading, Delivered

(* Appending to a log keeps what it holds and adds the new event.           *)
LEMMA AppendSent ==
  ASSUME NEW s \in Subs, NEW e \in Events, log \in [Subs -> Seq(Events)],
         log' = [log EXCEPT ![s] = Append(@, e)]
  PROVE  /\ log' \in [Subs -> Seq(Events)]
         /\ e \in Sent(s)'
         /\ \A r \in Subs : Sent(r) \subseteq Sent(r)'
<1>1. /\ Append(log[s], e) \in Seq(Events)
      /\ DOMAIN Append(log[s], e) = 1..(Len(log[s]) + 1)
      /\ Append(log[s], e)[Len(log[s]) + 1] = e
      /\ \A i \in 1..Len(log[s]) : Append(log[s], e)[i] = log[s][i]
  BY AppendProperties
<1>2. log' \in [Subs -> Seq(Events)]
  BY <1>1
<1>3. Len(log[s]) \in Nat /\ DOMAIN log[s] = 1..Len(log[s])
  OBVIOUS
<1>4. log'[s] = Append(log[s], e)
  OBVIOUS
<1>5. e \in Sent(s)'
  BY <1>1, <1>3, <1>4 DEF Sent
<1>6. ASSUME NEW r \in Subs PROVE Sent(r) \subseteq Sent(r)'
  <2>1. CASE r = s
    BY <2>1, <1>1, <1>3, <1>4 DEF Sent
  <2>2. CASE r # s
    BY <2>2 DEF Sent
  <2> QED
    BY <2>1, <2>2
<1> QED
  BY <1>2, <1>5, <1>6

-----------------------------------------------------------------------------
(* Every step keeps the invariant.                                          *)
LEMMA NextIInv == IInv /\ [Next]_vars => IInv'
<1> SUFFICES ASSUME IInv, [Next]_vars PROVE IInv'
  OBVIOUS
<1> USE BusAssumption DEF Subs
<1>a. Types0 /\ Reading /\ Leaving /\ Registered /\ Delivered
  BY DEF IInv
<1>1. ASSUME NEW T \in SUBSET Types, Subscribe(T) PROVE IInv'
  <2>1. Types0'
    BY <1>1, <1>a DEF Subscribe, Types0, channel
  <2>2. Reading' /\ Delivered'
    BY <1>1, <1>a, WriterReads DEF Subscribe
  <2>3. Leaving'
    BY <1>1, <1>a DEF Subscribe, Leaving, Types0
  <2>4. ASSUME NEW r \in Subs
        PROVE  /\ \A t \in Types : r \in subs'[t] <=> open'[r] /\ t \in types'[r]
               /\ r \in all' <=> open'[r] /\ r \in every'
               /\ r \in every' => types'[r] = {}
               /\ ~open'[r] /\ r <= nextID' => flag'[r]
    <3>1. CASE r = nextID + 1
      <4>1. r \notin all /\ r \notin every /\ \A t \in Types : r \notin subs[t]
        BY <3>1, <1>a DEF Registered, Leaving, Types0
      <4>2. open'[r] = ~closed /\ flag'[r] = closed
            /\ types'[r] = (IF closed THEN {} ELSE T)
        BY <3>1, <1>1, <1>a DEF Subscribe, Types0
      <4> QED
        BY <4>1, <4>2, <3>1, <1>1, <1>a DEF Subscribe, Types0
    <3>2. CASE r # nextID + 1
      <4>1. open'[r] = open[r] /\ flag'[r] = flag[r] /\ types'[r] = types[r]
            /\ \A t \in Types : r \in subs'[t] <=> r \in subs[t]
        BY <3>2, <1>1, <1>a DEF Subscribe, Types0
      <4>2. r <= nextID' => r <= nextID
        BY <3>2, <1>1, <1>a DEF Subscribe, Types0
      <4> QED
        BY <4>1, <4>2, <1>1, <1>a DEF Subscribe, Registered
    <3> QED
      BY <3>1, <3>2
  <2> QED
    BY <2>1, <2>2, <2>3, <2>4 DEF IInv, Registered
<1>2. CASE SubscribeAll
  <2>1. Types0'
    BY <1>2, <1>a DEF SubscribeAll, Types0, channel
  <2>2. Reading' /\ Delivered'
    BY <1>2, <1>a, WriterReads DEF SubscribeAll
  <2>3. Leaving'
    BY <1>2, <1>a DEF SubscribeAll, Leaving, Types0
  <2>4. ASSUME NEW r \in Subs
        PROVE  /\ \A t \in Types : r \in subs'[t] <=> open'[r] /\ t \in types'[r]
               /\ r \in all' <=> open'[r] /\ r \in every'
               /\ r \in every' => types'[r] = {}
               /\ ~open'[r] /\ r <= nextID' => flag'[r]
    <3>1. CASE r = nextID + 1
      <4>1. r \notin all /\ r \notin every /\ types[r] = {} /\ \A t \in Types : r \notin subs[t]
        BY <3>1, <1>a DEF Registered, Leaving, Types0
      <4>2. open'[r] = ~closed /\ flag'[r] = closed
        BY <3>1, <1>2, <1>a DEF SubscribeAll, Types0
      <4> QED
        BY <4>1, <4>2, <3>1, <1>2, <1>a DEF SubscribeAll, Types0
    <3>2. CASE r # nextID + 1
      <4>1. open'[r] = open[r] /\ flag'[r] = flag[r]
            /\ (r \in all' <=> r \in all) /\ (r \in every' <=> r \in every)
        BY <3>2, <1>2, <1>a DEF SubscribeAll, Types0
      <4>2. r <= nextID' => r <= nextID
        BY <3>2, <1>2, <1>a DEF SubscribeAll, Types0
      <4> QED
        BY <4>1, <4>2, <1>2, <1>a DEF SubscribeAll, Registered
    <3> QED
      BY <3>1, <3>2
  <2> QED
    BY <2>1, <2>2, <2>3, <2>4 DEF IInv, Registered
<1>3. ASSUME NEW p \in Procs, NEW t \in Types, Publish(p, t) PROVE IInv'
  <2> DEFINE r == [on |-> TRUE, n |-> sent + 1, type |-> t,
                   todo |-> subs[t] \cup all, sub |-> 0]
  <2>r. r \in Publishers /\ sent' \in 0..MaxEvents /\ sent + 1 \in 1..MaxEvents
    <3>1. sent' = sent + 1 /\ sent + 1 \in 1..MaxEvents
      BY <1>3, <1>a DEF Publish, Types0
    <3>2. subs[t] \cup all \in SUBSET Subs
      BY <1>a DEF Types0
    <3> QED
      BY <3>1, <3>2 DEF Publishers
  <2>u. /\ pub' \in [Procs -> Publishers]
        /\ pub'[p] = r
        /\ \A q \in Procs : q # p => pub'[q] = pub[q]
        /\ UNCHANGED <<registry, flag, open, channel, leaving, panicked>>
    <3> HIDE DEF r
    <3>1. pub' = [pub EXCEPT ![p] = r]
      BY <1>3 DEF Publish, r
    <3> QED
      BY <3>1, <2>r, <1>3, <1>a DEF Publish, Types0
  <2> USE DEF registry, channel
  <2>1. Types0'
    BY <1>a, <2>r, <2>u DEF Types0
  <2>2. Reading'
    BY <1>3, <1>a, <2>u DEF Publish, Reading, Types0
  <2>3. Leaving'
    BY <1>a, <2>u DEF Leaving
  <2>4. Registered'
    BY <1>a, <2>u DEF Registered
  <2>5. Delivered'
    <3> SUFFICES ASSUME NEW q \in Procs, pub'[q].on, NEW x \in subs'[pub'[q].type] \cup all'
                 PROVE  \/ x \in pub'[q].todo \cup {pub'[q].sub}
                        \/ flag'[x]
                        \/ Event(q)' \in Sent(x)' \cup dropped'[x]
      BY DEF Delivered
    <3>1. CASE q = p
      BY <3>1, <2>u
    <3>2. CASE q # p
      <4>1. Event(q)' = Event(q) /\ Sent(x)' = Sent(x)
        BY <3>2, <2>u DEF Event, Sent
      <4> QED
        BY <3>2, <4>1, <1>a, <2>u DEF Delivered
    <3> QED
      BY <3>1, <3>2
  <2> QED
    BY <2>1, <2>2, <2>3, <2>4, <2>5 DEF IInv
<1>4. ASSUME NEW p \in Procs, NEW s \in Subs, DirectLoad(p, s) PROVE IInv'
  <2> DEFINE T == pub[p].todo \ {s}
             x == IF flag[s] THEN 0 ELSE s
  <2>r. T \in SUBSET Subs /\ x \in 0..MaxSubs
    BY <1>a DEF Types0, Publishers
  <2>u. /\ pub' \in [Procs -> Publishers]
        /\ \A q \in Procs : q # p => pub'[q] = pub[q]
        /\ pub'[p].todo = T /\ pub'[p].sub = x
        /\ pub'[p].on = pub[p].on /\ pub'[p].n = pub[p].n
        /\ pub'[p].type = pub[p].type
    <3> HIDE DEF T, x
    <3>1. pub' = [pub EXCEPT ![p].todo = T, ![p].sub = x]
      BY <1>4 DEF DirectLoad, T, x
    <3> QED
      BY <3>1, <2>r, <1>a, PublisherUpdate DEF Types0
  <2>v. /\ UNCHANGED <<registry, flag, open, channel, sent, leaving, panicked>>
        /\ pub[p].on /\ pub[p].sub = 0 /\ s \in pub[p].todo
    BY <1>4 DEF DirectLoad, Turn
  <2> USE DEF registry, channel
  <2>1. Types0'
    BY <1>a, <2>u, <2>v DEF Types0
  <2>2. ASSUME NEW q \in Procs
        PROVE  /\ pub'[q].on => pub'[q].todo \cup ({pub'[q].sub} \ {0})
                                  \subseteq subs'[pub'[q].type] \cup all'
               /\ pub'[q].on => pub'[q].n \in 1..MaxEvents
               /\ ~pub'[q].on => pub'[q].todo = {} /\ pub'[q].sub = 0
    <3>1. CASE q = p
      BY <3>1, <1>a, <2>u, <2>v DEF Reading
    <3>2. CASE q # p
      BY <3>2, <1>a, <2>u, <2>v DEF Reading
    <3> QED
      BY <3>1, <3>2
  <2>3. Leaving'
    BY <1>a, <2>v DEF Leaving
  <2>4. Registered'
    BY <1>a, <2>v DEF Registered
  <2>5. Delivered'
    <3>1. Event(p)' = Event(p) /\ \A r \in Subs : Sent(r)' = Sent(r) /\ dropped'[r] = dropped[r]
      BY <2>u, <2>v DEF Event, Sent
    <3>2. \A q \in Procs : q # p => Event(q)' = Event(q)
      BY <2>u DEF Event
    <3> SUFFICES ASSUME NEW q \in Procs, pub'[q].on, NEW r \in subs'[pub'[q].type] \cup all'
                 PROVE  \/ r \in pub'[q].todo \cup {pub'[q].sub}
                        \/ flag'[r]
                        \/ Event(q)' \in Sent(r)' \cup dropped'[r]
      BY DEF Delivered
    <3>3. r \in Subs /\ pub[q].on /\ r \in subs[pub[q].type] \cup all
      BY <2>u, <2>v, <1>a DEF Types0, Publishers
    <3>4. \/ r \in pub[q].todo \cup {pub[q].sub}
          \/ flag[r]
          \/ Event(q) \in Sent(r) \cup dropped[r]
      BY <3>3, <1>a DEF Delivered
    <3>5. CASE q = p
      BY <3>1, <3>3, <3>4, <3>5, <2>u, <2>v
    <3>6. CASE q # p
      BY <3>1, <3>2, <3>3, <3>4, <3>6, <2>u, <2>v
    <3> QED
      BY <3>5, <3>6
  <2> QED
    BY <2>1, <2>2, <2>3, <2>4, <2>5 DEF IInv, Reading
<1>5. ASSUME NEW p \in Procs, DirectSend(p) PROVE IInv'
  <2>s. pub[p].on /\ pub[p].sub # 0 /\ pub[p].sub \in Subs
    BY <1>5, <1>a DEF DirectSend, Types0, Publishers
  <2>e. Event(p) \in Events
    <3>1. pub[p].n \in 1..MaxEvents
      BY <2>s, <1>a DEF Reading
    <3> QED
      BY <3>1 DEF Event, Events
  <2>1. PICK s \in Subs : s = pub[p].sub
    BY <2>s
  <2>2. PICK e \in Events : e = Event(p)
    BY <2>e
  <2>v. /\ UNCHANGED <<registry, flag, open, sent, leaving, panicked>>
        /\ \/ log' = [log EXCEPT ![s] = Append(@, e)] /\ dropped' = dropped
           \/ log' = log /\ dropped' = [dropped EXCEPT ![s] = @ \cup {e}]
    BY <1>5, <2>1, <2>2 DEF DirectSend
  <2>t. /\ pub' \in [Procs -> Publishers]
        /\ \A q \in Procs : q # p => pub'[q] = pub[q]
        /\ pub'[p].todo = pub[p].todo /\ pub'[p].sub = 0
        /\ pub'[p].on = pub[p].on /\ pub'[p].n = pub[p].n
        /\ pub'[p].type = pub[p].type
    <3>1. pub' = [pub EXCEPT ![p].todo = pub[p].todo, ![p].sub = 0]
      <4>1. pub[p] \in Publishers
        BY <1>a DEF Types0
      <4>2. [pub[p] EXCEPT !.sub = 0] = [pub[p] EXCEPT !.todo = pub[p].todo, !.sub = 0]
        BY <4>1 DEF Publishers
      <4> QED
        BY <4>2, <1>5 DEF DirectSend
    <3>2. pub[p].todo \in SUBSET Subs /\ 0 \in 0..MaxSubs
      BY <1>a DEF Types0, Publishers
    <3> QED
      BY <3>1, <3>2, <1>a, PublisherUpdate DEF Types0
  <2>l. /\ log' \in [Subs -> Seq(Events)]
        /\ dropped' \in [Subs -> SUBSET Events]
        /\ e \in Sent(s)' \cup dropped'[s]
        /\ \A r \in Subs : Sent(r) \cup dropped[r] \subseteq Sent(r)' \cup dropped'[r]
    <3>1. CASE log' = [log EXCEPT ![s] = Append(@, e)] /\ dropped' = dropped
      <4>1. /\ log' \in [Subs -> Seq(Events)]
            /\ e \in Sent(s)'
            /\ \A r \in Subs : Sent(r) \subseteq Sent(r)'
        BY <3>1, <1>a, AppendSent DEF Types0
      <4> QED
        BY <3>1, <4>1, <1>a DEF Types0
    <3>2. CASE log' = log /\ dropped' = [dropped EXCEPT ![s] = @ \cup {e}]
      <4>1. \A r \in Subs : Sent(r)' = Sent(r)
        BY <3>2 DEF Sent
      <4>2. dropped \in [Subs -> SUBSET Events] /\ log \in [Subs -> Seq(Events)]
        BY <1>a DEF Types0
      <4>3. /\ dropped' \in [Subs -> SUBSET Events]
            /\ e \in dropped'[s]
            /\ \A r \in Subs : dropped[r] \subseteq dropped'[r]
        BY <3>2, <4>2
      <4> QED
        BY <3>2, <4>1, <4>2, <4>3
    <3> QED
      BY <3>1, <3>2, <2>v
  <2> USE DEF registry
  <2>3. Types0'
    BY <1>a, <2>t, <2>l, <2>v DEF Types0
  <2>4. ASSUME NEW q \in Procs
        PROVE  /\ pub'[q].on => pub'[q].todo \cup ({pub'[q].sub} \ {0})
                                  \subseteq subs'[pub'[q].type] \cup all'
               /\ pub'[q].on => pub'[q].n \in 1..MaxEvents
               /\ ~pub'[q].on => pub'[q].todo = {} /\ pub'[q].sub = 0
    <3>1. CASE q = p
      BY <3>1, <1>a, <2>s, <2>t, <2>v DEF Reading
    <3>2. CASE q # p
      BY <3>2, <1>a, <2>t, <2>v DEF Reading
    <3> QED
      BY <3>1, <3>2
  <2>5. Leaving'
    BY <1>a, <2>v DEF Leaving
  <2>6. Registered'
    BY <1>a, <2>v DEF Registered
  <2>7. Delivered'
    <3>1. Event(p)' = e /\ \A q \in Procs : q # p => Event(q)' = Event(q)
      BY <2>t, <2>2 DEF Event
    <3> SUFFICES ASSUME NEW q \in Procs, pub'[q].on, NEW r \in subs'[pub'[q].type] \cup all'
                 PROVE  \/ r \in pub'[q].todo \cup {pub'[q].sub}
                        \/ flag'[r]
                        \/ Event(q)' \in Sent(r)' \cup dropped'[r]
      BY DEF Delivered
    <3>3. r \in Subs /\ pub[q].on /\ r \in subs[pub[q].type] \cup all
      BY <2>t, <2>v, <1>a DEF Types0, Publishers
    <3>4. \/ r \in pub[q].todo \cup {pub[q].sub}
          \/ flag[r]
          \/ Event(q) \in Sent(r) \cup dropped[r]
      BY <3>3, <1>a DEF Delivered
    <3>5. CASE q = p
      <4>1. r = s => Event(q)' \in Sent(r)' \cup dropped'[r]
        BY <3>1, <3>5, <2>l
      <4>2. r # s => r \in pub'[q].todo \/ flag[r] \/ e \in Sent(r) \cup dropped[r]
        BY <3>4, <3>5, <2>1, <2>2, <2>s, <2>t
      <4> QED
        BY <3>1, <3>3, <3>5, <4>1, <4>2, <2>v, <2>l
    <3>6. CASE q # p
      BY <3>1, <3>3, <3>4, <3>6, <2>t, <2>v, <2>l
    <3> QED
      BY <3>5, <3>6
  <2> QED
    BY <2>3, <2>4, <2>5, <2>6, <2>7 DEF IInv, Reading
<1>6. ASSUME NEW p \in Procs, PublishEnd(p) PROVE IInv'
  <2> USE <1>6, RestTyped DEF PublishEnd, registry, channel
  <2>1. Types0'
    BY <1>a DEF Types0
  <2>2. Reading'
    BY <1>a DEF Reading, Types0, NotPublishing
  <2>3. Leaving'
    BY <1>a DEF Leaving
  <2>4. Registered'
    BY <1>a DEF Registered
  <2>5. Delivered'
    BY <1>a DEF Delivered, Types0, Sent, Event, NotPublishing
  <2> QED
    BY <2>1, <2>2, <2>3, <2>4, <2>5 DEF IInv
<1>7. ASSUME NEW s \in Subs, Receive(s) PROVE IInv'
  BY <1>7, <1>a DEF Receive, registry, IInv, Types0, Reading, Leaving, Registered, Delivered,
                    Sent, Event
<1>8. ASSUME NEW s \in Subs, Unsubscribe(s) PROVE IInv'
  <2> USE <1>8 DEF Unsubscribe, registry, channel
  <2>1. Types0'
    BY <1>a DEF Types0
  <2>2. Reading'
    BY <1>a DEF Reading
  <2>3. Leaving'
    BY <1>a DEF Leaving, Types0
  <2>4. Registered'
    BY <1>a DEF Registered, Types0
  <2>5. Delivered'
    BY <1>a DEF Delivered, Types0, Sent, Event
  <2> QED
    BY <2>1, <2>2, <2>3, <2>4, <2>5 DEF IInv
<1>9. ASSUME NEW s \in Subs, UnsubscribeLocked(s) PROVE IInv'
  <2>1. Types0'
    BY <1>9, <1>a DEF UnsubscribeLocked, Types0, channel
  <2>2. Reading' /\ Delivered'
    BY <1>9, <1>a, WriterReads DEF UnsubscribeLocked
  <2>3. Leaving'
    BY <1>9, <1>a DEF UnsubscribeLocked, Leaving, Types0
  <2>4. Registered'
    BY <1>9, <1>a DEF UnsubscribeLocked, Registered, Leaving, Types0
  <2> QED
    BY <2>1, <2>2, <2>3, <2>4 DEF IInv
<1>10. CASE Close
  <2>1. Types0'
    BY <1>10, <1>a DEF Close, Types0, channel
  <2>2. Reading' /\ Delivered'
    BY <1>10, <1>a, WriterReads DEF Close
  <2>3. Leaving'
    BY <1>10, <1>a DEF Close, Leaving, Types0
  <2>4. Registered'
    BY <1>10, <1>a DEF Close, Registered, Unique, Leaving, Types0
  <2> QED
    BY <2>1, <2>2, <2>3, <2>4 DEF IInv
<1>11. CASE UNCHANGED vars
  BY <1>11, <1>a DEF vars, registry, channel, IInv, Types0, Reading, Leaving, Registered,
                     Delivered, Sent, Event
<1> QED
  BY <1>1, <1>2, <1>3, <1>4, <1>5, <1>6, <1>7, <1>8, <1>9, <1>10, <1>11 DEF Next

-----------------------------------------------------------------------------
(* The inductive invariant holds in every reachable state.                  *)
THEOREM Invariance == Spec => []IInv
BY InitIInv, NextIInv, PTL DEF Spec

(* No interleaving makes Publish send on a closed channel.                  *)
THEOREM SendSafety == Spec => []NoSendOnClosed
<1>1. IInv => NoSendOnClosed
  BY BusAssumption DEF IInv, Types0, Reading, Registered, NoSendOnClosed, Publishers, Subs
<1> QED
  BY <1>1, Invariance, PTL

(* Publish passes over no subscription that is registered for its event.    *)
THEOREM DeliverySafety == Spec => []Delivered
<1>1. IInv => Delivered
  BY DEF IInv
<1> QED
  BY <1>1, Invariance, PTL

-----------------------------------------------------------------------------
(* The channels hold events, no more than their capacity.                   *)
Buffers ==
  /\ panicked \in BOOLEAN
  /\ buf \in [Subs -> Seq(Events)]
  /\ \A s \in Subs : Len(buf[s]) <= Capacity

LEMMA BuffersStep == IInv /\ Buffers /\ [Next]_vars => Buffers'
<1> SUFFICES ASSUME IInv, Buffers, [Next]_vars PROVE Buffers'
  OBVIOUS
<1>a. Capacity \in Nat \ {0}
  BY BusAssumption
<1>1. ASSUME NEW p \in Procs, DirectSend(p) PROVE Buffers'
  <2>1. pub[p].on /\ pub[p].sub \in Subs /\ Event(p) \in Events
    <3>1. pub[p].on /\ pub[p].sub # 0
      BY <1>1 DEF DirectSend
    <3>2. pub[p].sub \in Subs /\ pub[p].n \in 1..MaxEvents
      BY <3>1, BusAssumption DEF IInv, Types0, Reading, Publishers, Subs
    <3> QED
      BY <3>1, <3>2 DEF Event, Events
  <2>2. PICK s \in Subs : s = pub[p].sub
    BY <2>1
  <2>3. PICK e \in Events : e = Event(p)
    BY <2>1
  <2>4. /\ panicked' = panicked
        /\ \/ buf' = buf
           \/ Len(buf[s]) < Capacity /\ buf' = [buf EXCEPT ![s] = Append(@, e)]
    BY <1>1, <2>2, <2>3 DEF DirectSend
  <2>5. CASE Len(buf[s]) < Capacity /\ buf' = [buf EXCEPT ![s] = Append(@, e)]
    <3>1. buf[s] \in Seq(Events) /\ Len(buf[s]) \in Nat
      BY LenProperties DEF Buffers
    <3>2. Append(buf[s], e) \in Seq(Events) /\ Len(Append(buf[s], e)) = Len(buf[s]) + 1
      BY <3>1, AppendProperties
    <3>3. /\ buf' \in [Subs -> Seq(Events)] /\ buf'[s] = Append(buf[s], e)
          /\ \A r \in Subs : r # s => buf'[r] = buf[r]
      BY <2>5, <3>2 DEF Buffers
    <3> QED
      BY <1>a, <2>4, <2>5, <3>1, <3>2, <3>3 DEF Buffers
  <2> QED
    BY <2>4, <2>5 DEF Buffers
<1>2. ASSUME NEW s \in Subs, Receive(s) PROVE Buffers'
  <2>1. buf[s] # <<>> /\ buf' = [buf EXCEPT ![s] = Tail(@)] /\ panicked' = panicked
    BY <1>2 DEF Receive
  <2>2. buf[s] \in Seq(Events) /\ Len(buf[s]) \in Nat /\ Len(buf[s]) <= Capacity
    BY LenProperties DEF Buffers
  <2>3. Tail(buf[s]) \in Seq(Events) /\ Len(Tail(buf[s])) = Len(buf[s]) - 1
    BY <2>1, <2>2, HeadTailProperties
  <2>4. /\ buf' \in [Subs -> Seq(Events)] /\ buf'[s] = Tail(buf[s])
        /\ \A r \in Subs : r # s => buf'[r] = buf[r]
    BY <2>1, <2>3 DEF Buffers
  <2> QED
    BY <1>a, <2>1, <2>2, <2>3, <2>4 DEF Buffers
<1>3. ASSUME UNCHANGED buf, panicked' \in BOOLEAN PROVE Buffers'
  BY <1>3 DEF Buffers
<1>4. ASSUME NEW s \in Subs, Unsubscribe(s) \/ UnsubscribeLocked(s) PROVE Buffers'
  BY <1>3, <1>4 DEF Unsubscribe, UnsubscribeLocked, channel, Buffers
<1>5. ASSUME NEW T \in SUBSET Types, Subscribe(T) PROVE Buffers'
  BY <1>3, <1>5 DEF Subscribe, channel, Buffers
<1>6. ASSUME NEW p \in Procs, NEW t \in Types, Publish(p, t) PROVE Buffers'
  BY <1>3, <1>6 DEF Publish, channel, Buffers
<1>7. ASSUME NEW p \in Procs, NEW s \in Subs, DirectLoad(p, s) PROVE Buffers'
  BY <1>3, <1>7 DEF DirectLoad, channel, Buffers
<1>8. ASSUME NEW p \in Procs, PublishEnd(p) PROVE Buffers'
  BY <1>3, <1>8 DEF PublishEnd, channel, Buffers
<1>9. CASE SubscribeAll \/ Close \/ UNCHANGED vars
  BY <1>3, <1>9 DEF SubscribeAll, Close, vars, channel, Buffers
<1> QED
  BY <1>1, <1>2, <1>4, <1>5, <1>6, <1>7, <1>8, <1>9 DEF Next

(* The maps of the bus hold the open subscriptions and no other, however    *)
(* many Unsubscribe, Subscribe, Publish and Close overlap, and no channel   *)
(* holds more than its capacity.                                            *)
THEOREM RegistrySafety == Spec => []RegistryExact
<1>1. Init => Buffers
  <2> SUFFICES ASSUME Init PROVE Buffers
    OBVIOUS
  <2>1. buf = [s \in Subs |-> <<>>] /\ panicked = FALSE
    BY DEF Init
  <2>2. buf \in [Subs -> Seq(Events)] /\ \A s \in Subs : Len(buf[s]) = 0
    BY <2>1, EmptySeq
  <2>3. \A s \in Subs : Len(buf[s]) <= Capacity
    BY <2>2, BusAssumption
  <2> QED
    BY <2>1, <2>2, <2>3 DEF Buffers
<1>2. IInv /\ Buffers => RegistryExact
  BY DEF IInv, Types0, Buffers, TypeOK, RegistryExact
<1> QED
  BY <1>1, <1>2, BuffersStep, Invariance, PTL DEF Spec

=============================================================================
