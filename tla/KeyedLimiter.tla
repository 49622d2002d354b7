---------------------------- MODULE KeyedLimiter ----------------------------
(***************************************************************************)
(* The keyed rate limiter of sync/limiter/sekisho.go.                      *)
(*                                                                         *)
(* Allow and Wait fetch the key's rate.Limiter under kl.mu and use it      *)
(* after the unlock, while the sweeper drops idle entries: a goroutine may *)
(* use a limiter that is no longer the key's.  Time is a clock whose unit  *)
(* is the time in which rate.Limiter earns one token.                      *)
(***************************************************************************)
EXTENDS Integers, Sequences

CONSTANTS
  Procs,     \* goroutines that use the limiter
  Keys,
  B,         \* kl.b, the burst
  TTL,       \* kl.ttl
  MaxWait,   \* the longest wait that the deadlines of the contexts allow
  MaxStall,  \* bound: how long a goroutine takes from getLimiter to its use
  MaxTime    \* bound on the clock

(* A burst of 0 lets nothing through: rate.Limiter refuses it.             *)
KeyedAssumption ==
  /\ B \in Nat \ {0} /\ TTL \in Nat
  /\ MaxWait \in Nat /\ MaxStall \in Nat /\ MaxTime \in Nat

(* An entry lives long enough for its bucket to be full when it is swept,  *)
(* although MaxWait tokens may have been reserved in advance.              *)
LongEnough == TTL >= MaxStall + B + MaxWait

VARIABLES
  now,
  buckets,    \* the rate.Limiters made for each key, in that order
  limiters,   \* kl.limiters: the index of the key's limiter and its lastTouch
  closed,     \* kl.closed, and closeCh
  sweeper,    \* does sweepLoop run?
  call,       \* what each goroutine is at
  events      \* history: how many events each key was granted up to each time

vars == <<now, buckets, limiters, closed, sweeper, call, events>>

NoEntry == [n |-> 0, lastTouch |-> 0]
Idle == [at |-> "idle"]
Horizon == 0..(MaxTime + MaxWait)

Init ==
  /\ now = 0
  /\ buckets = [k \in Keys |-> <<>>]
  /\ limiters = [k \in Keys |-> NoEntry]
  /\ closed = FALSE
  /\ sweeper = TRUE
  /\ call = [p \in Procs |-> Idle]
  /\ events = [k \in Keys |-> [t \in Horizon |-> 0]]

Tick ==
  /\ now < MaxTime
  /\ \A p \in Procs : call[p].at = "got" => now - call[p].since < MaxStall
  /\ now' = now + 1
  /\ UNCHANGED <<buckets, limiters, closed, sweeper, call, events>>

\* mutant: only a new entry is touched
TouchedNew(k, n) == IF limiters[k] = NoEntry THEN now ELSE limiters[k].lastTouch

Touched(k, n) == now

(* getLimiter; after Close it fails and changes nothing.                   *)
GetLimiter(p, k) ==
  LET n == IF limiters[k] = NoEntry THEN Len(buckets[k]) + 1 ELSE limiters[k].n IN
  /\ call[p] = Idle /\ ~closed
  /\ buckets' = IF limiters[k] # NoEntry THEN buckets
                ELSE [buckets EXCEPT ![k] =
                        Append(@, [tokens |-> B, last |-> now, lastEvent |-> 0])]
  /\ limiters' = [limiters EXCEPT ![k] = [n |-> n, lastTouch |-> Touched(k, n)]]
  /\ call' = [call EXCEPT ![p] = [at |-> "got", k |-> k, n |-> n, since |-> now]]
  /\ UNCHANGED <<now, closed, sweeper, events>>

(* rate.Limiter: the tokens of a bucket at this time.                      *)
Tokens(b) == LET full == b.tokens + (now - b.last) IN IF full < B THEN full ELSE B

(* d events more at time t.                                                *)
Counted(f, t, d) == [u \in Horizon |-> IF u >= t THEN f[u] + d ELSE f[u]]

(* rate.Limiter takes one token, perhaps in advance, for an event at t.    *)
TakeToken(c, t) ==
  /\ buckets' = [buckets EXCEPT ![c.k][c.n] =
       [tokens |-> Tokens(@) - 1, last |-> now, lastEvent |-> t]]
  /\ events' = [events EXCEPT ![c.k] = Counted(@, t, 1)]

(* The rest of Allow.                                                      *)
Allow(p) ==
  /\ call[p].at = "got"
  /\ IF Tokens(buckets[call[p].k][call[p].n]) >= 1
     THEN TakeToken(call[p], now)
     ELSE UNCHANGED <<buckets, events>>
  /\ call' = [call EXCEPT ![p] = Idle]
  /\ UNCHANGED <<now, limiters, closed, sweeper>>

(* The rest of Wait, until it blocks; it fails at once when its context is *)
(* already cancelled, or would be before the token is due.                 *)
Wait(p) ==
  LET missing == 1 - Tokens(buckets[call[p].k][call[p].n])
      t == IF missing > 0 THEN now + missing ELSE now
  IN /\ call[p].at = "got"
     /\ \/ /\ missing <= MaxWait
           /\ TakeToken(call[p], t)
           /\ call' = [call EXCEPT ![p] = [at |-> "waiting", k |-> @.k, n |-> @.n, t |-> t]]
        \/ /\ call' = [call EXCEPT ![p] = Idle]
           /\ UNCHANGED <<buckets, events>>
     /\ UNCHANGED <<now, limiters, closed, sweeper>>

WaitDone(p) ==
  /\ call[p].at = "waiting" /\ now >= call[p].t
  /\ call' = [call EXCEPT ![p] = Idle]
  /\ UNCHANGED <<now, buckets, limiters, closed, sweeper, events>>

(* The context of a Wait is cancelled: the token goes back, unless a later *)
(* one was reserved since.                                                 *)
WaitCancelled(p) ==
  LET c == call[p] IN
  /\ c.at = "waiting" /\ now < c.t
  /\ buckets' = IF buckets[c.k][c.n].lastEvent = c.t
                THEN [buckets EXCEPT ![c.k][c.n] =
                        [tokens |-> IF Tokens(@) + 1 < B THEN Tokens(@) + 1 ELSE B,
                         last |-> now, lastEvent |-> c.t - 1]]
                ELSE buckets
  /\ events' = [events EXCEPT ![c.k] = Counted(@, c.t, -1)]
  /\ call' = [call EXCEPT ![p] = Idle]
  /\ UNCHANGED <<now, limiters, closed, sweeper>>

(* The code compares real times, and sweeps at any instant past the TTL.   *)
(* The first of them have the time TTL on this clock of whole units.       *)
Expired(k) == now - limiters[k].lastTouch >= TTL

(* sweep, whenever the ticker of sweepLoop fires.                          *)
Sweep ==
  /\ sweeper
  /\ limiters' = [k \in Keys |-> IF Expired(k) THEN NoEntry ELSE limiters[k]]
  /\ UNCHANGED <<now, buckets, closed, sweeper, call, events>>

(* Close; a second one changes nothing and does not wait for the first.    *)
Close(p) ==
  /\ call[p] = Idle /\ ~closed
  /\ closed' = TRUE
  /\ call' = [call EXCEPT ![p] = [at |-> "closing"]]
  /\ UNCHANGED <<now, buckets, limiters, sweeper, events>>

SweepLoopEnds ==
  /\ sweeper /\ closed
  /\ sweeper' = FALSE
  /\ UNCHANGED <<now, buckets, limiters, closed, call, events>>

CloseReturns(p) ==
  /\ call[p].at = "closing" /\ ~sweeper
  /\ call' = [call EXCEPT ![p] = Idle]
  /\ UNCHANGED <<now, buckets, limiters, closed, sweeper, events>>

Next ==
  \/ Tick \/ Sweep \/ SweepLoopEnds
  \/ \E p \in Procs :
       \/ \E k \in Keys : GetLimiter(p, k)
       \/ Allow(p) \/ Wait(p) \/ WaitDone(p) \/ WaitCancelled(p)
       \/ Close(p) \/ CloseReturns(p)

Spec == Init /\ [][Next]_vars

-----------------------------------------------------------------------------
(* What a key was granted before time t, and from s to t.                  *)
Earlier(k, t) == IF t = 0 THEN 0 ELSE events[k][t - 1]
Granted(k, s, t) == events[k][t] - Earlier(k, s)

TypeOK ==
  /\ now \in 0..MaxTime
  /\ \A k \in Keys : limiters[k].n \in 0..Len(buckets[k]) /\ limiters[k].lastTouch <= now
  /\ closed \in BOOLEAN /\ sweeper \in BOOLEAN
  /\ events \in [Keys -> [Horizon -> Nat]]

(* The rate of a key: in no stretch of time more events than the burst and  *)
(* what is earned meanwhile, although the sweeper drops the limiter while   *)
(* goroutines still hold it or wait in it (sekisho.go:78, 113-119).  This   *)
(* needs a TTL in which every bucket fills up again.                        *)
RateKept ==
  /\ TypeOK
  /\ LongEnough =>
       \A k \in Keys : \A s, t \in Horizon :
         s <= t => Granted(k, s, t) <= B + (t - s)
=============================================================================
