------------------------------- MODULE Batto -------------------------------
(***************************************************************************)
(* Duplicate call suppression: the Group of batto/batto.go.                *)
(*                                                                         *)
(* Both mutexes are explicit, since the code holds one while it waits for  *)
(* the other: Do and run take g.mu and then c.mu, wait takes c.mu and then *)
(* g.mu.  A caller uses one channel at a time, so a channel is named by    *)
(* its caller; the worker of a call is named by the call.                  *)
(***************************************************************************)
EXTENDS Integers, FiniteSets

CONSTANTS
  Procs,   \* goroutines that call Do
  Keys,    \* keys
  Calls,   \* names for call objects
  NoCall,  \* "not in g.m", "in no call"
  Free     \* "the mutex is unlocked"

ASSUME BattoAssumption ==
  /\ Keys # {}
  /\ NoCall \notin Calls
  /\ Procs \cap Calls = {}
  /\ Free \notin Procs \cup Calls

VARIABLES
  gmu,   \* holder of g.mu
  m,     \* g.m
  call,  \* the call objects
  cmu,   \* holder of each c.mu
  work,  \* where the worker of each call is
  pc,    \* where each caller is
  cur,   \* the call each caller is in
  box,   \* the result in each caller's channel
  stale  \* history: keys whose newer call was deleted by an older one

vars == <<gmu, m, call, cmu, work, pc, cur, box, stale>>

-----------------------------------------------------------------------------
(* cancelled stands for the state of workerCtx.  The initiator is a        *)
(* channel: once its owner has left, no waiter is the initiator.           *)
NewCall(p, k) ==
  [key |-> k, waiters |-> {p}, initiator |-> p, done |-> FALSE,
   panicked |-> FALSE, cancelled |-> FALSE]

(* The content of a name that is not in use.                               *)
NoRecord ==
  [key |-> CHOOSE k \in Keys : TRUE, waiters |-> {}, initiator |-> NoCall,
   done |-> FALSE, panicked |-> FALSE, cancelled |-> FALSE]

Init ==
  /\ gmu = Free
  /\ m = [k \in Keys |-> NoCall]
  /\ call = [c \in Calls |-> NoRecord]
  /\ cmu = [c \in Calls |-> Free]
  /\ work = [c \in Calls |-> "none"]
  /\ pc = [p \in Procs |-> "idle"]
  /\ cur = [p \in Procs |-> NoCall]
  /\ box = [p \in Procs |-> "empty"]
  /\ stale = {}

(* A call object nobody refers to any more.                                *)
Garbage(c) ==
  /\ work[c] = "none"
  /\ \A p \in Procs : cur[p] # c

\* mutant: the lookup does not decide, every caller starts a worker
StartAnyway(p, k) ==
  /\ pc[p] = "idle"
  /\ gmu = Free
  /\ \E c \in Calls :
       /\ Garbage(c)
       /\ call' = [call EXCEPT ![c] = NewCall(p, k)]
       /\ m' = [m EXCEPT ![k] = c]
       /\ work' = [work EXCEPT ![c] = "running"]
       /\ cur' = [cur EXCEPT ![p] = c]
  /\ pc' = [pc EXCEPT ![p] = "waiting"]
  /\ UNCHANGED <<gmu, cmu, box, stale>>

(* Do, when the key is not in flight: a call is made, and its worker       *)
(* started, before g.mu is released.                                       *)
DoStart(p, k) ==
  /\ pc[p] = "idle"
  /\ gmu = Free
  /\ m[k] = NoCall
  /\ \E c \in Calls :
       /\ Garbage(c)
       /\ call' = [call EXCEPT ![c] = NewCall(p, k)]
       /\ m' = [m EXCEPT ![k] = c]
       /\ work' = [work EXCEPT ![c] = "running"]
       /\ cur' = [cur EXCEPT ![p] = c]
  /\ pc' = [pc EXCEPT ![p] = "waiting"]
  /\ UNCHANGED <<gmu, cmu, box, stale>>

(* Do, when the key is in flight: g.mu is kept while c.mu is awaited.      *)
DoFind(p, k) ==
  /\ pc[p] = "idle"
  /\ gmu = Free
  /\ m[k] # NoCall
  /\ gmu' = p
  /\ cur' = [cur EXCEPT ![p] = m[k]]
  /\ pc' = [pc EXCEPT ![p] = "joining"]
  /\ UNCHANGED <<m, call, cmu, work, box, stale>>

(* The rest of Do.  A done call makes it return ErrWorkerPanicked, or fall *)
(* through and unlock c.mu twice, which is fatal.                          *)
DoJoin(p) ==
  LET c == cur[p] IN
  /\ pc[p] = "joining"
  /\ cmu[c] = Free
  /\ gmu' = Free
  /\ pc' = [pc EXCEPT ![p] =
       IF ~call[c].done THEN "waiting"
       ELSE IF call[c].panicked THEN "idle" ELSE "fatal"]
  /\ call' = IF call[c].done THEN call
             ELSE [call EXCEPT ![c].waiters = @ \cup {p}]
  /\ cur' = IF call[c].done THEN [cur EXCEPT ![p] = NoCall] ELSE cur
  /\ UNCHANGED <<m, cmu, work, box, stale>>

(* wait receives its result, from the select or after the call was found   *)
(* done, and Do returns it or panics with it.                              *)
Receive(p) ==
  /\ pc[p] \in {"waiting", "draining"}
  /\ box[p] # "empty"
  /\ box' = [box EXCEPT ![p] = "empty"]
  /\ pc' = [pc EXCEPT ![p] = "idle"]
  /\ cur' = [cur EXCEPT ![p] = NoCall]
  /\ UNCHANGED <<gmu, m, call, cmu, work, stale>>

(* The select takes "case <-ctx.Done()".                                   *)
CtxDone(p) ==
  /\ pc[p] = "waiting"
  /\ pc' = [pc EXCEPT ![p] = "cancelling"]
  /\ UNCHANGED <<gmu, m, call, cmu, work, cur, box, stale>>

(* c.mu.Lock() of wait, and the test of c.done.                            *)
WaitLock(p) ==
  LET c == cur[p] IN
  /\ pc[p] = "cancelling"
  /\ cmu[c] = Free
  /\ \/ /\ call[c].done
        /\ pc' = [pc EXCEPT ![p] = "draining"]
        /\ UNCHANGED cmu
     \/ /\ ~call[c].done
        /\ pc' = [pc EXCEPT ![p] = "leaving"]
        /\ cmu' = [cmu EXCEPT ![c] = p]
  /\ UNCHANGED <<gmu, m, call, work, cur, box, stale>>

(* delete(c.waiters, ch).                                                  *)
Without(c, p) ==
  [call[c] EXCEPT !.waiters = @ \ {p},
                  !.initiator = IF @ = p THEN NoCall ELSE @]

(* delete(g.m, key) on behalf of call c, whichever call is there.          *)
DeleteKey(c) ==
  LET k == call[c].key IN
  /\ m' = [m EXCEPT ![k] = NoCall]
  /\ stale' = IF m[k] \in {c, NoCall} THEN stale ELSE stale \cup {k}

\* mutant: an abandoned call stays in g.m
LeaveMapped(p) ==
  LET c == cur[p] IN
  /\ pc[p] = "leaving"
  /\ gmu = Free
  /\ call' = [call EXCEPT ![c] =
       [Without(c, p) EXCEPT !.cancelled = (call[c].waiters = {p})]]
  /\ cmu' = [cmu EXCEPT ![c] = Free]
  /\ pc' = [pc EXCEPT ![p] = "idle"]
  /\ cur' = [cur EXCEPT ![p] = NoCall]
  /\ UNCHANGED <<gmu, m, work, box, stale>>

(* The rest of wait, with c.mu held: the last one to leave cancels the     *)
(* worker and deletes the key.                                             *)
WaitLeave(p) ==
  LET c == cur[p] IN
  /\ pc[p] = "leaving"
  /\ gmu = Free
  /\ IF call[c].waiters = {p}
     THEN /\ call' = [call EXCEPT ![c] = [Without(c, p) EXCEPT !.cancelled = TRUE]]
          /\ DeleteKey(c)
     ELSE /\ call' = [call EXCEPT ![c] = Without(c, p)]
          /\ UNCHANGED <<m, stale>>
  /\ cmu' = [cmu EXCEPT ![c] = Free]
  /\ pc' = [pc EXCEPT ![p] = "idle"]
  /\ cur' = [cur EXCEPT ![p] = NoCall]
  /\ UNCHANGED <<gmu, work, box>>

(* fn returns or panics; run then waits for g.mu.                          *)
WorkEnd(c) ==
  /\ work[c] = "running"
  /\ work' \in {[work EXCEPT ![c] = "returned"], [work EXCEPT ![c] = "panicked"]}
  /\ UNCHANGED <<gmu, m, call, cmu, pc, cur, box, stale>>

RunLock(c) ==
  /\ work[c] \in {"returned", "panicked"}
  /\ gmu = Free
  /\ gmu' = c
  /\ UNCHANGED <<m, call, cmu, work, pc, cur, box, stale>>

(* What run sends to a waiter.                                             *)
Outcome(c, p) ==
  CASE work[c] = "returned" -> "result"
    [] work[c] = "panicked" /\ p = call[c].initiator -> "panic"
    [] OTHER -> "ErrWorkerPanicked"

\* mutant: only the initiator is told
FinishOne(c) ==
  /\ gmu = c
  /\ cmu[c] = Free
  /\ call' = [call EXCEPT ![c].done = TRUE, ![c].panicked = (work[c] = "panicked")]
  /\ DeleteKey(c)
  /\ box' = [p \in Procs |-> IF p \in call[c].waiters /\ p = call[c].initiator
                             THEN Outcome(c, p) ELSE box[p]]
  /\ gmu' = Free
  /\ work' = [work EXCEPT ![c] = "none"]
  /\ UNCHANGED <<cmu, pc, cur>>

(* With both mutexes, run marks the call done, deletes the key and sends   *)
(* to every waiter; in either of its two copies.                           *)
RunFinish(c) ==
  /\ gmu = c
  /\ cmu[c] = Free
  /\ call' = [call EXCEPT ![c].done = TRUE, ![c].panicked = (work[c] = "panicked")]
  /\ DeleteKey(c)
  /\ box' = [p \in Procs |-> IF p \in call[c].waiters THEN Outcome(c, p) ELSE box[p]]
  /\ gmu' = Free
  /\ work' = [work EXCEPT ![c] = "none"]
  /\ UNCHANGED <<cmu, pc, cur>>

Next ==
  \/ \E p \in Procs :
       \/ \E k \in Keys : DoStart(p, k) \/ DoFind(p, k)
       \/ DoJoin(p)
       \/ Receive(p)
       \/ CtxDone(p)
       \/ WaitLock(p)
       \/ WaitLeave(p)
  \/ \E c \in Calls : WorkEnd(c) \/ RunLock(c) \/ RunFinish(c)

Spec == Init /\ [][Next]_vars

(* Every goroutine inside the package keeps going, sync.Mutex is           *)
(* starvation-free, and worker functions return.                           *)
Fairness ==
  /\ \A p \in Procs :
       /\ WF_vars(Receive(p))
       /\ SF_vars(DoJoin(p))
       /\ SF_vars(WaitLock(p))
       /\ SF_vars(WaitLeave(p))
  /\ \A c \in Calls :
       /\ WF_vars(WorkEnd(c))
       /\ SF_vars(RunLock(c))
       /\ SF_vars(RunFinish(c))

FairSpec == Spec /\ Fairness

-----------------------------------------------------------------------------
InCall == {"waiting", "cancelling", "leaving", "draining"}

(* Every variable has its type; nobody unlocks c.mu twice.                 *)
TypeOK ==
  /\ gmu \in Procs \cup Calls \cup {Free}
  /\ m \in [Keys -> Calls \cup {NoCall}]
  /\ call \in [Calls -> [key : Keys, waiters : SUBSET Procs, initiator : Procs \cup {NoCall},
                         done : BOOLEAN, panicked : BOOLEAN,
                         cancelled : BOOLEAN]]
  /\ cmu \in [Calls -> Procs \cup {Free}]
  /\ work \in [Calls -> {"none", "running", "returned", "panicked"}]
  /\ pc \in [Procs -> InCall \cup {"idle", "joining"}]
  /\ cur \in [Procs -> Calls \cup {NoCall}]
  /\ box \in [Procs -> {"empty", "result", "panic", "ErrWorkerPanicked"}]
  /\ stale \subseteq Keys

(* A caller inside wait is registered with a call that is still open and    *)
(* has an empty channel, or its call is done and its result is there: the   *)
(* receive after c.done (batto.go:124) never blocks and no second result is *)
(* ever sent into the one-element channel.  The types are part of it.       *)
ResultReady ==
  /\ TypeOK
  /\ \A p \in Procs : pc[p] \in InCall =>
      IF call[cur[p]].done THEN box[p] # "empty"
      ELSE p \in call[cur[p]].waiters /\ box[p] = "empty" /\ work[cur[p]] # "none"

(* "If all concurrent waiting contexts are cancelled, the active worker's   *)
(* context is cancelled immediately" (batto.go:55-56), and not before: no   *)
(* caller ever waits for a cancelled worker.                                *)
CancelledAlone ==
  \A c \in Calls : call[c].cancelled =>
    call[c].waiters = {} /\ \A p \in Procs : cur[p] = c => pc[p] \notin InCall

(* A call that callers can still find is neither done nor cancelled, so     *)
(* nobody joins a call whose worker was told to stop: the branch for a done *)
(* call in Do (batto.go:92) is never taken.                                 *)
MapHoldsLive ==
  /\ CancelledAlone
  /\ \A k \in Keys :
      m[k] # NoCall =>
        /\ call[m[k]].key = k
        /\ ~call[m[k]].done /\ ~call[m[k]].cancelled
        /\ call[m[k]].waiters # {}

Live(k) ==
  {c \in Calls : work[c] # "none" /\ call[c].key = k /\ ~call[c].cancelled}

(* "duplicate concurrent requests with the same key execute only once"      *)
(* (doc.go:8-9): apart from abandoned workers a key has one worker, until   *)
(* an abandoned worker that ends late deletes the call that replaced its    *)
(* own (batto.go:162, 186).                                                 *)
OneWorker == \A k \in Keys \ stale : Cardinality(Live(k)) <= 1

(* "If the context passed to Do is cancelled while waiting, the caller      *)
(* returns immediately with the context error" (batto.go:54-55).            *)
CancelReturns == \A p \in Procs : pc[p] = "cancelling" ~> pc[p] = "idle"

-----------------------------------------------------------------------------
(* The Group is a SharedCall for each of its keys.  A caller shares a call  *)
(* once it is registered there, and a finished call is never found.         *)
Sharing(k) ==
  [p \in Procs |-> IF pc[p] \in InCall /\ call[cur[p]].key = k THEN cur[p]
                   ELSE NoCall]

Answered(k) ==
  {p \in Procs : pc[p] \in InCall /\ call[cur[p]].key = k /\ box[p] # "empty"}

Abandoned(k) ==
  {c \in Calls : work[c] # "none" /\ call[c].key = k /\ call[c].cancelled}

Shared(k) == INSTANCE SharedCall WITH
  Callers <- Procs, flight <- m[k], over <- FALSE,
  sharing <- Sharing(k), answered <- Answered(k), lost <- Abandoned(k)

(* Who is registered when a worker ends gets the answer of that worker,     *)
(* whatever mutexes and channels are between them, and a worker is started  *)
(* only for a free key (batto.go:63-194).                                   *)
SharesCall ==
  /\ \A k \in Keys : Shared(k)!Init
  /\ [][\A k \in Keys : [Shared(k)!Next]_(Shared(k)!callVars)]_vars
=============================================================================
