----------------------------- MODULE Lifecycle -----------------------------
(***************************************************************************)
(* The service orchestrator of lifecycle/lifecycle.go.                     *)
(*                                                                         *)
(* InitAll, StartAll and StopAll hold o.mu from beginning to end, so the   *)
(* one that is under way is phase, and position is its loop variable: the  *)
(* services see every state in between.  The sort of InitAll is a search   *)
(* step by step as well.  All, which only reads, is left out.              *)
(***************************************************************************)
EXTENDS Integers, FiniteSets, SequencesExt

CONSTANTS
  Names,     \* names of services
  Services,  \* service objects; several may have one name
  NameOf,    \* Service.Name()
  Graphs,    \* dependencies to check: functions from Services to sets of names
  NoService  \* "not registered"

LifecycleAssumption ==
  /\ NameOf \in [Services -> Names]
  /\ Graphs \subseteq [Services -> SUBSET Names]
  /\ NoService \notin Services

VARIABLES
  graph,     \* Dependencies() of each service
  services,  \* o.services
  search,    \* the local variables of sortDependencies
  ordered,   \* o.ordered
  running,   \* o.running
  started,   \* o.started
  phase,     \* the operation under way, or "idle"
  position,  \* the index its loop has reached
  up,        \* services whose Start has succeeded and Stop was not called
  result     \* how the last operation that failed did

vars == <<graph, services, search, ordered, running, started, phase, position, up, result>>

-----------------------------------------------------------------------------
(* The search of sortDependencies: the stack of the calls of visit, whose  *)
(* names are those with temp[name] set, the map visited and the slice.     *)
NewSearch == [stack |-> <<>>, visited |-> {}, sorted |-> <<>>]

Init ==
  /\ graph \in Graphs
  /\ services = [n \in Names |-> NoService]
  /\ search = NewSearch
  /\ ordered = <<>> /\ running = <<>>
  /\ started = FALSE
  /\ phase = "idle" /\ position = 0
  /\ up = {}
  /\ result = "ok"

(* Register: a service of the same name is replaced.                       *)
Register(s) ==
  /\ phase = "idle"
  /\ services[NameOf[s]] # s
  /\ services' = [services EXCEPT ![NameOf[s]] = s]
  /\ result' = "ok"
  /\ UNCHANGED <<graph, search, ordered, running, started, phase, position, up>>

-----------------------------------------------------------------------------
(* The names the innermost loop has yet to come to: the dependencies of    *)
(* the service being visited or, outside visit, what o.services ranges     *)
(* over, each in any order.                                                *)
ToVisit ==
  (IF search.stack = <<>> THEN {n \in Names : services[n] # NoService}
                          ELSE graph[services[Last(search.stack)]]) \ search.visited

InitAll ==
  /\ phase = "idle"
  /\ phase' = "sort"
  /\ search' = NewSearch
  /\ result' = "ok"
  /\ UNCHANGED <<graph, services, ordered, running, started, position, up>>

VisitEnter ==
  /\ phase = "sort"
  /\ \E n \in ToVisit \ ToSet(search.stack) :
       /\ services[n] # NoService
       /\ search' = [search EXCEPT !.stack = Append(@, n)]
  /\ UNCHANGED <<graph, services, ordered, running, started, phase, position, up, result>>

(* A cycle, or a dependency that is not registered: every visit returns.   *)
VisitFails ==
  /\ phase = "sort"
  /\ \E n \in ToVisit : n \in ToSet(search.stack) \/ services[n] = NoService
  /\ result' = "sort"
  /\ phase' = "idle" /\ search' = NewSearch
  /\ UNCHANGED <<graph, services, ordered, running, started, position, up>>

\* mutant: the service comes before its dependencies
VisitFirst ==
  /\ phase = "sort" /\ search.stack # <<>> /\ ToVisit = {}
  /\ search' = [stack |-> Front(search.stack),
                visited |-> search.visited \cup {Last(search.stack)},
                sorted |-> <<services[Last(search.stack)]>> \o search.sorted]
  /\ UNCHANGED <<graph, services, ordered, running, started, phase, position, up, result>>

(* The end of visit, when the dependencies are done.                       *)
VisitEnd ==
  /\ phase = "sort" /\ search.stack # <<>> /\ ToVisit = {}
  /\ search' = [stack |-> Front(search.stack),
                visited |-> search.visited \cup {Last(search.stack)},
                sorted |-> Append(search.sorted, services[Last(search.stack)])]
  /\ UNCHANGED <<graph, services, ordered, running, started, phase, position, up, result>>

SortDone ==
  /\ phase = "sort" /\ search.stack = <<>> /\ ToVisit = {}
  /\ ordered' = search.sorted
  /\ phase' = "init" /\ position' = 1
  /\ search' = NewSearch
  /\ UNCHANGED <<graph, services, running, started, up, result>>

(* One Init, or the return.                                                *)
InitOne ==
  /\ phase = "init"
  /\ \/ /\ position <= Len(ordered)
        /\ position' = position + 1
        /\ UNCHANGED <<phase, result>>
     \/ /\ position <= Len(ordered)
        /\ result' = "init"
        /\ phase' = "idle" /\ position' = 0
     \/ /\ position > Len(ordered)
        /\ phase' = "idle" /\ position' = 0
        /\ UNCHANGED result
  /\ UNCHANGED <<graph, services, search, ordered, running, started, up>>

-----------------------------------------------------------------------------
(* StartAll, unless the services have been started.                        *)
StartAll ==
  /\ phase = "idle" /\ ~started
  /\ phase' = "start" /\ position' = 1
  /\ result' = "ok"
  /\ UNCHANGED <<graph, services, search, ordered, running, started, up>>

StartOne ==
  /\ phase = "start" /\ position <= Len(ordered)
  /\ running' = Append(running, ordered[position])
  /\ up' = up \cup {ordered[position]}
  /\ position' = position + 1
  /\ UNCHANGED <<graph, services, search, ordered, started, phase, result>>

(* A Start fails: the ones before are stopped, in the loop of stopRunning. *)
StartFails ==
  /\ phase = "start" /\ position <= Len(ordered)
  /\ phase' = "rollback" /\ position' = Len(running)
  /\ result' = "start"
  /\ UNCHANGED <<graph, services, search, ordered, running, started, up>>

StartDone ==
  /\ phase = "start" /\ position > Len(ordered)
  /\ started' = TRUE
  /\ phase' = "idle" /\ position' = 0
  /\ UNCHANGED <<graph, services, search, ordered, running, up, result>>

StopAll ==
  /\ phase = "idle"
  /\ phase' = "stop" /\ position' = Len(running)
  /\ result' = "ok"
  /\ UNCHANGED <<graph, services, search, ordered, running, started, up>>

\* mutant: stopRunning goes through the slice from the front
StopForward ==
  /\ phase \in {"rollback", "stop"} /\ position > 0
  /\ up' = up \ {running[Len(running) + 1 - position]}
  /\ position' = position - 1
  /\ UNCHANGED <<graph, services, search, ordered, running, started, phase, result>>

(* One Stop of stopRunning, whatever it returns.                           *)
StopOne ==
  /\ phase \in {"rollback", "stop"} /\ position > 0
  /\ up' = up \ {running[position]}
  /\ position' = position - 1
  /\ UNCHANGED <<graph, services, search, ordered, running, started, phase, result>>

StopDone ==
  /\ phase \in {"rollback", "stop"} /\ position = 0
  /\ running' = <<>>
  /\ started' = (started /\ phase # "stop")
  /\ phase' = "idle"
  /\ UNCHANGED <<graph, services, search, ordered, position, up, result>>

Next ==
  \/ \E s \in Services : Register(s)
  \/ InitAll \/ VisitEnter \/ VisitFails \/ VisitEnd \/ SortDone \/ InitOne
  \/ StartAll \/ StartOne \/ StartFails \/ StartDone
  \/ StopAll \/ StopOne \/ StopDone

Spec == Init /\ [][Next]_vars

(* sortDependencies goes on.                                               *)
Fairness == WF_vars(VisitEnter \/ VisitFails \/ VisitEnd \/ SortDone)

-----------------------------------------------------------------------------
(* Every variable has its type.                                             *)
TypeOK ==
  /\ services \in [Names -> Services \cup {NoService}]
  /\ ordered \in Seq(Services) /\ running \in Seq(Services)
  /\ started \in BOOLEAN
  /\ phase \in {"idle", "sort", "init", "start", "rollback", "stop"}
  /\ position \in Nat
  /\ up \subseteq Services
  /\ result \in {"ok", "sort", "init", "start"}

Registered == {services[n] : n \in Names} \ {NoService}

(* An order of the registered services in which each comes after the ones   *)
(* it depends on.                                                           *)
IsTopological(seq) ==
  /\ seq \in Seq(Registered)
  /\ Len(seq) = Cardinality(Registered)
  /\ ToSet(seq) = Registered
  /\ \A i \in DOMAIN seq : \A n \in graph[seq[i]] :
       \E j \in 1..(i - 1) : NameOf[seq[j]] = n

(* sortDependencies finds such an order whenever there is one, for every    *)
(* order in which Go ranges over the map, and fails only for a cycle or a   *)
(* dependency that is not registered (lifecycle.go:135-182).                *)
SortExact ==
  /\ phase = "init" => IsTopological(ordered)
  /\ result = "sort" =>
       \A seq \in [1..Cardinality(Registered) -> Registered] : ~IsTopological(seq)

(* The search ends, in a graph with cycles too (lifecycle.go:142-144).      *)
SortEnds == phase = "sort" ~> phase # "sort"

(* A service is never up without the services it depends on: not while the  *)
(* others start, not in a rollback, not when services were registered or    *)
(* replaced, or InitAll failed, since the last start (lifecycle.go:124-133).*)
DependenciesUp ==
  \A s \in up : \A n \in graph[s] : \E d \in up : NameOf[d] = n

(* Between operations the services that are up are those in o.running, each *)
(* once, so that every Start that succeeded is followed by one Stop, and    *)
(* none is up after a StartAll that failed (lifecycle.go:90-101); and at all *)
(* times their dependencies are up as well.                                 *)
RunningExact ==
  /\ TypeOK /\ DependenciesUp
  /\ phase = "idle" =>
    /\ ToSet(running) = up
    /\ Len(running) = Cardinality(up)
    /\ ~started => up = {}

=============================================================================
