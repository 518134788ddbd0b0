------------------------------ MODULE TcEngine ------------------------------
(***************************************************************************)
(* The traffic control engine (meep-tc-engine).  For the active scenario   *)
(* it collects the addresses of the pods and services that Kubernetes      *)
(* deploys, creates a filter and a shaping rule for every flow between two *)
(* pods, and turns the rules of the mobility group manager into load       *)
(* balancing rules.                                                        *)
(*                                                                         *)
(* Two kinds of goroutines: the message queue listener, which holds the    *)
(* mutex while it handles a message, and the pollers, which read the       *)
(* engine's state, wait for Kubernetes and store what it answers without   *)
(* the mutex, and take it only for the step to the ready state.  A poller  *)
(* is started by an activation.  It is cut at its calls of Kubernetes and  *)
(* of Lock, and for each address that it stores, between what it looks up  *)
(* and the map, the element and the counter that it writes.  (Go's         *)
(* detector of concurrent map access may also end the process then.)       *)
(***************************************************************************)
EXTENDS Naturals, Sequences, FiniteSets, SequencesExt

CONSTANTS
  Pods, Svcs,   \* names of processes, and of services
  Docs,         \* active scenarios: [name, pods, svcs]
  NoDoc, NoSvc, Nil,
  Pollers,
  MayLinger,    \* pods of a terminated deployment go away in their own time
  MaxEvents     \* bound: changes of the scenario, and of the rules

ASSUME TcAssumption ==
  /\ \A d \in Docs : d.pods \subseteq Pods /\ d.svcs \subseteq Svcs /\ d.name # NoDoc
  /\ IsFiniteSet(Pods) /\ IsFiniteSet(Svcs)
  /\ NoDoc \notin Docs /\ {NoSvc, Nil} \cap Svcs = {} /\ NoSvc # Nil
  /\ Pods \cap Svcs = {} /\ MayLinger \in BOOLEAN

Kinds == {"pod", "svc"}
Named(kind) == IF kind = "pod" THEN Pods ELSE Svcs

VARIABLES
  active,      \* the active scenario in Redis
  past,        \* the scenarios that are or were active
  deployment,  \* the number of the deployment that is active, or was last
  deployed,    \* the names it consists of
  k8s,         \* resources that have an address: [name, scenario, address]
  queue,       \* messages for the engine: "SCENARIO", "LB"
  rules,       \* rules of the mobility group manager: pod -> service, or none
  tcEngineState, scenarioName,
  ipMap,       \* podIPMap and svcIPMap: name -> address, 0 if unknown
  countReq, count, \* of pods and of services
  netElemMap,  \* pod -> [ip, next, filters: source -> unique number]
  svcInfoMap,  \* the services known
  podInfoMap,  \* pod -> the service instance it is mapped to
  netRules,    \* in Redis: <<pod, unique number>> -> [src, ip]
  lbRules,     \* in Redis: pod -> service
  netCharStarted,
  poller,      \* Pollers -> [at, seen: left of a list, item: at hand, read: a counter]
  crashed,     \* a goroutine dereferenced nil
  late,        \* history: ready was declared on a check that held no more
  overlapped,  \* history: the scenario was stopped under a poller at work
  crowded,     \* history: a poller at work met another one, or new elements
  failed,      \* history: an error ended a poller since the last stop
  skipped,     \* history: one deployment followed another without a stop
  served,      \* history: the deployment whose scenario was processed
  events

world   == <<active, past, deployment, deployed, k8s, rules, events>>
info    == <<scenarioName, ipMap, countReq, count, svcInfoMap, podInfoMap, served, skipped,
             overlapped, crowded, failed>>
derived == <<tcEngineState, netElemMap, netRules, lbRules, netCharStarted, crashed, late>>
vars    == <<world, queue, info, derived, poller>>

Nothing == <<>>
NoItem  == [name |-> "none", scenario |-> "none", address |-> 0]
Asleep  == [at |-> "none", seen |-> {}, item |-> NoItem, read |-> 0]
ZeroOfEach == [k \in Kinds |-> 0]

Init ==
  /\ active = NoDoc /\ past = {} /\ deployment = 0 /\ deployed = {} /\ k8s = {} /\ queue = <<>>
  /\ rules = Nothing
  /\ tcEngineState = "Idle" /\ scenarioName = NoDoc
  /\ ipMap = Nothing /\ countReq = ZeroOfEach /\ count = ZeroOfEach
  /\ netElemMap = Nothing /\ svcInfoMap = {} /\ podInfoMap = Nothing
  /\ netRules = Nothing /\ lbRules = Nothing /\ netCharStarted = FALSE
  /\ poller = [q \in Pollers |-> Asleep]
  /\ crashed = FALSE /\ late = FALSE /\ skipped = FALSE /\ overlapped = FALSE /\ crowded = FALSE
  /\ failed = FALSE /\ served = 0
  /\ events = 0
-----------------------------------------------------------------------------
(* The world: controller, Kubernetes, mobility group manager.              *)

NamesOf(d) == IF d = NoDoc THEN {} ELSE d.pods \cup d.svcs

\* An activation deploys the scenario; it follows a terminate.  An update adds
\* no process, and what it removes stays deployed.  After a terminate the
\* mobility group manager drops its rules.
ScenarioChange ==
  /\ events < MaxEvents /\ events' = events + 1
  /\ \E d \in (Docs \cup {NoDoc}) \ {active} :
       /\ {d, active} \subseteq Docs => d.name = active.name /\ NamesOf(d) \subseteq NamesOf(active)
       /\ active = NoDoc /\ ~MayLinger => k8s = {}
       /\ active' = d /\ past' = past \cup ({d} \cap Docs)
  /\ deployment' = IF active = NoDoc THEN deployment + 1 ELSE deployment
  /\ deployed' = IF active' = NoDoc THEN {} ELSE IF active = NoDoc THEN NamesOf(active') ELSE deployed
  /\ queue' = queue \o (IF active' = NoDoc THEN <<"SCENARIO", "LB">> ELSE <<"SCENARIO">>)
  /\ rules' = IF active' = NoDoc THEN Nothing ELSE rules
  /\ UNCHANGED <<k8s, info, derived, poller>>

\* A pod or service of the scenario gets an address, its own in each deployment.
ResourceUp ==
  /\ \E n \in deployed :
       LET r == [name |-> n, scenario |-> active.name, address |-> deployment]
       IN  /\ r \notin k8s
           /\ n \in Svcs => \A s \in k8s : s.name # n
           /\ k8s' = k8s \cup {r}
  /\ UNCHANGED <<active, past, deployment, deployed, rules, events, queue, info, derived, poller>>

\* A resource of a terminated deployment goes away.
Obsolete(r) == r.name \notin deployed \/ r.address # deployment
ResourceDown ==
  /\ \E r \in k8s : Obsolete(r) /\ k8s' = k8s \ {r}
  /\ UNCHANGED <<active, past, deployment, deployed, rules, events, queue, info, derived, poller>>

\* The mobility group manager stores new rules and says so; it may be late, so
\* that they are those of an earlier scenario.  An element may be served by
\* nobody: the name of the service is empty.
RulesWritten ==
  /\ events < MaxEvents /\ events' = events + 1
  /\ \E d \in past : rules' \in [d.pods -> d.svcs \cup {NoSvc}]
  /\ queue' = Append(queue, "LB")
  /\ UNCHANGED <<active, past, deployment, deployed, k8s, info, derived, poller>>
-----------------------------------------------------------------------------
(* Rules.                                                                  *)

\* Mutant: the next number is not advanced.
NumberedOnce(e, sources) ==
  LET new == SetToSeq(sources \ DOMAIN e.filters)
  IN  [ip |-> e.ip, next |-> e.next,
       filters |-> [s \in sources \cup DOMAIN e.filters |->
                      IF s \in DOMAIN e.filters THEN e.filters[s]
                      ELSE e.next]]

\* setFilterInfoRules, for one destination: the sources without a filter get
\* the next numbers.
Numbered(e, sources) ==
  LET new == SetToSeq(sources \ DOMAIN e.filters)
  IN  [ip |-> e.ip, next |-> e.next + Len(new),
       filters |-> [s \in sources \cup DOMAIN e.filters |->
                      IF s \in DOMAIN e.filters THEN e.filters[s]
                      ELSE e.next - 1 + CHOOSE i \in DOMAIN new : new[i] = s]]

\* setFilterInfoRules: the elements with all their filters; only the rules of
\* new filters are written.
WithFilters(elems) == [p \in DOMAIN elems |-> Numbered(elems[p], DOMAIN elems \ {p})]

NewRules(old, elems) ==
  LET fresh == {f \in Pods \X Pods :
                  /\ f[1] \in DOMAIN elems /\ f[2] \in DOMAIN elems[f[1]].filters
                  /\ f[2] \notin DOMAIN old[f[1]].filters}
      Key(f) == <<f[1], elems[f[1]].filters[f[2]]>>
      Rule(s) == [src |-> s, ip |-> elems[s].ip]
  IN  [k \in DOMAIN netRules \cup {Key(f) : f \in fresh} |->
         IF k \in {Key(f) : f \in fresh}
         THEN Rule((CHOOSE f \in fresh : Key(f) = k)[2]) ELSE netRules[k]]

\* processMgSvcMapUpdate in the ready state: map the pods that are known; a
\* service that is not known is a nil pointer.  Without rules nothing is done.
ProcessMgSvcMapUpdate ==
  IF rules = Nothing
  THEN UNCHANGED <<podInfoMap, lbRules, crashed>>
  ELSE LET mapped == [p \in DOMAIN podInfoMap |->
                        IF p \notin DOMAIN rules THEN podInfoMap[p]
                        ELSE IF rules[p] \in svcInfoMap THEN rules[p] ELSE Nil]
       IN  /\ podInfoMap' = mapped
           /\ crashed' = \E p \in DOMAIN mapped : mapped[p] = Nil
           /\ lbRules' = [p \in {x \in DOMAIN mapped : mapped[x] \notin {NoSvc, Nil}} |-> mapped[p]]
-----------------------------------------------------------------------------
(* The listener, with the mutex held.                                      *)

Receive(msg) == /\ ~crashed /\ queue # <<>> /\ Head(queue) = msg
                /\ queue' = Tail(queue)
                /\ UNCHANGED world

\* Another scenario, or another deployment of it, than the one processed last.
Another == served \notin {0, deployment}

AtWork == {q \in Pollers : poller[q].at \notin {"none", "sleep"}}

\* Mutant: the addresses are kept.
StopKeepsAddresses ==
  /\ Receive("SCENARIO") /\ active = NoDoc
  /\ netElemMap' = Nothing /\ svcInfoMap' = {} /\ podInfoMap' = Nothing
  /\ tcEngineState' = "Idle"
  /\ scenarioName' = NoDoc /\ netRules' = Nothing /\ lbRules' = Nothing
  /\ netCharStarted' = FALSE
  /\ served' = 0 /\ skipped' = FALSE /\ late' = FALSE /\ failed' = FALSE /\ crowded' = FALSE
  /\ overlapped' = (AtWork # {})
  /\ UNCHANGED <<ipMap, countReq, count, crashed, poller>>

StopScenario ==
  /\ Receive("SCENARIO") /\ active = NoDoc
  /\ netElemMap' = Nothing /\ ipMap' = Nothing /\ svcInfoMap' = {} /\ podInfoMap' = Nothing
  /\ tcEngineState' = "Idle" /\ countReq' = ZeroOfEach /\ count' = ZeroOfEach
  /\ scenarioName' = NoDoc /\ netRules' = Nothing /\ lbRules' = Nothing
  /\ netCharStarted' = FALSE
  /\ served' = 0 /\ skipped' = FALSE /\ late' = FALSE /\ failed' = FALSE /\ crowded' = FALSE
  /\ overlapped' = (AtWork # {})
  /\ UNCHANGED <<crashed, poller>>

\* addPod, addSvc: the names to look for; none are added in the ready state.
Wanted(d) == IF tcEngineState = "Ready" THEN DOMAIN ipMap
             ELSE DOMAIN ipMap \cup d.pods \cup d.svcs

\* getPlatformInfo from the idle state: a new poller.
StartPoller ==
  IF tcEngineState = "Idle"
  THEN /\ tcEngineState' = "Initializing"
       /\ \E q \in Pollers : /\ poller[q].at = "none"
                             /\ poller' = [poller EXCEPT ![q] = [Asleep EXCEPT !.at = "sleep"]]
  ELSE UNCHANGED <<tcEngineState, poller>>

ProcessScenario ==
  /\ Receive("SCENARIO") /\ active # NoDoc
  /\ scenarioName' = active.name
  /\ ipMap' = [n \in Wanted(active) |-> IF n \in DOMAIN ipMap THEN ipMap[n] ELSE 0]
  /\ countReq' = [k \in Kinds |->
       countReq[k] + Cardinality((Wanted(active) \ DOMAIN ipMap) \cap Named(k))]
  /\ netElemMap' = [p \in DOMAIN netElemMap \cup active.pods |->
       IF p \in DOMAIN netElemMap THEN netElemMap[p]
       ELSE [ip |-> IF p \in DOMAIN ipMap THEN ipMap[p] ELSE 0, next |-> 1, filters |-> Nothing]]
  /\ podInfoMap' = [p \in DOMAIN podInfoMap \cup active.pods |->
       IF p \in active.pods THEN NoSvc ELSE podInfoMap[p]]
  /\ svcInfoMap' = svcInfoMap \cup active.svcs
  /\ StartPoller
  /\ served' = deployment /\ skipped' = (skipped \/ Another)
  /\ crowded' = (crowded \/ (AtWork # {} /\ ~(active.pods \cup active.svcs \subseteq DOMAIN ipMap)))
  /\ UNCHANGED <<count, netRules, lbRules, netCharStarted, crashed, late, overlapped, failed>>

\* Ignored unless the engine is ready.
MgSvcMapUpdate ==
  /\ Receive("LB")
  /\ IF tcEngineState = "Ready" THEN ProcessMgSvcMapUpdate
     ELSE UNCHANGED <<podInfoMap, lbRules, crashed>>
  /\ UNCHANGED <<tcEngineState, scenarioName, ipMap, countReq, count, netElemMap, svcInfoMap,
                 netRules, netCharStarted, late, skipped, overlapped, crowded, failed, served,
                 poller>>
-----------------------------------------------------------------------------
(* The pollers, without the mutex.                                         *)

At(q, place)   == ~crashed /\ poller[q].at = place
GoTo(q, place) == poller' = [poller EXCEPT ![q] = [Asleep EXCEPT !.at = place]]
Scan(q, place, seen) == poller' = [poller EXCEPT ![q] = [Asleep EXCEPT !.at = place, !.seen = seen]]

\* The ticker fires: stop, or list the pods of the scenario if some are missing.
Tick(q) ==
  /\ At(q, "sleep")
  /\ IF tcEngineState # "Initializing" THEN GoTo(q, "none") /\ UNCHANGED crowded
     ELSE /\ Scan(q, "pods", IF count["pod"] < countReq["pod"]
                            THEN {r \in k8s : r.name \in Pods /\ r.scenario = scenarioName} ELSE {})
          /\ crowded' = (crowded \/ AtWork # {})
  /\ UNCHANGED <<world, queue, scenarioName, ipMap, countReq, count, svcInfoMap, podInfoMap, served,
                 skipped, overlapped, failed, derived>>

\* The next resource of the list, which comes in one order: its name is looked
\* for and has no address.
Look(q) ==
  /\ At(q, "pods") \/ At(q, "svcs")
  /\ poller[q].seen # {}
  /\ LET r == CHOOSE x \in poller[q].seen : TRUE
         left == poller[q].seen \ {r}
     IN  poller' = [poller EXCEPT ![q] =
           IF r.name \in DOMAIN ipMap /\ ipMap[r.name] = 0
           THEN [@ EXCEPT !.at = "put", !.seen = left, !.item = r]
           ELSE [@ EXCEPT !.seen = left]]
  /\ UNCHANGED <<world, queue, info, derived>>

\* Its address is stored, in the map there is by now.
Put(q) ==
  /\ At(q, "put")
  /\ LET r == poller[q].item
     IN  ipMap' = [n \in DOMAIN ipMap \cup {r.name} |-> IF n = r.name THEN r.address ELSE ipMap[n]]
  /\ poller' = [poller EXCEPT ![q].at = "mark"]
  /\ UNCHANGED <<world, queue, scenarioName, countReq, count, svcInfoMap, podInfoMap, served, skipped,
                 overlapped, crowded, failed, derived>>

KindOf(n) == IF n \in Pods THEN "pod" ELSE "svc"

\* The element of a pod gets the address, and the number to begin with; the
\* counter is read.
Mark(q) ==
  /\ At(q, "mark")
  /\ LET r == poller[q].item
     IN  /\ netElemMap' = [p \in DOMAIN netElemMap |->
              IF p = r.name THEN [netElemMap[p] EXCEPT !.ip = r.address, !.next = 1] ELSE netElemMap[p]]
         /\ poller' = [poller EXCEPT ![q].at = "count", ![q].read = count[KindOf(r.name)]]
  /\ UNCHANGED <<world, queue, info, tcEngineState, netRules, lbRules, netCharStarted, crashed, late>>

\* The counter is written, and the loop goes on.
Count(q) ==
  /\ At(q, "count")
  /\ LET k == KindOf(poller[q].item.name)
     IN  /\ count' = [count EXCEPT ![k] = poller[q].read + 1]
         /\ Scan(q, IF k = "pod" THEN "pods" ELSE "svcs", poller[q].seen)
  /\ UNCHANGED <<world, queue, scenarioName, ipMap, countReq, svcInfoMap, podInfoMap, served, skipped,
                 overlapped, crowded, failed, derived>>

\* After the pods, the services are listed if some are missing.
ListSvcs(q) ==
  /\ At(q, "pods") /\ poller[q].seen = {}
  /\ Scan(q, "svcs", IF count["svc"] < countReq["svc"] THEN {r \in k8s : r.name \in Svcs} ELSE {})
  /\ UNCHANGED <<world, queue, info, derived>>

\* Mutant: services are not waited for.
CompletePods(c, req) == c["pod"] = req["pod"]

Complete(c, req) == c = req

\* Mutant: one attempt.
CheckOnce(q) ==
  /\ At(q, "svcs") /\ poller[q].seen = {}
  /\ GoTo(q, IF Complete(count, countReq) /\ tcEngineState = "Initializing" THEN "lock" ELSE "none")
  /\ UNCHANGED <<world, queue, info, derived>>

\* If all information is there the poller waits for the mutex, or ends.
Check(q) ==
  /\ At(q, "svcs") /\ poller[q].seen = {}
  /\ GoTo(q, IF ~Complete(count, countReq) THEN "sleep"
             ELSE IF tcEngineState = "Initializing" THEN "lock" ELSE "none")
  /\ UNCHANGED <<world, queue, info, derived>>

\* With the mutex: what was checked without it is not checked again.
Ready(q) ==
  /\ At(q, "lock")
  /\ tcEngineState' = "Ready"
  /\ late' = (late \/ tcEngineState # "Initializing" \/ ~Complete(count, countReq))
  /\ netElemMap' = WithFilters(netElemMap)
  /\ netRules' = NewRules(netElemMap, netElemMap')
  /\ ProcessMgSvcMapUpdate
  /\ netCharStarted' = TRUE
  /\ GoTo(q, "none")
  /\ UNCHANGED <<world, queue, scenarioName, ipMap, countReq, count, svcInfoMap, served, skipped,
                 overlapped, crowded, failed>>

\* A call of Kubernetes fails: the goroutine returns.
PollFails(q) ==
  /\ \/ At(q, "sleep") /\ tcEngineState = "Initializing"
     \/ At(q, "pods") /\ poller[q].seen = {} /\ count["svc"] < countReq["svc"]
  /\ GoTo(q, "none")
  /\ failed' = TRUE
  /\ UNCHANGED <<world, queue, scenarioName, ipMap, countReq, count, svcInfoMap, podInfoMap, served,
                 skipped, overlapped, crowded, derived>>

Poll(q) ==
  Tick(q) \/ Look(q) \/ Put(q) \/ Mark(q) \/ Count(q) \/ ListSvcs(q) \/ Check(q) \/ Ready(q)

Listen == StopScenario \/ ProcessScenario \/ MgSvcMapUpdate

Next ==
  \/ ScenarioChange \/ ResourceUp \/ ResourceDown \/ RulesWritten
  \/ StopScenario \/ ProcessScenario \/ MgSvcMapUpdate
  \/ \E q \in Pollers :
       \/ Tick(q) \/ Look(q) \/ Put(q) \/ Mark(q) \/ Count(q) \/ ListSvcs(q) \/ Check(q)
       \/ Ready(q) \/ PollFails(q)

Spec == Init /\ [][Next]_vars

\* The listener and the tickers keep running; Kubernetes deploys what is active
\* and removes what is not.
Fairness == /\ WF_vars(Listen) /\ \A q \in Pollers : WF_vars(Poll(q))
            /\ WF_vars(ResourceUp) /\ WF_vars(ResourceDown)
FairSpec == Spec /\ Fairness
-----------------------------------------------------------------------------
(* Properties.                                                             *)

\* Maps and rules have their types.
TypeOK ==
  /\ active \in Docs \cup {NoDoc}
  /\ tcEngineState \in {"Idle", "Initializing", "Ready"}
  /\ ipMap \in [DOMAIN ipMap -> 0 .. deployment] /\ DOMAIN ipMap \subseteq Pods \cup Svcs
  /\ DOMAIN netElemMap = DOMAIN podInfoMap
  /\ \A p \in DOMAIN netElemMap : DOMAIN netElemMap[p].filters \subseteq DOMAIN netElemMap \ {p}
  /\ DOMAIN lbRules \subseteq DOMAIN podInfoMap
  /\ \A q \in Pollers :
       poller[q].at \in {"none", "sleep", "pods", "svcs", "put", "mark", "count", "lock"}

\* When the engine is ready it has a scenario, every name it looked for has an
\* address, and so has every rule.  The ways to a ready engine that lacks some:
\* the scenario was stopped under a poller, which goes on to store, to count or
\* to declare the engine ready; two pollers were at work, or one while elements
\* were added, so that they count a name twice, write over a counter, or go by
\* a check that holds no more.
ReadyIsComplete ==
  tcEngineState = "Ready" /\ ~overlapped /\ ~crowded =>
    /\ scenarioName # NoDoc
    /\ \A n \in DOMAIN ipMap : ipMap[n] # 0
    /\ \A k \in DOMAIN netRules : netRules[k].ip # 0

\* Every flow has a rule of its own under its number, whatever was added or
\* declared ready twice; except after two late events in one activation: a
\* poller declared it ready too late, so that one that was still storing
\* addresses starts the numbers again, and another deployment followed without
\* a stop, so that new flows get the numbers of old ones.
FlowsHaveOwnRules ==
  ~(late /\ skipped) =>
    \A p \in DOMAIN netElemMap : \A s \in DOMAIN netElemMap[p].filters :
      LET key == <<p, netElemMap[p].filters[s]>>
      IN  key \in DOMAIN netRules /\ netRules[key].src = s

\* No address is older than the deployment that is served, when the old
\* resources are gone before the next deployment, no poller worked while the
\* scenario was stopped, and no terminate was overtaken by an activation.
AddressesAreCurrent ==
  ~overlapped /\ ~skipped => \A n \in DOMAIN ipMap : ipMap[n] = 0 \/ ipMap[n] >= served

\* The active scenario is served: all its names have an address.
Served ==
  /\ tcEngineState = "Ready"
  /\ \A n \in NamesOf(active) : n \in DOMAIN ipMap /\ ipMap[n] # 0

\* In the end the active scenario is served.  The ways not to serve it: the
\* scenario was stopped under a poller, or two were at work, so that the engine
\* is ready too early or its counters never agree; an error of Kubernetes ended
\* a poller; a terminate was overtaken; or the process ended on load balancing
\* rules that name no service, one of an earlier scenario, or one of a scenario
\* that still waited to be handled.
EventuallyServed ==
  <>[](active # NoDoc =>
         \/ Served \/ overlapped \/ crowded \/ skipped \/ failed
         \/ crashed /\ ("SCENARIO" \in ToSet(queue) \/ \E p \in DOMAIN rules : rules[p] \notin active.svcs))
=============================================================================
