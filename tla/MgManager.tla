----------------------------- MODULE MgManager ------------------------------
(***************************************************************************)
(* The mobility group manager (meep-mg-manager).  It keeps the mobility    *)
(* groups with their registered applications and tracked UEs, decides for  *)
(* every network element (process) of the active scenario which instance   *)
(* of a group's service it is served by, tells applications about state    *)
(* transfers, and stores the result as load balancing rules for the        *)
(* traffic control engine.                                                 *)
(*                                                                         *)
(* Two kinds of goroutines run the same functions on the same maps without *)
(* a lock: the message queue listener (scenario changes) and one per REST  *)
(* request.  So a handler is cut between what it reads and what it writes: *)
(* the map of a group is emptied and filled location by location, a pass   *)
(* over the elements looks a pair of element and group up, tells, writes   *)
(* the map, decides about the transfer, writes the flag; then the mapping  *)
(* is listed, then stored.  What is in the memory at a time is an object   *)
(* with an index: a goroutine goes on with the one it has got hold of.     *)
(* (Go's detector of concurrent map access may also end the process:       *)
(* Restart.)                                                               *)
(***************************************************************************)
EXTENDS Naturals, Sequences, FiniteSets, SequencesExt

CONSTANTS
  Groups,     \* MG services, and the mobility groups named after them
  Apps,       \* application ids; those of instances are service names
  Elems,      \* network elements: the processes of the scenarios
  PLs,        \* physical locations; the tracked UEs are named after theirs
  Locs,       \* network locations
  PhyOf,      \* element -> physical location
  Hops,       \* Locs -> Apps -> hop count in the network graph
  Docs,       \* active scenarios: [name, elems, svcs, net, range]
  NoDoc, NoApp, Unset, Listener,
  RestThreads,
  Settings,   \* the triggers and algorithms that requests ask for
  MaxEvents,  \* bound: scenario changes, failures of Redis, and restarts
  MaxReq,     \* bound: requests
  MaxAtWork   \* bound: goroutines at work at a time

Threads == RestThreads \cup {Listener}

ASSUME MgAssumption ==
  /\ IsFiniteSet(Groups) /\ IsFiniteSet(Elems) /\ IsFiniteSet(Apps)
  /\ PhyOf \in [Elems -> PLs] /\ Hops \in [Locs -> [Apps -> Nat]]
  /\ \A d \in Docs :
       /\ d.elems \subseteq Elems /\ d.svcs \in [Groups -> SUBSET Apps]
       /\ d.net \in [PLs -> Locs] /\ d.range \in [PLs -> SUBSET Locs]
  /\ NoDoc \notin Docs /\ {NoApp, Unset} \cap Apps = {} /\ NoApp # Unset
  /\ Unset \notin [Locs -> Apps \cup {NoApp}]
  /\ Listener \notin RestThreads

VARIABLES
  active,    \* the active scenario in Redis
  pending,   \* scenario messages in the queue of the listener
  up,        \* Run registered the listener, and the API is served
  loaded,    \* the network graph and the list of its locations are there
  svcs,      \* mgSvcInfoMap: group -> service instances
  mgs,       \* group objects: [trigger, lb, apps, ues, inRange, appMap, dflt]
  mgInfoMap, \* group -> index in mgs, 0: no entry
  objs,      \* element objects: [phy, net, range, map, transfer]
  netElems,  \* netElemInfoMap: element -> index in objs
  job,       \* per goroutine: where it is, and what it holds
  stored,    \* the load balancing rules in Redis: element -> group -> app
  notes,     \* notifications whose goroutine has not run yet: [obj, app]
  crashed,   \* a goroutine without a recover dereferenced nil
  open,      \* history: <<element object, group>> with a START not yet concluded
  outdated,  \* history: the list of the goroutine is not the latest any more
  wroteOld,  \* history: the last list stored was outdated
  lost,      \* history: since the last good store one failed, or a pass broke off
  dirty,     \* history: groups or apps changed and no pass over all followed
  patchy,    \* history: groups whose map was not filled, or by two at a time
  late,      \* history: <<element object, group>> written after it had changed
  passed,    \* history: <<element object, group>> passed over for its trigger
  crossed,   \* history: element objects in the hands of two goroutines at once
  risky,     \* history: a request came that the code does not cope with later
  overtaken, \* history: a scenario followed another before the first was cleared
  raced,     \* history: goroutines were at work that do not go together
  events, requests

tales  == <<open, outdated, wroteOld, lost, dirty, patchy, late, passed, crossed, risky,
            overtaken, raced>>
limits == <<events, requests>>
vars   == <<active, pending, up, loaded, svcs, mgs, mgInfoMap, objs, netElems, job, stored,
            notes, crashed, tales, limits>>

NoMap   == [l \in Locs |-> NoApp]
NoRules == <<>>

\* A goroutine: where it is (at) and for whom it works (as); the group object
\* whose map it fills, from which applications (unknown: one of them is no
\* service), for which locations still, whether it fills it alone and all of
\* it, and whether a pass follows; in a pass the element objects and, for the
\* current one, the groups still to visit; in a visit the group, what it looked
\* up, whether locations in range count, and the flag to set; the list.
NoJob == [at |-> "idle", as |-> "nobody",
          obj |-> 0, from |-> {}, unknown |-> FALSE, locs |-> {}, whole |-> TRUE,
          els |-> {}, elem |-> 0, grps |-> {}, grp |-> "none", best |-> NoApp,
          ranged |-> FALSE, flag |-> FALSE, list |-> NoRules]

\* mgCreate: a group without applications; the default map is set later.
NewGroup(trigger, lb) ==
  [trigger |-> trigger, lb |-> lb, apps |-> {}, ues |-> {},
   inRange |-> [p \in PLs |-> {}], appMap |-> NoMap, dflt |-> Unset]

\* Init reads the active scenario as for a message; Run comes after that.
Init ==
  /\ active = NoDoc /\ pending = 1 /\ up = FALSE
  /\ loaded = FALSE /\ svcs = [g \in Groups |-> {}]
  /\ mgs = <<>> /\ mgInfoMap = [g \in Groups |-> 0]
  /\ objs = <<>> /\ netElems = <<>>
  /\ job = [t \in Threads |-> NoJob]
  /\ stored = NoRules /\ notes = {} /\ crashed = FALSE
  /\ open = {} /\ outdated = [t \in Threads |-> FALSE] /\ wroteOld = FALSE /\ lost = FALSE
  /\ dirty = FALSE /\ patchy = {} /\ late = {} /\ passed = {} /\ crossed = {}
  /\ risky = FALSE /\ overtaken = FALSE /\ raced = FALSE
  /\ events = 0 /\ requests = 0
-----------------------------------------------------------------------------
(* What is looked up, and what is remembered of the steps.                 *)

At(t, where) == ~crashed /\ job[t].at = where
Room         == Cardinality({t \in Threads : job[t].at # "idle"}) < MaxAtWork
Happens      == events < MaxEvents /\ events' = events + 1
Does(t, j)   == job' = [job EXCEPT ![t] = j]

\* The list of network elements that is stored.
Mapping == [e \in DOMAIN netElems |-> objs[netElems[e]].map]

\* A change of the mapping makes the lists that wait for the store outdated.
Outdate == outdated' = [u \in Threads |-> outdated[u] \/ (job[u].at = "store" /\ Mapping' # Mapping)]

\* svcInfoMap has an entry for it.
Known(a) == \E g \in Groups : a \in svcs[g]

\* runLbAlgoHopCount: a closest instance, the first that the iteration of a
\* Go map meets.
Closest(S, l) ==
  IF S = {} THEN {NoApp} ELSE {a \in S : \A b \in S : Hops[l][a] <= Hops[l][b]}

\* The instance that the maps of the group name for a location.
AppAt(mg, l) ==
  IF mg.apps # {} THEN mg.appMap[l] ELSE IF mg.dflt = Unset THEN NoApp ELSE mg.dflt[l]

\* Goroutines at work that do not go together: only requests for UEs, and
\* updates of a scenario, go with others of these.
Gentle == {"ue", "update"}
Joins(t, as) ==
  raced' = (raced \/ \E u \in Threads \ {t} :
                       job[u].at # "idle" /\ ~({as, job[u].as} \subseteq Gentle))
-----------------------------------------------------------------------------
(* refreshNetLocAppMap: the map is made anew, then filled.                 *)

\* The goroutine as it begins to fill the map of group object k.
Filling(as, k, apps, alone) ==
  [NoJob EXCEPT !.at = "fill", !.as = as, !.obj = k, !.from = apps,
                !.unknown = \E a \in apps : ~Known(a),
                !.locs = IF loaded THEN Locs ELSE {}, !.whole = loaded /\ alone]

Fills(k) == {u \in Threads : job[u].at = "fill" /\ job[u].obj = k}

\* Another goroutine at the same map does not fill it alone any more.
Begin(t, j) ==
  job' = [u \in Threads |-> IF u = t THEN j
                            ELSE IF u \in Fills(j.obj) THEN [job[u] EXCEPT !.whole = FALSE]
                            ELSE job[u]]

\* refreshMgSvcMapping begins: the elements there are.
Passing(j) ==
  [NoJob EXCEPT !.at = "pass", !.as = j.as, !.els = {netElems[e] : e \in DOMAIN netElems}]

\* After the map of the group; well says whether it is whole.
Leave(t, well) ==
  /\ Does(t, IF job[t].as = "app" THEN Passing(job[t]) ELSE NoJob)
  /\ patchy' = IF well THEN patchy \ {job[t].obj} ELSE patchy \cup {job[t].obj}
  /\ risky' = (risky \/ ~well)

\* The map is filled, for one location after the other.
FillLoc(t) ==
  /\ At(t, "fill") /\ mgs[job[t].obj].lb = "HOP-COUNT"
  /\ job[t].from = {} \/ (loaded /\ ~job[t].unknown)
  /\ \E l \in job[t].locs : \E a \in Closest(job[t].from, l) :
       /\ mgs' = [mgs EXCEPT ![job[t].obj].appMap[l] = a]
       /\ IF job[t].locs = {l} THEN Leave(t, job[t].whole)
          ELSE /\ Does(t, [job[t] EXCEPT !.locs = @ \ {l}])
               /\ UNCHANGED <<patchy, risky>>
  /\ UNCHANGED <<active, pending, up, loaded, svcs, mgInfoMap, objs, netElems, stored, notes,
                 crashed, open, outdated, wroteOld, lost, dirty, late, passed, crossed,
                 overtaken, raced, limits>>

\* An application that is no service has no node, and without a scenario there
\* is no graph: nil is dereferenced, and net/http recovers.
FillPanics(t) ==
  /\ At(t, "fill") /\ mgs[job[t].obj].lb = "HOP-COUNT"
  /\ job[t].locs # {} /\ job[t].from # {} /\ (~loaded \/ job[t].unknown)
  /\ Does(t, NoJob)
  /\ patchy' = patchy \cup {job[t].obj}
  /\ risky' = TRUE
  /\ UNCHANGED <<active, pending, up, loaded, svcs, mgs, mgInfoMap, objs, netElems, stored,
                 notes, crashed, open, outdated, wroteOld, lost, dirty, late, passed, crossed,
                 overtaken, raced, limits>>

\* There is nothing to fill, or no such algorithm.
LeaveMap(t) ==
  /\ At(t, "fill") /\ (job[t].locs = {} \/ mgs[job[t].obj].lb # "HOP-COUNT")
  /\ Leave(t, FALSE)
  /\ UNCHANGED <<active, pending, up, loaded, svcs, mgs, mgInfoMap, objs, netElems, stored,
                 notes, crashed, open, outdated, wroteOld, lost, dirty, late, passed, crossed,
                 overtaken, raced, limits>>
-----------------------------------------------------------------------------
(* refreshMgSvcMapping: every element is visited for every group.          *)

\* What is to be visited: the other groups for the element at hand; when there
\* are none the next element for the groups there are by then.
Due(j) == IF j.grps # {} THEN {j.elem} \X j.grps ELSE j.els \X {g \in Groups : svcs[g] # {}}

\* Element i is visited for group g; whether its UE is tracked; what is left.
Visits(t, i, g) == At(t, "pass") /\ <<i, g>> \in Due(job[t])
Tracked(i, g) ==
  mgInfoMap[g] # 0 /\ mgs[mgInfoMap[g]].apps # {} /\ objs[i].phy \in mgs[mgInfoMap[g]].ues
Left(t, i, g) == [job[t] EXCEPT !.elem = i, !.els = @ \ {i},
                                !.grps = {h \in Groups : <<i, h>> \in Due(job[t]) /\ h # g}]
Triggers == {"NET-LOC-IN-RANGE", "NET-LOC-CHANGE"}

\* A group that does not exist, or a tracked UE and no such trigger.
PassOver(t, i, g) ==
  /\ Visits(t, i, g)
  /\ mgInfoMap[g] = 0 \/ (Tracked(i, g) /\ mgs[mgInfoMap[g]].trigger \notin Triggers)
  /\ Does(t, Left(t, i, g))
  /\ passed' = IF mgInfoMap[g] = 0 THEN passed ELSE passed \cup {<<i, g>>}
  /\ UNCHANGED <<active, pending, up, loaded, svcs, mgs, mgInfoMap, objs, netElems, stored,
                 notes, crashed, open, outdated, wroteOld, lost, dirty, patchy, late, crossed,
                 risky, overtaken, raced, limits>>

\* The element is not tracked: it is served as the maps say.
Look(t, i, g) ==
  /\ Visits(t, i, g) /\ mgInfoMap[g] # 0 /\ ~Tracked(i, g)
  /\ Does(t, [Left(t, i, g) EXCEPT !.at = "write", !.grp = g,
                !.best = AppAt(mgs[mgInfoMap[g]], objs[i].net)])
  /\ UNCHANGED <<active, pending, up, loaded, svcs, mgs, mgInfoMap, objs, netElems, stored,
                 notes, crashed, tales, limits>>

\* The element is tracked, and served by nobody yet: nil is dereferenced, which
\* ends the process, or just the request where net/http recovers.
TrackPanics(t, i, g) ==
  /\ Visits(t, i, g) /\ Tracked(i, g) /\ mgs[mgInfoMap[g]].trigger \in Triggers
  /\ objs[i].map[g] = Unset
  /\ crashed' = (t = Listener)
  /\ Does(t, NoJob)
  /\ lost' = TRUE /\ dirty' = TRUE
  /\ UNCHANGED <<active, pending, up, loaded, svcs, mgs, mgInfoMap, objs, netElems, stored,
                 notes, open, outdated, wroteOld, patchy, late, passed, crossed, risky,
                 overtaken, raced, limits>>

\* Somebody else is in the middle of a visit to the element.
Hands(i) == {u \in Threads : job[u].elem = i /\ job[u].at \in {"move", "decide", "flag"}}

\* The application that serves the element, as the notification looks it up.
Told(a) == IF Known(a) THEN a ELSE NoApp

\* The element is tracked: the applications in range are noted, and when
\* another one is closer the one that served is told of the completion.
Track(t, i, g) ==
  /\ Visits(t, i, g) /\ Tracked(i, g) /\ mgs[mgInfoMap[g]].trigger \in Triggers
  /\ LET k    == mgInfoMap[g]
         now  == objs[i].map[g]
         best == mgs[k].appMap[objs[i].net]
         both == mgs[k].trigger = "NET-LOC-IN-RANGE"
         near == {best} \cup {mgs[k].appMap[l] : l \in objs[i].range \ {objs[i].net}}
     IN  /\ now # Unset
         /\ mgs' = IF both THEN [mgs EXCEPT ![k].inRange[objs[i].phy] = near] ELSE mgs
         /\ notes' = notes \cup {[obj |-> k, app |-> Told(a)] : a \in {now} \ {best}}
         /\ open' = IF best # now THEN open \ {<<i, g>>} ELSE open
         /\ Does(t, IF best = now /\ ~both THEN Left(t, i, g)
                    ELSE [Left(t, i, g) EXCEPT !.at = IF best # now THEN "move" ELSE "decide",
                            !.obj = k, !.grp = g, !.best = best, !.ranged = both])
         /\ late' = IF best = now THEN late \ {<<i, g>>} ELSE late
         /\ passed' = passed \ {<<i, g>>}
         /\ crossed' = IF Hands(i) # {} THEN crossed \cup {i} ELSE crossed
  /\ UNCHANGED <<active, pending, up, loaded, svcs, mgInfoMap, objs, netElems, stored, crashed,
                 outdated, wroteOld, lost, dirty, patchy, risky, overtaken, raced, limits>>

\* What the maps name by now for the element that t visits.
NamedNow(t) ==
  IF mgInfoMap[job[t].grp] = 0 THEN Unset
  ELSE AppAt(mgs[mgInfoMap[job[t].grp]], objs[job[t].elem].net)

Noted(t) ==
  LET pair == <<job[t].elem, job[t].grp>>
  IN  late' = IF job[t].best = NamedNow(t) THEN late \ {pair} ELSE late \cup {pair}

\* The goroutine after the visit.
Visited(j) == [j EXCEPT !.at = "pass", !.obj = 0, !.grp = "none", !.best = NoApp,
                        !.ranged = FALSE, !.flag = FALSE,
                        !.elem = IF j.grps = {} THEN 0 ELSE @]

\* setSvcMap for an element that is not tracked.
SetSvcMap(t) ==
  /\ At(t, "write")
  /\ objs' = [objs EXCEPT ![job[t].elem].map[job[t].grp] = job[t].best]
  /\ Does(t, Visited(job[t]))
  /\ Noted(t)
  /\ passed' = passed \ {<<job[t].elem, job[t].grp>>}
  /\ UNCHANGED <<active, pending, up, loaded, svcs, mgs, mgInfoMap, netElems, stored, notes,
                 crashed, open, wroteOld, lost, dirty, patchy, crossed, risky, overtaken,
                 raced, limits>>
  /\ Outdate

\* The transfer is complete: flag and setSvcMap.
Move(t) ==
  /\ At(t, "move")
  /\ objs' = [objs EXCEPT ![job[t].elem].map[job[t].grp] = job[t].best,
                          ![job[t].elem].transfer = FALSE]
  /\ Does(t, IF job[t].ranged THEN [job[t] EXCEPT !.at = "decide"] ELSE Visited(job[t]))
  /\ Noted(t)
  /\ UNCHANGED <<active, pending, up, loaded, svcs, mgs, mgInfoMap, netElems, stored, notes,
                 crashed, open, wroteOld, lost, dirty, patchy, passed, crossed, risky,
                 overtaken, raced, limits>>
  /\ Outdate

\* Mutant: a transfer that is cancelled stays in progress.
DecideToStart(t) ==
  /\ At(t, "decide")
  /\ LET mg   == mgs[job[t].obj]
         pair == <<job[t].elem, job[t].grp>>
         many == Cardinality(mg.inRange[objs[job[t].elem].phy]) > 1
         acts == many # objs[job[t].elem].transfer
     IN  /\ notes' = notes \cup {[obj |-> job[t].obj, app |-> a] : a \in {b \in {job[t].best} : acts}}
         /\ open' = IF ~acts THEN open ELSE IF many THEN open \cup {pair} ELSE open \ {pair}
         /\ Does(t, IF acts THEN [job[t] EXCEPT !.at = "flag", !.flag = TRUE] ELSE Visited(job[t]))
  /\ UNCHANGED <<active, pending, up, loaded, svcs, mgs, mgInfoMap, objs, netElems, stored,
                 crashed, outdated, wroteOld, lost, dirty, patchy, late, passed, crossed, risky,
                 overtaken, raced, limits>>

\* The transfer starts or is cancelled, by how many applications are in range
\* and whether one is in progress: the application is told.  (One is in range
\* at least.)
Decide(t) ==
  /\ At(t, "decide")
  /\ LET mg   == mgs[job[t].obj]
         pair == <<job[t].elem, job[t].grp>>
         many == Cardinality(mg.inRange[objs[job[t].elem].phy]) > 1
         acts == many # objs[job[t].elem].transfer
     IN  /\ notes' = notes \cup {[obj |-> job[t].obj, app |-> a] : a \in {b \in {job[t].best} : acts}}
         /\ open' = IF ~acts THEN open ELSE IF many THEN open \cup {pair} ELSE open \ {pair}
         /\ Does(t, IF acts THEN [job[t] EXCEPT !.at = "flag", !.flag = many] ELSE Visited(job[t]))
  /\ UNCHANGED <<active, pending, up, loaded, svcs, mgs, mgInfoMap, objs, netElems, stored,
                 crashed, outdated, wroteOld, lost, dirty, patchy, late, passed, crossed, risky,
                 overtaken, raced, limits>>

\* The flag is set after the goroutine that tells was started.
SetFlag(t) ==
  /\ At(t, "flag")
  /\ objs' = [objs EXCEPT ![job[t].elem].transfer = job[t].flag]
  /\ Does(t, Visited(job[t]))
  /\ UNCHANGED <<active, pending, up, loaded, svcs, mgs, mgInfoMap, netElems, stored, notes,
                 crashed, tales, limits>>
-----------------------------------------------------------------------------
(* applyMgSvcMapping.                                                      *)

ListMapping(t) ==
  /\ At(t, "pass") /\ Due(job[t]) = {}
  /\ Does(t, [NoJob EXCEPT !.at = "store", !.as = job[t].as, !.list = Mapping])
  /\ outdated' = [outdated EXCEPT ![t] = FALSE]
  /\ UNCHANGED <<active, pending, up, loaded, svcs, mgs, mgInfoMap, objs, netElems, stored,
                 notes, crashed, open, wroteOld, lost, dirty, patchy, late, passed, crossed,
                 risky, overtaken, raced, limits>>

\* The error of a failed store is ignored; after a good one the traffic control
\* engine is told.
StoreMapping(t) ==
  /\ At(t, "store")
  /\ \/ /\ stored' = job[t].list
        /\ wroteOld' = outdated[t]
        /\ lost' = (lost /\ outdated[t])
        /\ UNCHANGED events
     \/ /\ Happens
        /\ lost' = TRUE
        /\ UNCHANGED <<stored, wroteOld>>
  /\ Does(t, NoJob)
  /\ UNCHANGED <<active, pending, up, loaded, svcs, mgs, mgInfoMap, objs, netElems, notes,
                 crashed, open, outdated, dirty, patchy, late, passed, crossed, risky,
                 overtaken, raced, requests>>
-----------------------------------------------------------------------------
(* The listener.                                                           *)

\* The sandbox controller changes the active scenario and announces it; one
\* scenario follows another only by way of a terminate, and an update adds no
\* process.  Before Run nobody listens.
ScenarioChange ==
  /\ Happens
  /\ \E d \in (Docs \cup {NoDoc}) \ {active} :
       /\ {d, active} \subseteq Docs =>
            /\ d.name = active.name /\ d.elems \subseteq active.elems
            /\ \A g \in Groups : d.svcs[g] \subseteq active.svcs[g]
       /\ active' = d
  /\ pending' = IF up THEN pending + 1 ELSE pending
  /\ UNCHANGED <<up, loaded, svcs, mgs, mgInfoMap, objs, netElems, job, stored, notes, crashed,
                 tales, requests>>

\* Init has processed the scenario.
Run ==
  /\ ~up /\ pending = 0 /\ At(Listener, "idle")
  /\ up' = TRUE
  /\ UNCHANGED <<active, pending, loaded, svcs, mgs, mgInfoMap, objs, netElems, job, stored,
                 notes, crashed, tales, limits>>

Receive == At(Listener, "idle") /\ Room /\ pending > 0 /\ pending' = pending - 1

\* processActiveScenarioUpdate without a scenario: clearScenario, first what
\* belongs to the scenario ...
ClearScenario ==
  /\ Receive /\ active = NoDoc
  /\ loaded' = FALSE /\ svcs' = [g \in Groups |-> {}]
  /\ Does(Listener, [NoJob EXCEPT !.at = "clear", !.as = "clear"])
  /\ Joins(Listener, "clear")
  /\ UNCHANGED <<active, up, mgs, mgInfoMap, objs, netElems, stored, notes, crashed, open,
                 outdated, wroteOld, lost, dirty, patchy, late, passed, crossed, risky,
                 overtaken, limits>>

\* Mutant: the rules are not flushed.
ClearMemoryOnly ==
  /\ At(Listener, "clear")
  /\ netElems' = <<>> /\ mgInfoMap' = [g \in Groups |-> 0]
  /\ wroteOld' = FALSE /\ lost' = FALSE
  /\ Does(Listener, NoJob)
  /\ dirty' = FALSE /\ overtaken' = FALSE
  /\ UNCHANGED <<active, pending, up, loaded, svcs, mgs, objs, stored, notes, crashed, open,
                 patchy, late, passed, crossed, risky, raced, limits>>
  /\ Outdate

\* ... then the elements, the groups and the rules; the error of DBFlush is
\* ignored.
ClearRules ==
  /\ At(Listener, "clear")
  /\ netElems' = <<>> /\ mgInfoMap' = [g \in Groups |-> 0]
  /\ \/ stored' = NoRules /\ wroteOld' = FALSE /\ lost' = FALSE /\ UNCHANGED events
     \/ Happens /\ lost' = TRUE /\ UNCHANGED <<stored, wroteOld>>
  /\ Does(Listener, NoJob)
  /\ dirty' = FALSE /\ overtaken' = FALSE
  /\ UNCHANGED <<active, pending, up, loaded, svcs, mgs, objs, notes, crashed, open, patchy,
                 late, passed, crossed, risky, raced, requests>>
  /\ Outdate

\* The scenario is not an update of the one in memory.
Follows(d) ==
  loaded /\ (~(d.elems \subseteq DOMAIN netElems) \/ \E g \in Groups : ~(d.svcs[g] \subseteq svcs[g]))

\* getNetElem: an object for every element that has none, at position k of new.
NewElem(e) == [phy |-> PhyOf[e], net |-> active.net[PhyOf[e]], range |-> active.range[PhyOf[e]],
               map |-> [g \in Groups |-> Unset], transfer |-> FALSE]

\* processScenario: positions of the elements, services, new groups.
ProcessScenario ==
  /\ Receive /\ active # NoDoc
  /\ loaded' = TRUE
  /\ svcs' = [g \in Groups |-> svcs[g] \cup active.svcs[g]]
  /\ LET new == SetToSeq({g \in Groups : active.svcs[g] # {} /\ mgInfoMap[g] = 0})
         els == SetToSeq(active.elems \ DOMAIN netElems)
         here == {netElems[e] : e \in active.elems \cap DOMAIN netElems}
     IN  /\ mgs' = mgs \o [k \in 1 .. Len(new) |-> NewGroup("NET-LOC-IN-RANGE", "HOP-COUNT")]
         /\ mgInfoMap' = [g \in Groups |-> IF \E k \in 1 .. Len(new) : new[k] = g
                                          THEN Len(mgs) + CHOOSE k \in 1 .. Len(new) : new[k] = g
                                          ELSE mgInfoMap[g]]
         /\ objs' = [i \in 1 .. Len(objs) |->
                       IF i \in here THEN [objs[i] EXCEPT !.net = active.net[objs[i].phy],
                                                          !.range = active.range[objs[i].phy]]
                       ELSE objs[i]]
                    \o [k \in 1 .. Len(els) |-> NewElem(els[k])]
         /\ netElems' = [e \in DOMAIN netElems \cup active.elems |->
                           IF e \in DOMAIN netElems THEN netElems[e]
                           ELSE Len(objs) + CHOOSE k \in 1 .. Len(els) : els[k] = e]
  /\ LET as == IF loaded THEN "update" ELSE "first"
     IN  Does(Listener, [NoJob EXCEPT !.at = "defaults", !.as = as]) /\ Joins(Listener, as)
  /\ dirty' = \E u \in Threads : job[u].as = "delete"
  /\ overtaken' = (overtaken \/ Follows(active))
  /\ UNCHANGED <<active, up, stored, notes, crashed, open, wroteOld, lost, patchy, late, passed,
                 crossed, risky, limits>>
  /\ Outdate

\* setDefaultNetLocAppMaps: the groups that have none get a default map; one
\* without a service in the scenario ends the process.
Undefault == {g \in Groups : mgInfoMap[g] # 0 /\ mgs[mgInfoMap[g]].dflt = Unset}

SetDefaults ==
  /\ At(Listener, "defaults") /\ \A g \in Undefault : svcs[g] # {}
  /\ \E d \in [Groups -> [Locs -> Apps \cup {NoApp}]] :
       /\ \A g \in Groups : IF g \in Undefault THEN \A l \in Locs : d[g][l] \in Closest(svcs[g], l)
                            ELSE d[g] = NoMap
       /\ mgs' = [k \in 1 .. Len(mgs) |->
                    IF \E g \in Undefault : mgInfoMap[g] = k
                    THEN [mgs[k] EXCEPT !.dflt = d[CHOOSE g \in Undefault : mgInfoMap[g] = k]]
                    ELSE mgs[k]]
  /\ Does(Listener, Passing(job[Listener]))
  /\ UNCHANGED <<active, pending, up, loaded, svcs, mgInfoMap, objs, netElems, stored, notes,
                 crashed, tales, limits>>

DefaultsPanic ==
  /\ At(Listener, "defaults") /\ \E g \in Undefault : svcs[g] = {}
  /\ crashed' = TRUE
  /\ Does(Listener, NoJob)
  /\ UNCHANGED <<active, pending, up, loaded, svcs, mgs, mgInfoMap, objs, netElems, stored,
                 notes, tales, limits>>
-----------------------------------------------------------------------------
(* The REST API.                                                           *)

\* A request that the API accepts, in a goroutine of its own.
Request(t) ==
  /\ up /\ At(t, "idle") /\ Room
  /\ requests < MaxReq /\ requests' = requests + 1

\* Trigger and algorithm are whatever the request says.
MgCreate(t, g, trigger, lb) ==
  /\ Request(t) /\ mgInfoMap[g] = 0
  /\ mgs' = Append(mgs, NewGroup(trigger, lb))
  /\ mgInfoMap' = [mgInfoMap EXCEPT ![g] = Len(mgs) + 1]
  /\ dirty' = TRUE /\ risky' = (risky \/ svcs[g] = {})
  /\ UNCHANGED <<active, pending, up, loaded, svcs, objs, netElems, job, stored, notes, crashed,
                 open, outdated, wroteOld, lost, patchy, late, passed, crossed, overtaken, raced,
                 events>>

MgUpdate(t, g, trigger, lb) ==
  /\ Request(t) /\ mgInfoMap[g] # 0
  /\ mgs' = [mgs EXCEPT ![mgInfoMap[g]].trigger = trigger, ![mgInfoMap[g]].lb = lb]
  /\ UNCHANGED <<active, pending, up, loaded, svcs, mgInfoMap, objs, netElems, job, stored,
                 notes, crashed, tales, events>>

MgDelete(t, g) ==
  /\ Request(t) /\ mgInfoMap[g] # 0
  /\ mgInfoMap' = [mgInfoMap EXCEPT ![g] = 0]
  /\ dirty' = TRUE /\ risky' = TRUE
  /\ UNCHANGED <<active, pending, up, loaded, svcs, mgs, objs, netElems, job, stored, notes,
                 crashed, open, outdated, wroteOld, lost, patchy, late, passed, crossed,
                 overtaken, raced, events>>

\* Mutant: the map is made anew but not filled.
MgAppCreateOldMap(t, g, a) ==
  /\ Request(t) /\ mgInfoMap[g] # 0 /\ a \notin mgs[mgInfoMap[g]].apps
  /\ mgs' = [mgs EXCEPT ![mgInfoMap[g]].apps = @ \cup {a}, ![mgInfoMap[g]].appMap = NoMap]
  /\ Does(t, Passing([NoJob EXCEPT !.as = "app"]))
  /\ Joins(t, "app")
  /\ UNCHANGED <<active, pending, up, loaded, svcs, mgInfoMap, objs, netElems, stored, notes,
                 crashed, open, outdated, wroteOld, lost, dirty, patchy, late, passed, crossed,
                 risky, overtaken, events>>

\* Mutant: the map is filled from the instances of the service, registered or not.
MgAppCreateUnregistered(t, g, a) ==
  /\ Request(t) /\ mgInfoMap[g] # 0 /\ a \notin mgs[mgInfoMap[g]].apps
  /\ LET k == mgInfoMap[g]
     IN  /\ mgs' = [mgs EXCEPT ![k].apps = @ \cup {a}, ![k].appMap = NoMap]
         /\ Begin(t, Filling("app", k, svcs[g], Fills(k) = {}))
  /\ Joins(t, "app")
  /\ UNCHANGED <<active, pending, up, loaded, svcs, mgInfoMap, objs, netElems, stored, notes,
                 crashed, open, outdated, wroteOld, lost, dirty, patchy, late, passed, crossed,
                 risky, overtaken, events>>

\* Any application id; the map of the group is made anew.
MgAppCreate(t, g, a) ==
  /\ Request(t) /\ mgInfoMap[g] # 0 /\ a \notin mgs[mgInfoMap[g]].apps
  /\ LET k    == mgInfoMap[g]
         apps == mgs[k].apps \cup {a}
     IN  /\ mgs' = [mgs EXCEPT ![k].apps = apps, ![k].appMap = NoMap]
         /\ Begin(t, Filling("app", k, apps, Fills(k) = {}))
  /\ Joins(t, "app")
  /\ UNCHANGED <<active, pending, up, loaded, svcs, mgInfoMap, objs, netElems, stored, notes,
                 crashed, open, outdated, wroteOld, lost, dirty, patchy, late, passed, crossed,
                 risky, overtaken, events>>

\* The mapping is not evaluated again.
MgAppDelete(t, g, a) ==
  /\ Request(t) /\ mgInfoMap[g] # 0 /\ a \in mgs[mgInfoMap[g]].apps
  /\ LET k    == mgInfoMap[g]
         apps == mgs[k].apps \ {a}
     IN  /\ mgs' = [mgs EXCEPT ![k].apps = apps, ![k].appMap = NoMap]
         /\ Begin(t, Filling("delete", k, apps, Fills(k) = {}))
  /\ Joins(t, "delete")
  /\ dirty' = TRUE /\ risky' = TRUE
  /\ UNCHANGED <<active, pending, up, loaded, svcs, mgInfoMap, objs, netElems, stored, notes,
                 crashed, open, outdated, wroteOld, lost, patchy, late, passed, crossed,
                 overtaken, events>>

\* A UE that the group does not track yet, of an application of the group.
MgUeCreate(t, g, u) ==
  /\ Request(t) /\ mgInfoMap[g] # 0
  /\ mgs[mgInfoMap[g]].apps # {} /\ u \notin mgs[mgInfoMap[g]].ues
  /\ mgs' = [mgs EXCEPT ![mgInfoMap[g]].ues = @ \cup {u}]
  /\ Does(t, Passing([NoJob EXCEPT !.as = "ue"]))
  /\ Joins(t, "ue")
  /\ UNCHANGED <<active, pending, up, loaded, svcs, mgInfoMap, objs, netElems, stored, notes,
                 crashed, open, outdated, wroteOld, lost, dirty, patchy, late, passed, crossed,
                 risky, overtaken, events>>
-----------------------------------------------------------------------------
\* The goroutine of a notification looks its application up; the group is the
\* object it was started with.
Notify ==
  /\ ~crashed
  /\ \E n \in notes :
       /\ notes' = notes \ {n}
       /\ crashed' = (n.app \notin mgs[n.obj].apps)
  /\ UNCHANGED <<active, pending, up, loaded, svcs, mgs, mgInfoMap, objs, netElems, job, stored,
                 tales, limits>>

\* The process is gone; a new one flushes the rules (or fails to) and starts with
\* empty maps.
Restart ==
  /\ Happens
  /\ pending' = 1 /\ up' = FALSE
  /\ loaded' = FALSE /\ svcs' = [g \in Groups |-> {}]
  /\ mgs' = <<>> /\ mgInfoMap' = [g \in Groups |-> 0]
  /\ objs' = <<>> /\ netElems' = <<>>
  /\ job' = [t \in Threads |-> NoJob]
  /\ \/ stored' = NoRules /\ lost' = FALSE
     \/ lost' = TRUE /\ UNCHANGED stored
  /\ notes' = {} /\ crashed' = FALSE
  /\ open' = {} /\ outdated' = [t \in Threads |-> FALSE] /\ wroteOld' = FALSE
  /\ dirty' = FALSE /\ patchy' = {} /\ late' = {} /\ passed' = {} /\ crossed' = {}
  /\ risky' = FALSE /\ overtaken' = FALSE /\ raced' = FALSE
  /\ UNCHANGED <<active, requests>>

AllIdle == \A t \in Threads : job[t].at = "idle"

Idle ==
  /\ crashed \/ (pending = 0 /\ notes = {} /\ AllIdle)
  /\ UNCHANGED vars

Next ==
  \/ ScenarioChange \/ Run \/ ClearScenario \/ ClearRules \/ ProcessScenario \/ SetDefaults
  \/ DefaultsPanic \/ Notify \/ Restart \/ Idle
  \/ \E t \in Threads :
       \/ FillLoc(t) \/ FillPanics(t) \/ LeaveMap(t)
       \/ SetSvcMap(t) \/ Move(t) \/ Decide(t) \/ SetFlag(t) \/ ListMapping(t) \/ StoreMapping(t)
       \/ \E i \in DOMAIN objs, g \in Groups :
            PassOver(t, i, g) \/ Look(t, i, g) \/ TrackPanics(t, i, g) \/ Track(t, i, g)
  \/ \E t \in RestThreads, g \in Groups :
       \/ \E s \in Settings : MgCreate(t, g, s.trigger, s.lb) \/ MgUpdate(t, g, s.trigger, s.lb)
       \/ MgDelete(t, g)
       \/ \E a \in Apps : MgAppCreate(t, g, a) \/ MgAppDelete(t, g, a)
       \/ \E u \in PLs : MgUeCreate(t, g, u)

Spec == Init /\ [][Next]_vars
-----------------------------------------------------------------------------
(* Properties.                                                             *)

\* When nothing is in progress the stored rules are the mapping ("Store & Apply
\* latest MG Service mappings").  There are two ways to other rules: the last
\* goroutine to store had listed the mapping before another one changed it, or
\* since the last good store one failed or a pass ended by a nil dereference.
StoredIsExplained == AllIdle /\ ~crashed /\ ~wroteOld /\ ~lost => stored = Mapping

\* Every element is served by an instance that is closest to where it is now,
\* among the registered applications or, when there are none, among all: the
\* maps computed at registration and on the first pass are never out of date.
\* The ways to another instance: an application or a group was deleted or made
\* anew, or a pass broke off, and no scenario was processed since; the map of
\* the group was not filled, for want of a scenario, an algorithm or a service,
\* or by two goroutines at a time; what a visit wrote had changed since it was
\* looked up; the visit was passed over for its trigger; the scenario took the
\* place of another before the listener saw the first one end.
ClosestIsChosen ==
  AllIdle /\ ~crashed /\ ~dirty /\ ~overtaken =>
    \A e \in DOMAIN netElems, g \in Groups :
      (svcs[g] # {} /\ mgInfoMap[g] # 0 /\ <<netElems[e], g>> \notin late \cup passed) =>
        LET apps == mgs[mgInfoMap[g]].apps
            el   == objs[netElems[e]]
        IN  \/ apps # {} /\ mgInfoMap[g] \in patchy
            \/ el.map[g] \in Closest(IF apps = {} THEN svcs[g] ELSE apps, el.net)

\* A transfer is marked as in progress only when an application was told of its
\* start and none of its completion or cancellation ("Whether a transfer was
\* already in progress"); with one group, exactly then.  The groups share the
\* flag, so that with several the end of one transfer hides another one.  Two
\* visits to an element at a time may leave the flag of the first one to decide.
TransferFlagIsTrue ==
  \A i \in DOMAIN objs : (Hands(i) = {} /\ i \notin crossed) =>
    /\ objs[i].transfer => \E g \in Groups : <<i, g>> \in open
    /\ (\E g \in Groups : <<i, g>> \in open) => objs[i].transfer \/ Cardinality(Groups) > 1

\* The process dereferences nil outside of a request only after a request that
\* no scenario change expects: an application or a group was deleted, a group
\* was created that is no MG service of the scenario, or an application was
\* registered whose map could not be computed; or after a scenario that took the
\* place of another, with a new element where a tracked UE is; or when an
\* application was being registered, or a UE while a scenario came or went, next
\* to another goroutine at work.  Without those, every notification finds its
\* application and every pass its maps.
PanicIsExplained == crashed => risky \/ overtaken \/ raced

=============================================================================
