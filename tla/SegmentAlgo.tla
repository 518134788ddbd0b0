---------------------------- MODULE SegmentAlgo -----------------------------
(***************************************************************************)
(* The segment algorithm of meep-net-char-mgr.  Every ordered pair of      *)
(* processes of the scenario is a flow; a flow crosses segments, one per   *)
(* element and direction on its way; and each segment shares its bandwidth *)
(* among its flows according to the throughput that the side-cars measure. *)
(* What a flow gets is the least of what the segments plan for it.         *)
(*                                                                         *)
(* The calculation runs with the mutex of the manager, for a new version   *)
(* of the scenario and again at every tick.  It visits the segments one    *)
(* after the other, from the traffic that was measured when it began.      *)
(* Between two calculations the traffic follows what was allocated.        *)
(*                                                                         *)
(* Rates are integers, Mbps units to one Mbps: divisions are rounded down  *)
(* where the code has floating point.  Latency stands for jitter as well;  *)
(* packet loss, whose sum depends on the order of a Go map, is left out.   *)
(***************************************************************************)
EXTENDS Integers, Sequences, FiniteSets, SequencesExt, FiniteSetsExt

CONSTANTS
  Procs,     \* processes
  TypeOf,    \* physical location -> "UE", "FOG", "EDGE", "DC"
  ZoneOf, DomainOf, \* network location -> zone -> domain
  Scenario,  \* the name of the scenario: the segment between domains
  NoName,    \* the empty string
  Latency,   \* of every element
  Docs,      \* scenarios with the same processes: [phyLoc, netLoc, rate]
  NoDoc,
  Talkers, Demands, \* flows with traffic, and rates they may ask for
  Listing,   \* the flows, in the order of the processes
  Orders,    \* rankings of the segments: orders of iteration of a Go map
  Mbps,      \* units
  MAX_THROUGHPUT,
  Settling,  \* bound: ticks that are counted
  MaxChanges \* bound

Flows == {f \in Procs \X Procs : f[1] # f[2]}

ASSUME SegmentAssumption ==
  /\ \A d \in Docs, p \in Procs : TypeOf[d.phyLoc[p]] \in {"UE", "FOG", "EDGE", "DC"}
  /\ Talkers \subseteq Flows /\ Demands \subseteq Nat
  /\ NoDoc \notin Docs /\ Mbps \in Nat \ {0}
  /\ \A d \in Docs : \A n \in DOMAIN d.rate : d.rate[n] < MAX_THROUGHPUT

\* What a process stands in: its node, network location, zone and domain.
Type(d, p)  == TypeOf[d.phyLoc[p]]
Above(d, p) ==
  LET netLoc == d.netLoc[d.phyLoc[p]]
  IN  <<p, d.phyLoc[p], netLoc, ZoneOf[netLoc], DomainOf[ZoneOf[netLoc]], Scenario>>

\* The names of a scenario are unique.  A cloud has a zone of its own kind, and
\* an edge node a network location: the hidden ones that are made for them.
ASSUME TreeAssumption ==
  \A d \in Docs, p, q \in Procs :
    /\ \A j \in 1 .. 6 : Latency[Above(d, p)[j]] \in Nat /\ Above(d, p)[j] # NoName
    /\ \A j, k \in 1 .. 6 : j # k => Above(d, p)[j] # Above(d, q)[k]
    /\ Type(d, p) = "DC" /\ Type(d, q) # "DC" => Above(d, p)[4] # Above(d, q)[4]
    /\ Type(d, p) = "EDGE" /\ Type(d, q) \in {"UE", "FOG"} => Above(d, p)[3] # Above(d, q)[3]

VARIABLES
  doc,        \* the scenario processed last
  segmentMap, \* name -> segment: [name, flows, rate and thresholds]
  flowMap,    \* flow -> see NewFlow
  todo,       \* names of the segments that the calculation still has to visit
  busy,       \* a calculation runs
  demand,     \* flow -> the rate its sender asks for
  reported,   \* the flows that the last calculation reported
  since,      \* history: ticks since the last change
  changes

saVars == <<doc, segmentMap, flowMap, todo, busy, demand, reported, since, changes>>

NoPlan  == [bw |-> 0, lo |-> 0, hi |-> 0]
Unplanned == [bw |-> MAX_THROUGHPUT, lo |-> MAX_THROUGHPUT, hi |-> MAX_THROUGHPUT]
NewFlow == [path |-> {}, limit |-> 0, required |-> TRUE, current |-> 0,
            planned |-> NoPlan, most |-> Unplanned, computed |-> 0, \* most: MaxPlanned..., the least so far
            allocated |-> 0, lo |-> 0, hi |-> 0, latency |-> 0]

SaInit ==
  /\ doc = NoDoc /\ segmentMap = <<>>
  /\ flowMap = [f \in Flows |-> NewFlow]
  /\ todo = {} /\ busy = FALSE
  /\ demand = [f \in Flows |-> 0]
  /\ reported = {} /\ since = 0 /\ changes = 0
-----------------------------------------------------------------------------
(* Paths.                                                                  *)

Least(a, b) == IF a < b THEN a ELSE b
Most(a, b)  == IF a > b THEN a ELSE b

\* What an SegAlgoNetElem holds of its place; names that stay empty are equal.
Poa(d, p)    == IF Type(d, p) \in {"UE", "FOG"} THEN d.netLoc[d.phyLoc[p]] ELSE NoName
Zone(d, p)   == IF Type(d, p) = "DC" THEN NoName ELSE ZoneOf[d.netLoc[d.phyLoc[p]]]
Domain(d, p) == Above(d, p)[5]

Uplink(n)   == <<n, "uplink">>
Downlink(n) == <<n, "downlink">>

\* The segments of one level, at the ends whose type has that level.
Hops(d, f, types, At(_, _)) ==
  {Uplink(At(d, p)) : p \in {x \in {f[1]} : Type(d, x) \in types}}
    \cup {Downlink(At(d, p)) : p \in {x \in {f[2]} : Type(d, x) \in types}}
NotDC == {"UE", "FOG", "EDGE"}

Node(d, p) == d.phyLoc[p]
Ends(d, f) == {Uplink(f[1]), Downlink(f[2]), Uplink(Node(d, f[1])), Downlink(Node(d, f[2]))}
Same(d, f, At(_, _)) == At(d, f[1]) = At(d, f[2])

\* Mutant of Path: the zone is where every path ends.
PathToZone(d, f) ==
  Ends(d, f) \cup IF Same(d, f, Node) THEN {}
    ELSE Hops(d, f, {"UE"}, Poa) \cup IF Same(d, f, Poa) THEN {} ELSE Hops(d, f, NotDC, Zone)

\* createPath: the segments from one end up and down to the other.
Path(d, f) ==
  Ends(d, f) \cup IF Same(d, f, Node) THEN {}
    ELSE Hops(d, f, {"UE"}, Poa) \cup IF Same(d, f, Poa) THEN {}
    ELSE Hops(d, f, NotDC, Zone) \cup IF Same(d, f, Zone) THEN {}
    ELSE Hops(d, f, NotDC, Domain) \cup IF Same(d, f, Domain) THEN {}
    ELSE {Uplink(Scenario), Downlink(Scenario)}

\* Mutant of Populated: only a new flow is to be looked at.
PopulatedOnce(d, f, x) ==
  [x EXCEPT !.path = Path(d, f), !.required = x.path = {}, !.limit = Least(d.rate[f[1]], d.rate[f[2]])]

\* populateFlow: the limit comes from the uplink rates of both ends.
Populated(d, f, x) ==
  [x EXCEPT !.path = Path(d, f), !.required = x.path # Path(d, f),
            !.limit = Least(d.rate[f[1]], d.rate[f[2]])]

\* createSegment: thresholds are percentages of the rate.
Segment(name, rate, flows) ==
  [name       |-> name,
   flows      |-> flows,
   rate       |-> rate,
   inactive   |-> Most((20 * rate) \div 100, 6 * Mbps), \* MaxBwPerInactiveFlow
   minimum    |-> (3 * rate) \div 1000,                 \* MinActivityThreshold
   step       |-> (3 * rate) \div 100,                  \* IncrementalStep
   idleStep   |-> rate \div 100,                        \* InactivityIncrementalStep
   toleration |-> (4 * rate) \div 100,                  \* TolerationThreshold
   upper      |-> rate \div 100]                        \* ActionUpperThreshold

\* ProcessScenario: the segments on the paths, each with the flows that cross it.
Segments(d, fm) ==
  [n \in UNION {fm[f].path : f \in Flows} |->
     Segment(n, d.rate[n[1]], {f \in Flows : n \in fm[f].path})]
-----------------------------------------------------------------------------
(* One segment.                                                            *)

\* updateMaxFairShareBwPerFlow.
FairShare(s, fm) ==
  LET active == {f \in s.flows : fm[f].current >= s.minimum}
  IN  IF active = {} THEN MAX_THROUGHPUT ELSE s.rate \div Cardinality(active)

Listed(S) == SelectSeq(Listing, LAMBDA f : f \in S)

\* needToReevaluate: which flows, and the bandwidth that the others leave.
Reevaluate(share, x) ==
  x.current < x.lo \/ x.current > x.hi \/ x.current >= share \/ x.required

Unused(s, share, fm) ==
  FoldLeft(LAMBDA bw, f : IF ~Reevaluate(share, fm[f]) /\ fm[f].current >= s.minimum
                          THEN bw - fm[f].allocated ELSE bw, s.rate, Listed(s.flows))

\* Bounds of a plan, on the measured throughput.
Bounded(s, bw, hi) == [bw |-> bw, hi |-> hi, lo |-> Most(hi - s.toleration, s.minimum)]

\* A little more than what the flow has.
Growing(s, x) ==
  LET bw == Least(x.current + s.step, x.limit) IN Bounded(s, bw, bw - s.upper)

Idle(s) == [bw |-> s.inactive, hi |-> s.idleStep, lo |-> 0]

\* recalculateSegmentBw, in three passes over the flows: those below the fair
\* share, those about to exceed it, and those above it.  acc is [plan, left,
\* unused]; a plan equal to the fair share marks a flow that is left.
First(s, share, fm, acc, f) ==
  LET x == fm[f]
      plan == IF x.current <= s.minimum THEN Idle(s) ELSE Growing(s, x)
  IN  IF x.current + s.step > share
      THEN [acc EXCEPT !.plan[f].bw = share]
      ELSE [plan |-> [acc.plan EXCEPT ![f] = plan], left |-> acc.left - 1,
            unused |-> acc.unused - (IF plan.bw = s.inactive THEN 0 ELSE plan.bw)]

Second(s, share, fm, acc, f) ==
  LET x == fm[f]
      rest == Least(acc.unused, x.limit)
      plan == IF acc.left = 1 THEN Bounded(s, rest, rest) ELSE Growing(s, x)
  IN  IF acc.plan[f].bw # share \/ x.current >= share THEN acc
      ELSE [plan |-> [acc.plan EXCEPT ![f] = plan], left |-> acc.left - 1,
            unused |-> acc.unused - plan.bw]

\* each: the fair share and an equal part of what remains.
Third(s, share, each, fm, acc, f) ==
  LET bw == Least(each, fm[f].limit)
      plan == [bw |-> bw, hi |-> bw - s.upper, lo |-> bw - s.upper - s.toleration]
  IN  IF acc.plan[f].bw # share \/ fm[f].current < share THEN acc
      ELSE [acc EXCEPT !.plan[f] = plan, !.unused = @ - bw]

\* All of the bandwidth goes to active flows.
Fourth(s, share, fm, plans, f) ==
  IF fm[f].current > s.minimum
  THEN [plans EXCEPT ![f] = [bw |-> Least(share, fm[f].limit), lo |-> 0, hi |-> 0]]
  ELSE plans

\* What one segment plans for every flow; list: those it looks at again.
Planned(s, share, unused, fm, list) ==
  LET old == [f \in Flows |-> fm[f].planned]
      a == FoldLeft(LAMBDA acc, f : First(s, share, fm, acc, f),
                    [plan |-> old, left |-> Len(list), unused |-> unused], list)
      b == IF a.left <= 0 THEN a
           ELSE FoldLeft(LAMBDA acc, f : Second(s, share, fm, acc, f), a, list)
      c == IF b.left <= 0 THEN b
           ELSE FoldLeft(LAMBDA acc, f : Third(s, share, b.unused \div b.left, fm, acc, f), b, list)
  IN  IF c.unused < Mbps THEN c.plan
      ELSE FoldLeft(LAMBDA plans, f : Fourth(s, share, fm, plans, f), c.plan, list)
-----------------------------------------------------------------------------
(* All segments.                                                           *)

\* reCalculateNetChar: what one segment does to the flows.
SegmentDone(s, fm) ==
  LET share == FairShare(s, fm)
      again == {f \in s.flows : Reevaluate(share, fm[f])}
      plans == Planned(s, share, Unused(s, share, fm), fm, Listed(again))
  IN  [f \in Flows |->
         [fm[f] EXCEPT !.planned = plans[f],
                       !.most = IF f \in again /\ plans[f].bw < @.bw THEN plans[f] ELSE @,
                       !.computed = IF f \in s.flows THEN @ + Latency[s.name[1]] ELSE @]]

\* getMetricsThroughputEntryHandler, resetComputedNetChar: traffic as it was shaped.
Measured(fm) ==
  [f \in Flows |-> [fm[f] EXCEPT !.current = Least(demand[f], fm[f].allocated),
                                 !.most = Unplanned, !.computed = 0]]
-----------------------------------------------------------------------------
(* ProcessScenario and the calculation that follows it.                    *)
ScenarioUpdate ==
  /\ ~busy /\ changes < MaxChanges /\ changes' = changes + 1
  /\ doc' \in Docs \ {doc}
  /\ LET fm == [f \in Flows |-> Populated(doc', f, flowMap[f])]
     IN  flowMap' = Measured(fm) /\ segmentMap' = Segments(doc', fm)
  /\ todo' = DOMAIN segmentMap' /\ busy' = TRUE
  /\ since' = 0
  /\ UNCHANGED <<demand, reported>>

\* A terminate empties both maps.
Terminate ==
  /\ ~busy /\ doc # NoDoc /\ changes < MaxChanges /\ changes' = changes + 1
  /\ doc' = NoDoc /\ segmentMap' = <<>>
  /\ flowMap' = [f \in Flows |-> NewFlow] /\ reported' = {} /\ since' = 0
  /\ UNCHANGED <<todo, busy, demand>>

CalculateNetChar ==
  /\ ~busy /\ doc # NoDoc
  /\ flowMap' = Measured(flowMap)
  /\ todo' = DOMAIN segmentMap /\ busy' = TRUE
  /\ since' = Least(since + 1, Settling)
  /\ UNCHANGED <<doc, segmentMap, demand, reported, changes>>

Visit ==
  /\ busy
  /\ \E rank \in Orders, n \in todo :
       /\ \A m \in todo : rank[n] <= rank[m]
       /\ flowMap' = SegmentDone(segmentMap[n], flowMap)
       /\ todo' = todo \ {n}
  /\ UNCHANGED <<doc, segmentMap, busy, demand, reported, since, changes>>

\* The end of CalculateNetChar: the bounds change only with the allocation.
Apply ==
  /\ busy /\ todo = {} /\ busy' = FALSE
  /\ LET Grants(x) == x.most.bw \notin {x.allocated, MAX_THROUGHPUT} /\ x.most.bw >= 0
         Applied(x) == [x EXCEPT !.latency = x.computed,
                                 !.allocated = IF Grants(x) THEN x.most.bw ELSE @,
                                 !.lo = IF Grants(x) THEN x.most.lo ELSE @,
                                 !.hi = IF Grants(x) THEN x.most.hi ELSE @]
     IN  /\ flowMap' = [f \in Flows |-> Applied(flowMap[f])]
         /\ reported' = {f \in Flows : Grants(flowMap[f]) \/ flowMap[f].computed # flowMap[f].latency}
  /\ UNCHANGED <<doc, segmentMap, todo, demand, since, changes>>

\* The traffic changes.
Ask ==
  /\ ~busy /\ doc # NoDoc /\ changes < MaxChanges /\ changes' = changes + 1
  /\ \E f \in Talkers, x \in Demands : demand' = [demand EXCEPT ![f] = x]
  /\ since' = 0
  /\ UNCHANGED <<doc, segmentMap, flowMap, todo, busy, reported>>

\* Without a scenario there is nothing to calculate.
NothingToShare == doc = NoDoc /\ UNCHANGED saVars

SaNext == ScenarioUpdate \/ Terminate \/ CalculateNetChar \/ Visit \/ Apply \/ Ask \/ NothingToShare

SaSpec == SaInit /\ [][SaNext]_saVars
-----------------------------------------------------------------------------
(* Properties.                                                             *)

\* The way between two processes, from the tree: up from the one to the first
\* element above both, and down to the other.  Only a UE has a radio segment,
\* and a cloud stands outside of zones and domains.
Meet(d, f)  == Min({k \in 1 .. 6 : Above(d, f[1])[k] = Above(d, f[2])[k]})
Climbs(d, p, top, k) ==
  k <= top /\ (k = 3 => Type(d, p) = "UE") /\ (k \in {4, 5} => Type(d, p) # "DC")
Climb(d, p, top) ==
  LET Cost(k) == IF Climbs(d, p, top, k) THEN Latency[Above(d, p)[k]] ELSE 0
  IN  Cost(1) + Cost(2) + Cost(3) + Cost(4) + Cost(5) + Cost(6)
EndToEnd(d, f) == Climb(d, f[1], Meet(d, f)) + Climb(d, f[2], Meet(d, f))

\* The latency of a flow is that of the way through the tree, whatever moved
\* before (createPath, reCalculateNetChar), unless neither end has an access
\* point: createPath takes two names that are empty for the same place (:500).
LatencyIsEndToEnd ==
  doc # NoDoc /\ ~busy => \A f \in Flows :
    flowMap[f].latency = EndToEnd(doc, f)
      \/ {Type(doc, f[1]), Type(doc, f[2])} \cap {"UE", "FOG"} = {}

\* When nothing has changed for a while, a flow has nine tenths of what it asks
\* for, or of its part of the narrowest segment on its path: the calculation
\* may go up and down for ever, but starves nobody ("we allocate all the bw to
\* active users", :775).
Part(f) ==
  Min({s.rate \div Cardinality({g \in Talkers : demand[g] > 0 /\ s.name \in flowMap[g].path})
         : s \in {segmentMap[n] : n \in flowMap[f].path}})
Served ==
  doc # NoDoc /\ ~busy /\ since = Settling =>
    \A f \in Talkers : demand[f] > 0 =>
      10 * flowMap[f].allocated >= 9 * Least(demand[f], Part(f))
=============================================================================
