--------------------------- MODULE TcEngineProofs ---------------------------
(***************************************************************************)
(* Proofs about the traffic control engine: when it is ready, everything   *)
(* it looked for has an address, unless a poller worked while the scenario *)
(* was stopped, or beside another; no address is older than the deployment *)
(* that is served; and every flow keeps a filter and a shaping rule of its *)
(* own.  For any scenarios, pods, services, pollers and changes.           *)
(***************************************************************************)
EXTENDS TcEngine, FiniteSetTheorems, TLAPS

Names     == Pods \cup Svcs
Resources == [name : Names, scenario : {d.name : d \in Docs}, address : Nat \ {0}]
Places    == {"none", "sleep", "pods", "svcs", "put", "mark", "count", "lock"}
Workers   == [at : Places, seen : SUBSET Resources, item : Resources \cup {NoItem}, read : Nat]

Types ==
  /\ active \in Docs \cup {NoDoc} /\ deployment \in Nat
  /\ active # NoDoc => deployment # 0
  /\ deployed \subseteq Names /\ (deployed # {} => active # NoDoc)
  /\ k8s \subseteq Resources
  /\ tcEngineState \in {"Idle", "Initializing", "Ready"}
  /\ DOMAIN ipMap \subseteq Names /\ \A n \in DOMAIN ipMap : ipMap[n] \in Nat
  /\ count \in [Kinds -> Nat] /\ countReq \in [Kinds -> Nat]
  /\ poller \in [Pollers -> Workers]
  /\ \A q \in Pollers : poller[q].at \in {"put", "mark", "count"} => poller[q].item \in Resources
-----------------------------------------------------------------------------
LEMMA NothingIsEmpty == DOMAIN Nothing = {}
BY DEF Nothing

LEMMA NamesAreFinite ==
  ASSUME NEW k \in Kinds, NEW S \in SUBSET Named(k)
  PROVE  IsFiniteSet(S) /\ Cardinality(S) \in Nat
BY TcAssumption, FS_Subset, FS_CardinalityType DEF Kinds, Named

(* Two sets of names that do not meet count as many as their union.         *)
LEMMA Adding ==
  ASSUME NEW k \in Kinds, NEW S \in SUBSET Named(k), NEW T \in SUBSET Named(k), S \cap T = {}
  PROVE  Cardinality(S \cup T) = Cardinality(S) + Cardinality(T)
<1>1. IsFiniteSet(S) /\ IsFiniteSet(T) /\ Cardinality(S) \in Nat /\ Cardinality(T) \in Nat
      BY NamesAreFinite
<1>2. Cardinality(S \cap T) = 0
      BY FS_EmptySet
<1>3. Cardinality(S \cup T) = Cardinality(S) + Cardinality(T) - Cardinality(S \cap T)
      BY <1>1, FS_Union
<1> QED BY <1>1, <1>2, <1>3

LEMMA KindOfName ==
  ASSUME NEW n \in Names
  PROVE  KindOf(n) \in Kinds /\ n \in Named(KindOf(n)) /\ \A k \in Kinds : n \in Named(k) => k = KindOf(n)
BY TcAssumption DEF KindOf, Kinds, Named, Names
-----------------------------------------------------------------------------
(* Types.                                                                   *)
LEMMA InitTypes == Init => Types
<1> SUFFICES ASSUME Init PROVE Types
    OBVIOUS
<1>1. DOMAIN ipMap = {}
      BY NothingIsEmpty DEF Init
<1>2. Asleep \in Workers /\ Asleep.at = "none"
      BY DEF Asleep, Workers, Places
<1>3. poller \in [Pollers -> Workers] /\ \A q \in Pollers : poller[q].at = "none"
      BY <1>2 DEF Init
<1>4. count \in [Kinds -> Nat] /\ countReq \in [Kinds -> Nat]
      BY DEF Init, ZeroOfEach
<1> QED BY <1>1, <1>3, <1>4 DEF Init, Types

LEMMA WorldTypes ==
  ASSUME Types, ScenarioChange \/ ResourceUp \/ ResourceDown \/ RulesWritten
  PROVE  Types'
<1>1. UNCHANGED <<info, derived, poller>>
      BY DEF ScenarioChange, ResourceUp, ResourceDown, RulesWritten
<1>2. CASE ScenarioChange
      BY <1>1, <1>2, TcAssumption DEF ScenarioChange, Types, NamesOf, Names, info, derived
<1>3. CASE ResourceUp
  <2>1. PICK n \in deployed : k8s' = k8s \cup {[name |-> n, scenario |-> active.name, address |-> deployment]}
        BY <1>3 DEF ResourceUp
  <2>2. active \in Docs /\ deployment # 0 /\ n \in Names
        BY <2>1 DEF Types
  <2>3. [name |-> n, scenario |-> active.name, address |-> deployment] \in Resources
        BY <2>2 DEF Types, Resources
  <2>4. UNCHANGED <<active, deployment, deployed>>
        BY <1>3 DEF ResourceUp
  <2> QED BY <1>1, <2>1, <2>3, <2>4 DEF Types, info, derived
<1>4. CASE ResourceDown
      BY <1>1, <1>4 DEF ResourceDown, Types, info, derived
<1>5. CASE RulesWritten
      BY <1>1, <1>5 DEF RulesWritten, Types, info, derived
<1> QED BY <1>2, <1>3, <1>4, <1>5

LEMMA ListenerTypes ==
  ASSUME Types, StopScenario \/ ProcessScenario \/ MgSvcMapUpdate
  PROVE  Types'
<1>1. CASE StopScenario
  <2>1. /\ DOMAIN ipMap' = {} /\ tcEngineState' = "Idle" /\ UNCHANGED <<world, poller>>
        /\ countReq' \in [Kinds -> Nat] /\ count' \in [Kinds -> Nat]
        BY <1>1, NothingIsEmpty DEF StopScenario, Receive, ZeroOfEach
  <2> QED BY <2>1 DEF Types, world
<1>2. CASE ProcessScenario
  <2>1. /\ active.pods \subseteq Pods /\ active.svcs \subseteq Svcs
        BY <1>2, TcAssumption DEF Types, ProcessScenario
  <2> DEFINE wanted == Wanted(active)
             more(k) == Cardinality((wanted \ DOMAIN ipMap) \cap Named(k))
  <2>2. wanted \subseteq Names
        BY <2>1 DEF Types, Names, Wanted
  <2>3. /\ ipMap' = [n \in wanted |-> IF n \in DOMAIN ipMap THEN ipMap[n] ELSE 0]
        /\ countReq' = [k \in Kinds |-> countReq[k] + more(k)]
        /\ UNCHANGED <<world, count>>
        BY <1>2 DEF ProcessScenario, Receive
  <2> HIDE DEF wanted
  <2>4. \A k \in Kinds : more(k) \in Nat
        BY NamesAreFinite
  <2> HIDE DEF more
  <2>5. countReq' \in [Kinds -> Nat]
        BY <2>3, <2>4 DEF Types
  <2>6. DOMAIN ipMap' \subseteq Names /\ \A n \in DOMAIN ipMap' : ipMap'[n] \in Nat
        BY <2>2, <2>3 DEF Types
  <2>7. tcEngineState' \in {"Idle", "Initializing", "Ready"}
        BY <1>2 DEF ProcessScenario, StartPoller, Types
  <2>8. /\ poller' \in [Pollers -> Workers]
        /\ \A q \in Pollers : poller'[q].at \in {"put", "mark", "count"} => poller'[q].item \in Resources
    <3>1. CASE poller' = poller
          BY <3>1 DEF Types
    <3>2. CASE \E q \in Pollers : poller' = [poller EXCEPT ![q] = [Asleep EXCEPT !.at = "sleep"]]
      <4>1. [Asleep EXCEPT !.at = "sleep"] \in Workers /\ [Asleep EXCEPT !.at = "sleep"].at = "sleep"
            BY DEF Asleep, Workers, Places
      <4> QED BY <3>2, <4>1 DEF Types
    <3> QED BY <1>2, <3>1, <3>2 DEF ProcessScenario, StartPoller
  <2> QED BY <2>3, <2>5, <2>6, <2>7, <2>8 DEF Types, world
<1>3. CASE MgSvcMapUpdate
      BY <1>3 DEF MgSvcMapUpdate, Receive, Types, world
<1> QED BY <1>1, <1>2, <1>3

(* Where a step leaves its poller.                                          *)
LEMMA PollerPlaced ==
  ASSUME Types, NEW q \in Pollers, NEW place \in Places, NEW seen \in SUBSET Resources,
         place \notin {"put", "mark", "count"},
         GoTo(q, place) \/ Scan(q, place, seen)
  PROVE  /\ poller' \in [Pollers -> Workers]
         /\ \A u \in Pollers : u # q => poller'[u] = poller[u]
         /\ poller'[q].at = place /\ (poller'[q].seen = seen \/ poller'[q].seen = {})
         /\ \A u \in Pollers : poller'[u].at \in {"put", "mark", "count"} => poller'[u].item \in Resources
<1>1. [Asleep EXCEPT !.at = place] \in Workers /\ [Asleep EXCEPT !.at = place].at = place
      /\ [Asleep EXCEPT !.at = place].seen = {}
      BY DEF Asleep, Workers
<1>2. [Asleep EXCEPT !.at = place, !.seen = seen] \in Workers /\ [Asleep EXCEPT !.at = place, !.seen = seen].at = place
      /\ [Asleep EXCEPT !.at = place, !.seen = seen].seen = seen
      BY DEF Asleep, Workers
<1>3. PICK z \in Workers : z.at = place /\ (z.seen = seen \/ z.seen = {}) /\ poller' = [poller EXCEPT ![q] = z]
      BY <1>1, <1>2 DEF GoTo, Scan
<1> QED BY <1>3 DEF Types

LEMMA PollerTypes ==
  ASSUME Types, NEW q \in Pollers,
         \/ Tick(q) \/ Look(q) \/ Put(q) \/ Mark(q) \/ Count(q) \/ ListSvcs(q) \/ Check(q)
         \/ Ready(q) \/ PollFails(q)
  PROVE  Types'
<1> DEFINE Placed == /\ poller' \in [Pollers -> Workers]
                       /\ \A u \in Pollers : poller'[u].at \in {"put", "mark", "count"} => poller'[u].item \in Resources
<1>1. CASE Tick(q) \/ ListSvcs(q) \/ Check(q) \/ Ready(q) \/ PollFails(q)
  <2>1. PICK place \in {"none", "sleep", "pods", "svcs", "lock"}, seen \in SUBSET Resources :
          GoTo(q, place) \/ Scan(q, place, seen)
    <3>1. \A S \in SUBSET k8s : S \in SUBSET Resources
          BY DEF Types
    <3>2. CASE Tick(q)
      <4>1. PICK seen \in SUBSET k8s : GoTo(q, "none") \/ Scan(q, "pods", seen)
            BY <3>2 DEF Tick
      <4> QED BY <3>1, <4>1
    <3>3. CASE ListSvcs(q)
      <4>1. PICK seen \in SUBSET k8s : Scan(q, "svcs", seen)
            BY <3>3 DEF ListSvcs
      <4> QED BY <3>1, <4>1
    <3>4. CASE Check(q)
      <4>1. PICK place \in {"sleep", "lock", "none"} : GoTo(q, place)
            BY <3>4 DEF Check
      <4> QED BY <4>1
    <3>5. CASE Ready(q) \/ PollFails(q)
      <4>1. GoTo(q, "none")
            BY <3>5 DEF Ready, PollFails
      <4> QED BY <4>1
    <3> QED BY <1>1, <3>2, <3>3, <3>4, <3>5
  <2>2. Placed
        BY <2>1, PollerPlaced DEF Places
  <2>3. UNCHANGED <<world, ipMap, countReq, count>> /\ tcEngineState' \in {tcEngineState, "Ready"}
        BY <1>1 DEF Tick, ListSvcs, Check, Ready, PollFails, info, derived
  <2> QED BY <2>2, <2>3 DEF Types, world
<1>2. CASE Look(q)
  <2> DEFINE r == CHOOSE x \in poller[q].seen : TRUE
             left == poller[q].seen \ {r}
             z == IF r.name \in DOMAIN ipMap /\ ipMap[r.name] = 0
                  THEN [poller[q] EXCEPT !.at = "put", !.seen = left, !.item = r]
                  ELSE [poller[q] EXCEPT !.seen = left]
  <2>1. poller' = [poller EXCEPT ![q] = z]
        BY <1>2 DEF Look
  <2>2. r \in poller[q].seen /\ poller[q] \in Workers /\ poller[q].at \in {"pods", "svcs"}
        BY <1>2 DEF Look, At, Types
  <2>3. r \in Resources /\ left \in SUBSET Resources
        BY <2>2 DEF Workers
  <2> HIDE DEF r, left
  <2>4. z \in Workers /\ (z.at \in {"put", "mark", "count"} => z.item \in Resources)
        BY <2>2, <2>3 DEF Workers, Places
  <2> HIDE DEF z
  <2>5. Placed
        BY <2>1, <2>4 DEF Types
  <2>6. UNCHANGED <<world, ipMap, countReq, count, tcEngineState>>
        BY <1>2 DEF Look, info, derived
  <2> QED BY <2>5, <2>6 DEF Types, world
<1>3. CASE Put(q)
  <2>1. /\ poller' = [poller EXCEPT ![q].at = "mark"] /\ poller[q].at = "put"
        /\ poller[q] \in Workers /\ poller[q].item \in Resources
        BY <1>3 DEF Put, At, Types
  <2>2. Placed
        BY <2>1 DEF Types, Workers, Places
  <2>3. /\ ipMap' = [n \in DOMAIN ipMap \cup {poller[q].item.name} |->
              IF n = poller[q].item.name THEN poller[q].item.address ELSE ipMap[n]]
        /\ UNCHANGED <<world, countReq, count, tcEngineState>>
        BY <1>3 DEF Put, derived
  <2>4. poller[q].item.name \in Names /\ poller[q].item.address \in Nat
        BY <2>1 DEF Resources
  <2>5. DOMAIN ipMap' \subseteq Names /\ \A n \in DOMAIN ipMap' : ipMap'[n] \in Nat
        BY <2>3, <2>4 DEF Types
  <2> QED BY <2>2, <2>3, <2>5 DEF Types, world
<1>4. CASE Mark(q)
  <2> DEFINE k == KindOf(poller[q].item.name)
  <2>1. /\ poller' = [poller EXCEPT ![q].at = "count", ![q].read = count[k]]
        /\ poller[q] \in Workers /\ poller[q].item \in Resources
        /\ UNCHANGED <<world, ipMap, countReq, count, tcEngineState>>
        BY <1>4 DEF Mark, At, Types, info
  <2>2. count[k] \in Nat
        BY <2>1, KindOfName DEF Resources, Types
  <2> HIDE DEF k
  <2>3. [[poller[q] EXCEPT !.at = "count"] EXCEPT !.read = count[k]] \in Workers
        BY <2>1, <2>2 DEF Workers, Places
  <2>4. Placed
    <3>1. poller'[q] = [[poller[q] EXCEPT !.at = "count"] EXCEPT !.read = count[k]]
          BY <2>1 DEF Types
    <3>2. \A u \in Pollers : u # q => poller'[u] = poller[u]
          BY <2>1 DEF Types
    <3>3. poller' \in [Pollers -> Workers]
          BY <2>1, <2>3, <3>1, <3>2 DEF Types
    <3>4. poller'[q].item = poller[q].item
          BY <2>1, <3>1 DEF Workers
    <3> QED BY <2>1, <3>2, <3>3, <3>4 DEF Types
  <2> QED BY <2>1, <2>4 DEF Types, world
<1>5. CASE Count(q)
  <2> DEFINE k == KindOf(poller[q].item.name)
  <2>1. /\ count' = [count EXCEPT ![k] = poller[q].read + 1]
        /\ Scan(q, IF k = "pod" THEN "pods" ELSE "svcs", poller[q].seen)
        /\ UNCHANGED <<world, ipMap, countReq, tcEngineState>>
        BY <1>5 DEF Count, derived
  <2>2. poller[q].read \in Nat /\ poller[q].seen \in SUBSET Resources
        BY DEF Types, Workers
  <2> HIDE DEF k
  <2>3. count' \in [Kinds -> Nat]
    <3> DEFINE c == poller[q].read + 1
    <3>1. c \in Nat
          BY <2>2
    <3>2. count' = [count EXCEPT ![k] = c]
          BY <2>1, Zenon
    <3> HIDE DEF c
    <3> QED BY <3>1, <3>2 DEF Types
  <2>4. PICK place \in {"pods", "svcs"} : Scan(q, place, poller[q].seen)
        BY <2>1
  <2>5. Placed
        BY <2>2, <2>4, PollerPlaced DEF Places
  <2> QED BY <2>1, <2>3, <2>5 DEF Types, world
<1> QED BY <1>1, <1>2, <1>3, <1>4, <1>5
-----------------------------------------------------------------------------
(* Numbers of filters.                                                       *)
(* A sequence of a finite set's elements has each of them in one place.     *)
LEMMA SetToSeqLists ==
  ASSUME NEW S, IsFiniteSet(S)
  PROVE  /\ DOMAIN SetToSeq(S) = 1 .. Len(SetToSeq(S)) /\ Len(SetToSeq(S)) \in Nat
         /\ \A s \in S : \E i \in DOMAIN SetToSeq(S) : SetToSeq(S)[i] = s
<1> DEFINE n == Cardinality(S)
<1>1. n \in Nat /\ ExistsBijection(1 .. n, S)
      BY FS_CardinalityType
<1>2. PICK f \in [1 .. n -> S] : IsInjective(f)
      BY <1>1 DEF ExistsBijection, Bijection, Injection
<1>3. SetToSeq(S) \in [1 .. n -> S] /\ IsInjective(SetToSeq(S))
      BY <1>2 DEF SetToSeq
<1>4. SetToSeq(S) \in Surjection(1 .. n, S)
  <2>1. SetToSeq(S) \in Injection(1 .. n, S)
        BY <1>3 DEF Injection
  <2>2. Cardinality(1 .. n) = n
        BY <1>1, FS_Interval
  <2> QED BY <2>1, <2>2, FS_Injection
<1> HIDE DEF n
<1>5. DOMAIN SetToSeq(S) = 1 .. n /\ Len(SetToSeq(S)) = n
      BY <1>1, <1>3
<1> QED BY <1>1, <1>4, <1>5 DEF Surjection

Filters(p) == netElemMap[p].filters
Elements   == DOMAIN netElemMap

(* Numbering one element: old numbers stay, new ones differ and lie between *)
(* the old and the new next number.                                         *)
LEMMA NumbersAreNew ==
  ASSUME NEW e, e.next \in Nat \ {0}, NEW sources \in SUBSET Pods
  PROVE  LET n == Numbered(e, sources)
         IN  /\ DOMAIN n = {"ip", "next", "filters"} /\ n.ip = e.ip
             /\ DOMAIN n.filters = sources \cup DOMAIN e.filters
             /\ n.next \in Nat \ {0} /\ n.next >= e.next
             /\ \A s \in DOMAIN e.filters : n.filters[s] = e.filters[s]
             /\ \A s \in sources \ DOMAIN e.filters :
                  n.filters[s] \in Nat /\ n.filters[s] >= e.next /\ n.filters[s] < n.next
             /\ \A s, t \in sources \ DOMAIN e.filters : n.filters[s] = n.filters[t] => s = t
<1> DEFINE added == sources \ DOMAIN e.filters
           new   == SetToSeq(added)
           place(s) == CHOOSE i \in DOMAIN new : new[i] = s
           n == Numbered(e, sources)
<1>1. IsFiniteSet(added)
      BY TcAssumption, FS_Subset
<1>2. /\ DOMAIN new = 1 .. Len(new) /\ Len(new) \in Nat
      /\ \A s \in added : \E i \in DOMAIN new : new[i] = s
      BY <1>1, SetToSeqLists
<1>3. n = [ip |-> e.ip, next |-> e.next + Len(new),
           filters |-> [s \in sources \cup DOMAIN e.filters |->
                          IF s \in DOMAIN e.filters THEN e.filters[s] ELSE e.next - 1 + place(s)]]
      BY DEF Numbered
<1> HIDE DEF new, n
<1>4. \A s \in added : place(s) \in DOMAIN new /\ new[place(s)] = s
      BY <1>2
<1>5. \A s \in added : n.filters[s] = e.next - 1 + place(s)
      BY <1>3
<1> HIDE DEF place
<1>6. \A s \in added : place(s) \in 1 .. Len(new)
      BY <1>2, <1>4
<1>7. n.next = e.next + Len(new)
      BY <1>3
<1>8. \A s \in added : n.filters[s] \in Nat /\ n.filters[s] >= e.next /\ n.filters[s] < n.next
      BY <1>2, <1>5, <1>6, <1>7
<1>9. \A s, t \in added : n.filters[s] = n.filters[t] => s = t
  <2> SUFFICES ASSUME NEW s \in added, NEW t \in added, n.filters[s] = n.filters[t] PROVE s = t
      OBVIOUS
  <2>1. place(s) = place(t)
        BY <1>5, <1>6
  <2> QED BY <1>4, <2>1
<1>10. n.next \in Nat \ {0} /\ n.next >= e.next
      BY <1>2, <1>7
<1> QED BY <1>3, <1>8, <1>9, <1>10 DEF n

Unfiltered == \A p \in Elements : DOMAIN Filters(p) = {}
Settled    == \A p \in Elements : DOMAIN Filters(p) = Elements \ {p}
Ahead      == \A p \in Elements : \A s \in DOMAIN Filters(p) :
                Filters(p)[s] \in Nat /\ Filters(p)[s] < netElemMap[p].next
Owned      == \A p \in Elements : \A s \in DOMAIN Filters(p) :
                LET key == <<p, Filters(p)[s]>>
                IN  key \in DOMAIN netRules /\ netRules[key].src = s

ElementTypes ==
  /\ Elements \subseteq Pods
  /\ \A p \in Elements : /\ DOMAIN netElemMap[p] = {"ip", "next", "filters"}
                         /\ netElemMap[p].next \in Nat \ {0}
                         /\ DOMAIN Filters(p) \subseteq Elements \ {p}

(* In one activation the elements get filters once, all they can have.  A   *)
(* poller that starts the numbers of an element again does no harm after    *)
(* that: there is nothing left to number, until the engine is declared      *)
(* ready once more with the elements of another deployment.                 *)
Numbering ==
  /\ ElementTypes
  /\ served \in Nat /\ served <= deployment /\ (served = 0 => Elements = {})
  /\ active # NoDoc /\ served = deployment => active.pods \subseteq Elements
  /\ tcEngineState # "Ready" => Unfiltered
  /\ ~skipped => Unfiltered \/ Settled
  /\ ~(late /\ skipped) => Owned

LEMMA NumberingOwns == Numbering => FlowsHaveOwnRules
BY DEF Numbering, FlowsHaveOwnRules, Owned, Elements, Filters

LEMMA InitNumbering == Init => Numbering
BY NothingIsEmpty DEF Init, Numbering, ElementTypes, Elements, Unfiltered, Owned

(* What a step that writes no filters and no rules has to show.             *)
LEMMA NumberingUnchanged ==
  ASSUME Numbering,
         UNCHANGED <<tcEngineState, netElemMap, netRules, late, skipped, served>>,
         deployment' >= served,
         active' # NoDoc /\ served = deployment' => active'.pods \subseteq Elements
  PROVE  Numbering'
BY DEF Numbering, ElementTypes, Elements, Filters, Unfiltered, Settled, Owned

LEMMA WorldNumbering ==
  ASSUME Types, Numbering, ScenarioChange \/ ResourceUp \/ ResourceDown \/ RulesWritten
  PROVE  Numbering'
<1>1. UNCHANGED <<tcEngineState, netElemMap, netRules, late, skipped, served>>
      BY DEF ScenarioChange, ResourceUp, ResourceDown, RulesWritten, info, derived
<1>2. CASE ScenarioChange
  <2>1. deployment' = IF active = NoDoc THEN deployment + 1 ELSE deployment
        BY <1>2 DEF ScenarioChange
  <2>2. CASE active = NoDoc
        BY <1>1, <2>1, <2>2, NumberingUnchanged DEF Types, Numbering
  <2>3. CASE active # NoDoc /\ active' # NoDoc
    <3>1. active \in Docs /\ active' \in Docs /\ NamesOf(active') \subseteq NamesOf(active)
          BY <1>2, <2>3 DEF Types, ScenarioChange
    <3>2. active'.pods \subseteq active.pods
          BY <2>3, <3>1, TcAssumption DEF NamesOf
    <3> QED BY <1>1, <2>1, <2>3, <3>2, NumberingUnchanged DEF Types, Numbering
  <2>4. CASE active # NoDoc /\ active' = NoDoc
        BY <1>1, <2>1, <2>4, NumberingUnchanged DEF Types, Numbering
  <2> QED BY <2>2, <2>3, <2>4
<1>3. CASE ResourceUp \/ ResourceDown \/ RulesWritten
      BY <1>1, <1>3, NumberingUnchanged DEF ResourceUp, ResourceDown, RulesWritten, Numbering
<1> QED BY <1>2, <1>3

LEMMA ListenerNumbering ==
  ASSUME Types, Numbering, StopScenario \/ ProcessScenario \/ MgSvcMapUpdate
  PROVE  Numbering'
<1>1. CASE StopScenario
  <2>1. /\ netElemMap' = Nothing /\ netRules' = Nothing /\ served' = 0 /\ active' = NoDoc
        /\ deployment' = deployment /\ skipped' = FALSE
        BY <1>1 DEF StopScenario, Receive, world
  <2>2. Elements' = {}
        BY <2>1, NothingIsEmpty DEF Elements
  <2> QED BY <2>1, <2>2 DEF Types, Numbering, ElementTypes, Unfiltered, Owned
<1>2. CASE ProcessScenario
  <2>1. /\ active # NoDoc /\ active \in Docs /\ active.pods \subseteq Pods
        BY <1>2, TcAssumption DEF ProcessScenario, Types
  <2>2. /\ served' = deployment /\ skipped' = (skipped \/ Another)
        /\ UNCHANGED <<world, netRules, late>>
        /\ netElemMap' = [p \in DOMAIN netElemMap \cup active.pods |->
             IF p \in DOMAIN netElemMap THEN netElemMap[p] ELSE [ip |-> IF p \in DOMAIN ipMap THEN ipMap[p] ELSE 0, next |-> 1, filters |-> Nothing]]
        /\ tcEngineState' \in {"Initializing", "Ready"} /\ (tcEngineState' = "Ready" <=> tcEngineState = "Ready")
        BY <1>2 DEF ProcessScenario, Receive, StartPoller, Types
  <2>3. /\ Elements' = Elements \cup active.pods
        /\ \A p \in Elements : netElemMap'[p] = netElemMap[p] /\ Filters(p)' = Filters(p)
        /\ \A p \in Elements' : p \notin Elements =>
             /\ netElemMap'[p].next = 1 /\ DOMAIN netElemMap'[p] = {"ip", "next", "filters"}
             /\ DOMAIN Filters(p)' = {}
        BY <2>2, NothingIsEmpty DEF Elements, Filters
  <2>4. ElementTypes'
    <3>1. \A p \in Elements : /\ DOMAIN netElemMap'[p] = {"ip", "next", "filters"}
                              /\ netElemMap'[p].next \in Nat \ {0}
                              /\ DOMAIN Filters(p)' \subseteq Elements' \ {p}
          BY <2>3 DEF Numbering, ElementTypes
    <3>2. \A p \in Elements' : p \notin Elements =>
            /\ DOMAIN netElemMap'[p] = {"ip", "next", "filters"}
            /\ netElemMap'[p].next \in Nat \ {0}
            /\ DOMAIN Filters(p)' \subseteq Elements' \ {p}
          BY <2>3
    <3>3. Elements' \subseteq Pods
          BY <2>1, <2>3 DEF Numbering, ElementTypes
    <3> QED BY <3>1, <3>2, <3>3 DEF ElementTypes
  <2>5. ~skipped' => Unfiltered' \/ Settled'
    <3>1. ASSUME ~skipped', Unfiltered PROVE Unfiltered'
          BY <2>3, <3>1 DEF Unfiltered
    <3>2. ASSUME ~skipped', Settled PROVE Unfiltered' \/ Settled'
      <4>1. CASE served = 0
            BY <2>3, <4>1 DEF Numbering, Unfiltered
      <4>2. CASE served = deployment
        <5>1. Elements' = Elements
              BY <2>1, <2>3, <4>2 DEF Numbering
        <5> QED BY <2>3, <3>2, <5>1 DEF Settled
      <4> QED BY <2>2, <3>2, <4>1, <4>2 DEF Another
    <3> QED BY <2>2, <3>1, <3>2 DEF Numbering
  <2>6. ~(late' /\ skipped') => Owned'
    <3>1. ASSUME Owned PROVE Owned'
      <4> SUFFICES ASSUME NEW p \in Elements', NEW s \in DOMAIN Filters(p)'
                   PROVE  LET key == <<p, Filters(p)'[s]>> IN key \in DOMAIN netRules' /\ netRules'[key].src = s
          BY DEF Owned
      <4>1. p \in Elements /\ Filters(p)' = Filters(p)
            BY <2>3
      <4> QED BY <2>2, <3>1, <4>1 DEF Owned
    <3> QED BY <2>2, <3>1 DEF Numbering
  <2>7. tcEngineState' # "Ready" => Unfiltered'
        BY <2>2, <2>3 DEF Numbering, Unfiltered
  <2>8. /\ served' \in Nat /\ served' <= deployment' /\ served' # 0
        /\ active'.pods \subseteq Elements'
        BY <2>1, <2>2, <2>3 DEF Types, world
  <2> QED BY <2>4, <2>5, <2>6, <2>7, <2>8 DEF Numbering
<1>3. CASE MgSvcMapUpdate
      BY <1>3, NumberingUnchanged DEF MgSvcMapUpdate, Receive, world, Numbering
<1> QED BY <1>1, <1>2, <1>3
-----------------------------------------------------------------------------(* An address that is stored starts the numbers of a pod again.             *)
LEMMA MarkNumbering ==
  ASSUME Numbering, NEW q \in Pollers, Mark(q)
  PROVE  Numbering'
<1>1. /\ netElemMap' = [p \in DOMAIN netElemMap |->
           IF p = poller[q].item.name THEN [netElemMap[p] EXCEPT !.ip = poller[q].item.address, !.next = 1]
           ELSE netElemMap[p]]
      /\ UNCHANGED <<world, tcEngineState, netRules, late, skipped, served>>
      BY DEF Mark, info
<1>2. Elements' = Elements
      BY <1>1 DEF Elements
<1>3. \A p \in Elements : /\ DOMAIN netElemMap'[p] = {"ip", "next", "filters"}
                          /\ netElemMap'[p].next \in Nat \ {0}
                          /\ Filters(p)' = Filters(p)
  <2> SUFFICES ASSUME NEW p \in Elements
               PROVE  /\ DOMAIN netElemMap'[p] = {"ip", "next", "filters"}
                      /\ netElemMap'[p].next \in Nat \ {0}
                      /\ netElemMap'[p].filters = netElemMap[p].filters
      BY DEF Filters
  <2>1. DOMAIN netElemMap[p] = {"ip", "next", "filters"} /\ netElemMap[p].next \in Nat \ {0}
        BY DEF Numbering, ElementTypes
  <2>2. netElemMap'[p] = IF p = poller[q].item.name
                         THEN [netElemMap[p] EXCEPT !.ip = poller[q].item.address, !.next = 1]
                         ELSE netElemMap[p]
        BY <1>1 DEF Elements
  <2> QED BY <2>1, <2>2
<1>4. ElementTypes'
      BY <1>2, <1>3 DEF Numbering, ElementTypes
<1>5. Owned => Owned'
  <2> SUFFICES ASSUME Owned, NEW p \in Elements', NEW s \in DOMAIN Filters(p)'
               PROVE  LET key == <<p, Filters(p)'[s]>> IN key \in DOMAIN netRules' /\ netRules'[key].src = s
      BY DEF Owned
  <2>1. p \in Elements /\ Filters(p)' = Filters(p)
        BY <1>2, <1>3
  <2> QED BY <1>1, <2>1 DEF Owned
<1>6. (Unfiltered => Unfiltered') /\ (Settled => Settled')
      BY <1>2, <1>3 DEF Unfiltered, Settled
<1> QED BY <1>1, <1>2, <1>4, <1>5, <1>6 DEF Numbering, world

(* Getting ready: all filters that can be, and a rule for each new one.     *)
LEMMA NumberedElements ==
  ASSUME ElementTypes, netElemMap' = WithFilters(netElemMap)
  PROVE  /\ Elements' = Elements /\ ElementTypes' /\ Settled'
         /\ \A p \in Elements :
              /\ netElemMap'[p].ip = netElemMap[p].ip
              /\ netElemMap'[p].next >= netElemMap[p].next
              /\ \A s \in DOMAIN Filters(p) : Filters(p)'[s] = Filters(p)[s]
              /\ \A s \in DOMAIN Filters(p)' \ DOMAIN Filters(p) :
                   /\ Filters(p)'[s] \in Nat /\ Filters(p)'[s] >= netElemMap[p].next
                   /\ Filters(p)'[s] < netElemMap'[p].next
              /\ \A s, t \in DOMAIN Filters(p)' \ DOMAIN Filters(p) :
                   Filters(p)'[s] = Filters(p)'[t] => s = t
<1>1. Elements' = Elements
      BY DEF WithFilters, Elements
<1>2. ASSUME NEW p \in Elements
      PROVE  /\ DOMAIN netElemMap'[p] = {"ip", "next", "filters"} /\ netElemMap'[p].ip = netElemMap[p].ip /\ netElemMap'[p].next \in Nat \ {0}
             /\ DOMAIN Filters(p)' = Elements \ {p}
             /\ netElemMap'[p].next >= netElemMap[p].next
             /\ \A s \in DOMAIN Filters(p) : Filters(p)'[s] = Filters(p)[s]
             /\ \A s \in DOMAIN Filters(p)' \ DOMAIN Filters(p) :
                  /\ Filters(p)'[s] \in Nat /\ Filters(p)'[s] >= netElemMap[p].next
                  /\ Filters(p)'[s] < netElemMap'[p].next
             /\ \A s, t \in DOMAIN Filters(p)' \ DOMAIN Filters(p) :
                  Filters(p)'[s] = Filters(p)'[t] => s = t
  <2> DEFINE e == netElemMap[p]
             sources == Elements \ {p}
             n == Numbered(e, sources)
  <2>1. netElemMap'[p] = n
        BY DEF WithFilters, Elements
  <2>2. e.next \in Nat \ {0} /\ sources \in SUBSET Pods /\ DOMAIN e.filters \subseteq sources
        BY DEF ElementTypes, Filters
  <2> HIDE DEF e, sources, n
  <2>3. /\ DOMAIN n = {"ip", "next", "filters"} /\ n.ip = e.ip
        /\ DOMAIN n.filters = sources \cup DOMAIN e.filters
        /\ n.next \in Nat \ {0} /\ n.next >= e.next
        /\ \A s \in DOMAIN e.filters : n.filters[s] = e.filters[s]
        /\ \A s \in sources \ DOMAIN e.filters :
             n.filters[s] \in Nat /\ n.filters[s] >= e.next /\ n.filters[s] < n.next
        /\ \A s, t \in sources \ DOMAIN e.filters : n.filters[s] = n.filters[t] => s = t
        BY <2>2, NumbersAreNew DEF n
  <2>4. Filters(p)' = n.filters /\ Filters(p) = e.filters /\ DOMAIN n.filters = sources
        BY <2>1, <2>2, <2>3 DEF Filters, e
  <2> QED BY <2>1, <2>3, <2>4 DEF e, sources
<1>3. ElementTypes' /\ Settled'
      BY <1>1, <1>2 DEF ElementTypes, Settled
<1> QED BY <1>1, <1>2, <1>3

\* The rules after it: those of the new filters, and the old ones.
LEMMA WrittenRules ==
  ASSUME ElementTypes, netElemMap' = WithFilters(netElemMap), netRules' = NewRules(netElemMap, netElemMap'),
         NEW p \in Elements, NEW s \in DOMAIN Filters(p)'
  PROVE  LET key == <<p, Filters(p)'[s]>>
             hit == \E t \in DOMAIN Filters(p)' \ DOMAIN Filters(p) : Filters(p)'[t] = Filters(p)'[s]
         IN  /\ hit => /\ key \in DOMAIN netRules'
                       /\ \E t \in DOMAIN Filters(p)' \ DOMAIN Filters(p) :
                            Filters(p)'[t] = Filters(p)'[s] /\ netRules'[key].src = t
             /\ ~hit /\ key \in DOMAIN netRules => key \in DOMAIN netRules' /\ netRules'[key] = netRules[key]
<1>1. PICK elems : elems = netElemMap'
      OBVIOUS
<1> DEFINE fresh == {f \in Pods \X Pods :
                       /\ f[1] \in DOMAIN elems /\ f[2] \in DOMAIN elems[f[1]].filters
                       /\ f[2] \notin DOMAIN netElemMap[f[1]].filters}
           Key(f)  == <<f[1], elems[f[1]].filters[f[2]]>>
           Rule(x) == [src |-> x, ip |-> elems[x].ip]
           keys    == {Key(f) : f \in fresh}
           chosen(x) == CHOOSE f \in fresh : Key(f) = x
           key     == <<p, Filters(p)'[s]>>
           new     == DOMAIN Filters(p)' \ DOMAIN Filters(p)
<1>2. netRules' = [x \in DOMAIN netRules \cup keys |-> IF x \in keys THEN Rule(chosen(x)[2]) ELSE netRules[x]]
      BY <1>1 DEF NewRules
<1>3. Filters(p)' = elems[p].filters /\ Filters(p) = netElemMap[p].filters
      BY <1>1 DEF Filters
<1>4. DOMAIN elems = Elements /\ p \in Pods /\ DOMAIN Filters(p)' \subseteq Pods
      BY <1>1, NumberedElements DEF ElementTypes, Elements
<1>5. \A t \in new : <<p, t>> \in fresh /\ Key(<<p, t>>) = <<p, Filters(p)'[t]>>
      BY <1>3, <1>4
<1>6. \A f \in fresh : Key(f) = key => f[1] = p /\ f[2] \in new /\ Filters(p)'[f[2]] = Filters(p)'[s]
      BY <1>3
<1> HIDE DEF fresh, Key, key
<1>7. ASSUME NEW t \in new, Filters(p)'[t] = Filters(p)'[s]
      PROVE  key \in DOMAIN netRules' /\ \E u \in new : Filters(p)'[u] = Filters(p)'[s] /\ netRules'[key].src = u
  <2>1. key \in keys
        BY <1>5, <1>7 DEF key
  <2>2. chosen(key) \in fresh /\ Key(chosen(key)) = key
        BY <2>1
  <2>3. key \in DOMAIN netRules' /\ netRules'[key].src = chosen(key)[2]
        BY <1>2, <2>1
  <2> QED BY <1>6, <2>2, <2>3
<1>8. ASSUME \A t \in new : Filters(p)'[t] # Filters(p)'[s], key \in DOMAIN netRules
      PROVE  key \in DOMAIN netRules' /\ netRules'[key] = netRules[key]
  <2>1. key \notin keys
        BY <1>6, <1>8
  <2> QED BY <1>2, <1>8, <2>1
<1> QED BY <1>7, <1>8 DEF key

LEMMA ReadyNumbering ==
  ASSUME Numbering, NEW q \in Pollers, Ready(q)
  PROVE  Numbering'
<1>1. /\ tcEngineState' = "Ready" /\ late' = (late \/ tcEngineState # "Initializing" \/ ~Complete(count, countReq))
      /\ netElemMap' = WithFilters(netElemMap) /\ netRules' = NewRules(netElemMap, netElemMap')
      /\ UNCHANGED <<world, served, skipped>>
      BY DEF Ready
<1> USE DEF Numbering
<1>2. /\ Elements' = Elements /\ ElementTypes' /\ Settled'
      /\ \A p \in Elements :
           /\ netElemMap[p].next \in Nat /\ netElemMap'[p].next \in Nat
           /\ netElemMap'[p].next >= netElemMap[p].next
           /\ \A s \in DOMAIN Filters(p) : Filters(p)'[s] = Filters(p)[s]
           /\ \A s \in DOMAIN Filters(p)' \ DOMAIN Filters(p) :
                /\ Filters(p)'[s] \in Nat /\ Filters(p)'[s] >= netElemMap[p].next
                /\ Filters(p)'[s] < netElemMap'[p].next
           /\ \A s, t \in DOMAIN Filters(p)' \ DOMAIN Filters(p) :
                Filters(p)'[s] = Filters(p)'[t] => s = t
      BY <1>1, NumberedElements DEF ElementTypes
<1>3. Ahead /\ Owned => Owned'
  <2> SUFFICES ASSUME Ahead, Owned, NEW p \in Elements, NEW s \in DOMAIN Filters(p)'
               PROVE  LET key == <<p, Filters(p)'[s]>> IN key \in DOMAIN netRules' /\ netRules'[key].src = s
      BY <1>2 DEF Owned
  <2> DEFINE new == DOMAIN Filters(p)' \ DOMAIN Filters(p)
             key == <<p, Filters(p)'[s]>>
  <2>1. CASE s \in new
    <3>1. PICK t \in new : Filters(p)'[t] = Filters(p)'[s] /\ key \in DOMAIN netRules' /\ netRules'[key].src = t
          BY <1>1, <2>1, WrittenRules
    <3>2. t = s
          BY <1>2, <2>1, <3>1
    <3> QED BY <3>1, <3>2
  <2>2. CASE s \in DOMAIN Filters(p)
    <3>1. /\ Filters(p)'[s] = Filters(p)[s] /\ Filters(p)[s] \in Nat /\ Filters(p)[s] < netElemMap[p].next
          /\ key \in DOMAIN netRules /\ netRules[key].src = s
          BY <1>2, <2>2 DEF Ahead, Owned
    <3>2. \A t \in new : Filters(p)'[t] # Filters(p)'[s]
      <4> SUFFICES ASSUME NEW t \in new, Filters(p)'[t] = Filters(p)'[s] PROVE FALSE
          OBVIOUS
      <4>1. Filters(p)'[t] \in Nat /\ Filters(p)'[t] >= netElemMap[p].next /\ netElemMap[p].next \in Nat
            BY <1>2
      <4> QED BY <3>1, <4>1
    <3>3. key \in DOMAIN netRules' /\ netRules'[key] = netRules[key]
          BY <1>1, <3>1, <3>2, WrittenRules
    <3> QED BY <3>1, <3>3
  <2> QED BY <2>1, <2>2
<1>4. Settled /\ Owned => Owned'
  <2> SUFFICES ASSUME Settled, Owned, NEW p \in Elements, NEW s \in DOMAIN Filters(p)'
               PROVE  LET key == <<p, Filters(p)'[s]>> IN key \in DOMAIN netRules' /\ netRules'[key].src = s
      BY <1>2 DEF Owned
  <2> DEFINE key == <<p, Filters(p)'[s]>>
  <2>1. DOMAIN Filters(p)' = DOMAIN Filters(p)
        BY <1>2 DEF Settled
  <2>2. key \in DOMAIN netRules /\ netRules[key].src = s
        BY <1>2, <2>1 DEF Owned
  <2>3. key \in DOMAIN netRules' /\ netRules'[key] = netRules[key]
        BY <1>1, <2>1, <2>2, WrittenRules
  <2> QED BY <2>2, <2>3
<1>5. Unfiltered => Ahead
      BY DEF Unfiltered, Ahead
<1>6. ~(late' /\ skipped') => Owned'
      BY <1>1, <1>3, <1>4, <1>5
<1> QED BY <1>1, <1>2, <1>6 DEF world
LEMMA PollerNumbering ==
  ASSUME Numbering, NEW q \in Pollers,
         \/ Tick(q) \/ Look(q) \/ Put(q) \/ Mark(q) \/ Count(q) \/ ListSvcs(q) \/ Check(q)
         \/ Ready(q) \/ PollFails(q)
  PROVE  Numbering'
<1>1. CASE Tick(q) \/ Look(q) \/ Put(q) \/ Count(q) \/ ListSvcs(q) \/ Check(q) \/ PollFails(q)
  <2>1. UNCHANGED <<world, tcEngineState, netElemMap, netRules, late, skipped, served>>
        BY <1>1 DEF Tick, Look, Put, Count, ListSvcs, Check, PollFails, info, derived
  <2> QED BY <2>1, NumberingUnchanged DEF Numbering, world
<1>2. CASE Mark(q)
      BY <1>2, MarkNumbering
<1>3. CASE Ready(q)
      BY <1>3, ReadyNumbering
<1> QED BY <1>1, <1>2, <1>3


LEMMA TypesStep == Types /\ [Next]_vars => Types'
<1> SUFFICES ASSUME Types, [Next]_vars PROVE Types'
    OBVIOUS
<1>1. CASE ScenarioChange \/ ResourceUp \/ ResourceDown \/ RulesWritten
      BY <1>1, WorldTypes
<1>2. CASE StopScenario \/ ProcessScenario \/ MgSvcMapUpdate
      BY <1>2, ListenerTypes
<1>3. ASSUME NEW q \in Pollers,
             \/ Tick(q) \/ Look(q) \/ Put(q) \/ Mark(q) \/ Count(q) \/ ListSvcs(q) \/ Check(q)
             \/ Ready(q) \/ PollFails(q)
      PROVE  Types'
      BY <1>3, PollerTypes
<1>4. CASE UNCHANGED vars
      BY <1>4 DEF vars, world, info, derived, Types
<1> QED BY <1>1, <1>2, <1>3, <1>4 DEF Next

LEMMA NumberingStep == Types /\ Numbering /\ [Next]_vars => Numbering'
<1> SUFFICES ASSUME Types, Numbering, [Next]_vars PROVE Numbering'
    OBVIOUS
<1>1. CASE ScenarioChange \/ ResourceUp \/ ResourceDown \/ RulesWritten
      BY <1>1, WorldNumbering
<1>2. CASE StopScenario \/ ProcessScenario \/ MgSvcMapUpdate
      BY <1>2, ListenerNumbering
<1>3. ASSUME NEW q \in Pollers,
             \/ Tick(q) \/ Look(q) \/ Put(q) \/ Mark(q) \/ Count(q) \/ ListSvcs(q) \/ Check(q)
             \/ Ready(q) \/ PollFails(q)
      PROVE  Numbering'
      BY <1>3, PollerNumbering
<1>4. CASE UNCHANGED vars
      BY <1>4, NumberingUnchanged DEF vars, world, info, derived, Numbering
<1> QED BY <1>1, <1>2, <1>3, <1>4 DEF Next

\* Every flow has a rule of its own under its number, unless in one activation
\* a poller declared the engine ready too late and another deployment followed
\* without a stop: for any scenarios, number of pollers, changes and failures.
THEOREM FlowsKeepTheirRules == Spec => []FlowsHaveOwnRules
<1>1. Init => Types /\ Numbering
      BY InitTypes, InitNumbering
<1>2. Types /\ Numbering /\ [Next]_vars => Types' /\ Numbering'
      BY TypesStep, NumberingStep
<1> QED BY <1>1, <1>2, NumberingOwns, PTL DEF Spec
-----------------------------------------------------------------------------
(* The counters count what was looked for, and what was found: but for the  *)
(* address that a poller has stored and not counted yet.                    *)
Storing     == {q \in Pollers : poller[q].at \in {"mark", "count"}}
Uncounted   == {poller[q].item.name : q \in Storing}
Sought(k)   == DOMAIN ipMap \cap Named(k)
Resolved(k) == {n \in DOMAIN ipMap \cap Named(k) : ipMap[n] # 0 /\ n \notin Uncounted}

Counted == \A k \in Kinds : /\ countReq[k] = Cardinality(Sought(k))
                            /\ count[k] = Cardinality(Resolved(k))

(* A poller works alone, on what is still missing, and what it read holds.  *)
Alone == \A q, u \in AtWork : q = u

Holding ==
  \A q \in Pollers :
    LET w == poller[q]  n == w.item.name
    IN  /\ w.at = "put" => n \in DOMAIN ipMap /\ ipMap[n] = 0
        /\ w.at \in {"mark", "count"} => n \in DOMAIN ipMap /\ ipMap[n] # 0
        /\ w.at = "mark" => ipMap[n] = w.item.address
        /\ w.at = "count" => w.read = count[KindOf(n)]
        /\ w.at = "lock" => Complete(count, countReq)

Agreeing == \A p \in Elements \cap DOMAIN ipMap :
              \/ netElemMap[p].ip = ipMap[p]
              \/ \E q \in Pollers : poller[q].at = "mark" /\ poller[q].item.name = p

Orderly ==
  /\ Counted /\ Alone /\ Holding /\ Agreeing
  /\ AtWork # {} => tcEngineState = "Initializing"
  /\ tcEngineState # "Idle" => scenarioName # NoDoc

(* Until it is ready the engine has no rules and knows no element that it   *)
(* does not look for.                                                       *)
Preparing == tcEngineState # "Ready" => DOMAIN netRules = {} /\ Elements \subseteq DOMAIN ipMap

IInv ==
  /\ Types /\ Numbering /\ Preparing
  /\ ~overlapped /\ ~crowded => Orderly
  /\ ReadyIsComplete

(* When the counters are equal everything was found.                        *)
LEMMA EqualCounts ==
  ASSUME Types, Counted, Complete(count, countReq), NEW n \in DOMAIN ipMap
  PROVE  ipMap[n] # 0
<1>1. PICK k \in Kinds : n \in Named(k)
      BY DEF Types, Kinds, Named, Names
<1>2. Resolved(k) \subseteq Sought(k) /\ Sought(k) \in SUBSET Named(k)
      BY DEF Resolved, Sought
<1>3. Cardinality(Resolved(k)) = Cardinality(Sought(k))
      BY DEF Counted, Complete
<1>4. Resolved(k) = Sought(k)
      BY <1>2, <1>3, NamesAreFinite, FS_Subset
<1> QED BY <1>1, <1>4 DEF Resolved, Sought

LEMMA InitOrderly == Init => Preparing /\ Orderly /\ ReadyIsComplete
<1> SUFFICES ASSUME Init PROVE Preparing /\ Orderly /\ ReadyIsComplete
    OBVIOUS
<1>1. DOMAIN ipMap = {} /\ DOMAIN netRules = {} /\ DOMAIN netElemMap = {}
      BY NothingIsEmpty DEF Init
<1>2. \A q \in Pollers : poller[q].at = "none"
      BY DEF Init, Asleep
<1>3. AtWork = {}
      BY <1>2 DEF AtWork
<1>4. Counted
      BY <1>1, FS_EmptySet DEF Init, Counted, Sought, Resolved, ZeroOfEach
<1>5. Holding
      BY <1>2 DEF Holding
<1>6. Agreeing /\ Alone /\ Preparing
      BY <1>1, <1>3 DEF Agreeing, Alone, Elements, Preparing
<1> QED BY <1>3, <1>4, <1>5, <1>6 DEF Init, Orderly, ReadyIsComplete
-----------------------------------------------------------------------------
(* Steps that leave the engine alone.                                       *)
LEMMA EngineUnchanged ==
  ASSUME IInv,
         UNCHANGED <<tcEngineState, scenarioName, ipMap, countReq, count, netElemMap, netRules,
                     poller, overlapped, crowded>>
  PROVE  Preparing' /\ (~overlapped' /\ ~crowded' => Orderly') /\ ReadyIsComplete'
<1>1. UNCHANGED <<Storing, AtWork, Elements, Uncounted>>
      BY DEF Storing, AtWork, Elements, Uncounted
<1>2. \A k \in Kinds : UNCHANGED <<Sought(k), Resolved(k)>>
      BY <1>1 DEF Sought, Resolved
<1>3. Counted => Counted'
      BY <1>2 DEF Counted
<1>4. (Alone => Alone') /\ (Holding => Holding') /\ (Agreeing => Agreeing')
      BY <1>1 DEF Alone, Holding, Agreeing
<1>5. Orderly => Orderly'
      BY <1>1, <1>3, <1>4 DEF Orderly
<1>6. Preparing' /\ ReadyIsComplete'
      BY <1>1 DEF IInv, Preparing, ReadyIsComplete
<1> QED BY <1>5, <1>6 DEF IInv

LEMMA QuietSteps ==
  ASSUME IInv,
         ScenarioChange \/ ResourceUp \/ ResourceDown \/ RulesWritten \/ MgSvcMapUpdate \/ UNCHANGED vars
  PROVE  Preparing' /\ (~overlapped' /\ ~crowded' => Orderly') /\ ReadyIsComplete'
<1>1. UNCHANGED <<tcEngineState, scenarioName, ipMap, countReq, count, netElemMap, netRules,
                  poller, overlapped, crowded>>
      BY DEF ScenarioChange, ResourceUp, ResourceDown, RulesWritten, MgSvcMapUpdate, vars, info, derived
<1> QED BY <1>1, EngineUnchanged

(* A step of a poller that writes nothing but where it is.                  *)
LEMMA PollerMoves ==
  ASSUME IInv, NEW q \in Pollers, NEW z,
         poller' = [poller EXCEPT ![q] = z],
         poller[q].at \notin {"mark", "count"}, z.at \notin {"mark", "count"},
         UNCHANGED <<tcEngineState, scenarioName, ipMap, countReq, count, netElemMap, netRules, overlapped>>,
         ~crowded' => ~crowded,
         z.at = "put" => z.item.name \in DOMAIN ipMap /\ ipMap[z.item.name] = 0,
         z.at = "lock" => Complete(count, countReq),
         ~crowded' /\ z.at \notin {"none", "sleep"} =>
           q \in AtWork \/ (AtWork = {} /\ tcEngineState = "Initializing")
  PROVE  Preparing' /\ (~overlapped' /\ ~crowded' => Orderly') /\ ReadyIsComplete'
<1>1. poller'[q] = z /\ \A u \in Pollers : u # q => poller'[u] = poller[u]
      BY DEF IInv, Types
<1>2. Storing' = Storing /\ \A u \in Storing : poller'[u] = poller[u]
      BY <1>1 DEF Storing
<1>3. Uncounted' = Uncounted /\ Elements' = Elements
      BY <1>2 DEF Uncounted, Elements
<1>4. AtWork' = IF z.at \in {"none", "sleep"} THEN AtWork \ {q} ELSE AtWork \cup {q}
      BY <1>1 DEF AtWork
<1>5. Preparing' /\ ReadyIsComplete'
      BY <1>3 DEF IInv, Preparing, ReadyIsComplete
<1>6. ASSUME ~overlapped', ~crowded' PROVE Orderly'
  <2>1. Orderly
        BY <1>6 DEF IInv
  <2>2. \A k \in Kinds : Sought(k)' = Sought(k) /\ Resolved(k)' = Resolved(k)
        BY <1>3 DEF Sought, Resolved
  <2>3. Counted'
        BY <2>1, <2>2 DEF Orderly, Counted
  <2>4. Alone' /\ (AtWork' # {} => tcEngineState' = "Initializing")
        BY <1>4, <1>6, <2>1 DEF Orderly, Alone
  <2>5. Holding'
    <3> SUFFICES ASSUME NEW u \in Pollers
                 PROVE  LET w == poller'[u]  n == w.item.name
                        IN  /\ w.at = "put" => n \in DOMAIN ipMap' /\ ipMap'[n] = 0
                            /\ w.at \in {"mark", "count"} => n \in DOMAIN ipMap' /\ ipMap'[n] # 0
                            /\ w.at = "mark" => ipMap'[n] = w.item.address
                            /\ w.at = "count" => w.read = count'[KindOf(n)]
                            /\ w.at = "lock" => Complete(count', countReq')
        BY DEF Holding
    <3> QED BY <1>1, <2>1 DEF Orderly, Holding
  <2>6. Agreeing'
    <3> SUFFICES ASSUME NEW p \in Elements \cap DOMAIN ipMap, netElemMap[p].ip # ipMap[p]
                 PROVE  \E u \in Pollers : poller'[u].at = "mark" /\ poller'[u].item.name = p
        BY <1>3 DEF Agreeing
    <3>1. PICK u \in Pollers : poller[u].at = "mark" /\ poller[u].item.name = p
          BY <2>1 DEF Orderly, Agreeing
    <3> QED BY <1>1, <3>1
  <2> QED BY <2>1, <2>3, <2>4, <2>5, <2>6 DEF Orderly
<1> QED BY <1>5, <1>6

LEMMA MovingInv ==
  ASSUME IInv, NEW q \in Pollers, Tick(q) \/ Look(q) \/ ListSvcs(q) \/ Check(q) \/ PollFails(q)
  PROVE  Preparing' /\ (~overlapped' /\ ~crowded' => Orderly') /\ ReadyIsComplete'
<1> DEFINE Stays == UNCHANGED <<tcEngineState, scenarioName, ipMap, countReq, count, netElemMap, netRules, overlapped>>
           Sleeper(place) == [Asleep EXCEPT !.at = place]
           Scanner(place, seen) == [Asleep EXCEPT !.at = place, !.seen = seen]
<1>1. \A place : Sleeper(place).at = place
      BY DEF Asleep
<1>2. \A place, seen : Scanner(place, seen).at = place
      BY DEF Asleep
<1>3. CASE Tick(q)
  <2>1. poller[q].at = "sleep" /\ Stays
        BY <1>3 DEF Tick, At, derived
  <2>2. CASE tcEngineState # "Initializing"
    <3>1. GoTo(q, "none") /\ crowded' = crowded
          BY <1>3, <2>2 DEF Tick
    <3> QED BY <1>1, <2>1, <3>1, PollerMoves DEF GoTo
  <2>3. CASE tcEngineState = "Initializing"
    <3>1. PICK z : z.at = "pods" /\ poller' = [poller EXCEPT ![q] = z]
      <4>1. PICK seen : Scan(q, "pods", seen)
            BY <1>3, <2>3 DEF Tick
      <4> QED BY <1>2, <4>1 DEF Scan
    <3>2. crowded' = (crowded \/ AtWork # {})
          BY <1>3, <2>3 DEF Tick
    <3> QED BY <2>1, <2>3, <3>1, <3>2, PollerMoves
  <2> QED BY <2>2, <2>3
<1>4. CASE Look(q)
  <2> DEFINE r == CHOOSE x \in poller[q].seen : TRUE
             left == poller[q].seen \ {r}
             z == IF r.name \in DOMAIN ipMap /\ ipMap[r.name] = 0
                  THEN [poller[q] EXCEPT !.at = "put", !.seen = left, !.item = r]
                  ELSE [poller[q] EXCEPT !.seen = left]
  <2>1. poller' = [poller EXCEPT ![q] = z] /\ poller[q].at \in {"pods", "svcs"} /\ poller[q] \in Workers
        BY <1>4 DEF Look, At, IInv, Types
  <2>2. Stays /\ crowded' = crowded
        BY <1>4 DEF Look, info, derived
  <2> HIDE DEF r, left
  <2>3. /\ z.at \in {"put", "pods", "svcs"}
        /\ z.at = "put" => z.item.name \in DOMAIN ipMap /\ ipMap[z.item.name] = 0
        BY <2>1 DEF Workers
  <2> HIDE DEF z
  <2>4. q \in AtWork
        BY <2>1 DEF AtWork
  <2> QED BY <2>1, <2>2, <2>3, <2>4, PollerMoves
<1>5. CASE ListSvcs(q)
  <2>1. poller[q].at = "pods" /\ Stays /\ crowded' = crowded
        BY <1>5 DEF ListSvcs, At, info, derived
  <2>2. PICK z : z.at = "svcs" /\ poller' = [poller EXCEPT ![q] = z]
    <3>1. PICK seen : Scan(q, "svcs", seen)
          BY <1>5 DEF ListSvcs
    <3> QED BY <1>2, <3>1 DEF Scan
  <2>3. q \in AtWork
        BY <2>1 DEF AtWork
  <2> QED BY <2>1, <2>2, <2>3, PollerMoves
<1>6. CASE Check(q)
  <2>1. poller[q].at = "svcs" /\ Stays /\ crowded' = crowded
        BY <1>6 DEF Check, At, info, derived
  <2>2. PICK place \in {"none", "sleep", "lock"} : GoTo(q, place) /\ (place = "lock" => Complete(count, countReq))
        BY <1>6 DEF Check
  <2>3. q \in AtWork
        BY <2>1 DEF AtWork
  <2> QED BY <1>1, <2>1, <2>2, <2>3, PollerMoves DEF GoTo
<1>7. CASE PollFails(q)
  <2>1. poller[q].at \in {"sleep", "pods"} /\ Stays /\ crowded' = crowded
        BY <1>7 DEF PollFails, At, derived
  <2>2. GoTo(q, "none")
        BY <1>7 DEF PollFails
  <2> QED BY <1>1, <2>1, <2>2, PollerMoves DEF GoTo
<1> QED BY <1>3, <1>4, <1>5, <1>6, <1>7
-----------------------------------------------------------------------------
(* A poller that works alone, and what it has at hand.                      *)
LEMMA TheOne ==
  ASSUME Orderly, NEW q \in Pollers, poller[q].at \notin {"none", "sleep"}
  PROVE  /\ AtWork = {q} /\ tcEngineState = "Initializing"
         /\ Storing = IF poller[q].at \in {"mark", "count"} THEN {q} ELSE {}
         /\ Uncounted = IF poller[q].at \in {"mark", "count"} THEN {poller[q].item.name} ELSE {}
<1>1. q \in AtWork
      BY DEF AtWork
<1>2. AtWork = {q} /\ tcEngineState = "Initializing"
      BY <1>1 DEF Orderly, Alone
<1>3. Storing \subseteq AtWork
      BY DEF Storing, AtWork
<1>4. Storing = IF poller[q].at \in {"mark", "count"} THEN {q} ELSE {}
      BY <1>2, <1>3 DEF Storing
<1> QED BY <1>2, <1>4 DEF Uncounted

(* The address is stored.                                                   *)
LEMMA PutInv ==
  ASSUME IInv, NEW q \in Pollers, Put(q)
  PROVE  Preparing' /\ (~overlapped' /\ ~crowded' => Orderly') /\ ReadyIsComplete'
<1> DEFINE r == poller[q].item
<1>1. /\ poller[q].at = "put" /\ r \in Resources /\ poller[q] \in Workers
      /\ poller' = [poller EXCEPT ![q].at = "mark"]
      /\ ipMap' = [n \in DOMAIN ipMap \cup {r.name} |-> IF n = r.name THEN r.address ELSE ipMap[n]]
      /\ UNCHANGED <<tcEngineState, scenarioName, countReq, count, netElemMap, netRules, overlapped, crowded>>
      BY DEF Put, At, derived, IInv, Types
<1>2. r.address # 0 /\ r.name \in Names
      BY <1>1 DEF Resources
<1>3. /\ poller'[q].at = "mark" /\ poller'[q].item = r
      /\ \A u \in Pollers : u # q => poller'[u] = poller[u]
      BY <1>1 DEF IInv, Types, Workers
<1> HIDE DEF r
<1>4. Elements' = Elements
      BY <1>1 DEF Elements
<1>5. Preparing'
      BY <1>1, <1>4 DEF IInv, Preparing
<1>6. ASSUME ~overlapped', ~crowded' PROVE Orderly' /\ ReadyIsComplete'
  <2>1. /\ Orderly /\ AtWork = {q} /\ tcEngineState = "Initializing" /\ Storing = {} /\ Uncounted = {}
        /\ ~overlapped /\ ~crowded
        BY <1>1, <1>6, TheOne DEF IInv
  <2>2. r.name \in DOMAIN ipMap /\ ipMap[r.name] = 0
        BY <1>1, <2>1 DEF Orderly, Holding, r
  <2>3. /\ DOMAIN ipMap' = DOMAIN ipMap /\ ipMap'[r.name] = r.address
        /\ \A n \in DOMAIN ipMap : n # r.name => ipMap'[n] = ipMap[n]
        BY <1>1, <2>2
  <2>4. \A u \in Pollers : u # q => poller'[u].at \in {"none", "sleep"}
        BY <1>3, <2>1 DEF AtWork
  <2>5. Storing' = {q} /\ AtWork' = {q}
        BY <1>3, <2>4 DEF Storing, AtWork
  <2>6. Uncounted' = {r.name}
        BY <1>3, <2>5 DEF Uncounted
  <2>7. \A k \in Kinds : Sought(k)' = Sought(k) /\ Resolved(k)' = Resolved(k)
        BY <2>1, <2>2, <2>3, <2>6 DEF Sought, Resolved
  <2>8. Counted'
        BY <1>1, <2>1, <2>7 DEF Orderly, Counted
  <2>9. Holding'
        BY <1>2, <1>3, <2>2, <2>3, <2>4 DEF Holding
  <2>10. Agreeing'
    <3> SUFFICES ASSUME NEW p \in Elements \cap DOMAIN ipMap, p # r.name
                 PROVE  netElemMap[p].ip = ipMap'[p]
        BY <1>1, <1>3, <1>4, <2>3 DEF Agreeing
    <3>1. ~ \E u \in Pollers : poller[u].at = "mark"
          BY <2>1 DEF Storing
    <3> QED BY <2>1, <2>3, <3>1 DEF Orderly, Agreeing
  <2>11. Orderly'
        BY <1>1, <2>1, <2>5, <2>8, <2>9, <2>10 DEF Orderly, Alone
  <2> QED BY <1>1, <2>1, <2>11 DEF ReadyIsComplete
<1> QED BY <1>5, <1>6 DEF ReadyIsComplete

(* The element gets it.                                                     *)
LEMMA MarkInv ==
  ASSUME IInv, NEW q \in Pollers, Mark(q)
  PROVE  Preparing' /\ (~overlapped' /\ ~crowded' => Orderly') /\ ReadyIsComplete'
<1> DEFINE r == poller[q].item
           c == count[KindOf(r.name)]
<1>1. /\ poller[q].at = "mark" /\ poller[q] \in Workers
      /\ poller' = [poller EXCEPT ![q].at = "count", ![q].read = c]
      /\ netElemMap' = [p \in DOMAIN netElemMap |->
              IF p = r.name THEN [netElemMap[p] EXCEPT !.ip = r.address, !.next = 1] ELSE netElemMap[p]]
      /\ UNCHANGED <<tcEngineState, scenarioName, ipMap, countReq, count, netRules, overlapped, crowded>>
      BY DEF Mark, At, info, IInv, Types
<1>2. /\ poller'[q].at = "count" /\ poller'[q].item = r /\ poller'[q].read = c
      /\ \A u \in Pollers : u # q => poller'[u] = poller[u]
  <2>1. poller'[q] = [[poller[q] EXCEPT !.at = "count"] EXCEPT !.read = c]
        BY <1>1 DEF IInv, Types
  <2> HIDE DEF c
  <2>2. poller'[q].at = "count" /\ poller'[q].item = r /\ poller'[q].read = c
        BY <1>1, <2>1 DEF Workers
  <2> QED BY <1>1, <2>2 DEF IInv, Types
<1> HIDE DEF r
<1>3. Elements' = Elements
      BY <1>1 DEF Elements
<1>4. Preparing'
      BY <1>1, <1>3 DEF IInv, Preparing
<1>5. ASSUME ~overlapped', ~crowded' PROVE Orderly'
  <2>1. /\ Orderly /\ AtWork = {q} /\ tcEngineState = "Initializing" /\ Storing = {q} /\ Uncounted = {r.name}
        BY <1>1, <1>5, TheOne DEF IInv, r
  <2>2. \A u \in Pollers : u # q => poller'[u].at \in {"none", "sleep"}
        BY <1>2, <2>1 DEF AtWork
  <2>3. Storing' = {q} /\ AtWork' = {q}
        BY <1>2, <2>2 DEF Storing, AtWork
  <2>4. Uncounted' = Uncounted
        BY <1>2, <2>1, <2>3 DEF Uncounted
  <2>5. \A k \in Kinds : Sought(k)' = Sought(k) /\ Resolved(k)' = Resolved(k)
        BY <1>1, <2>4 DEF Sought, Resolved
  <2>6. Counted'
        BY <1>1, <2>1, <2>5 DEF Orderly, Counted
  <2>7. r.name \in DOMAIN ipMap /\ ipMap[r.name] # 0
        BY <1>1, <2>1 DEF Orderly, Holding, r
  <2>8. Holding'
        BY <1>1, <1>2, <2>2, <2>7 DEF Holding
  <2>9. Agreeing'
    <3> SUFFICES ASSUME NEW p \in Elements \cap DOMAIN ipMap PROVE netElemMap'[p].ip = ipMap[p]
        BY <1>1, <1>3 DEF Agreeing
    <3>1. CASE p = r.name
      <4>1. DOMAIN netElemMap[p] = {"ip", "next", "filters"}
            BY DEF IInv, Numbering, ElementTypes
      <4>2. netElemMap'[p] = [[netElemMap[p] EXCEPT !.ip = r.address] EXCEPT !.next = 1]
            BY <1>1, <3>1 DEF Elements
      <4>3. netElemMap'[p].ip = r.address
            BY <4>1, <4>2
      <4>4. ipMap[r.name] = r.address
            BY <1>1, <2>1 DEF Orderly, Holding, r
      <4> QED BY <3>1, <4>3, <4>4
    <3>2. CASE p # r.name
      <4>1. ~ \E u \in Pollers : poller[u].at = "mark" /\ poller[u].item.name = p
            BY <2>1, <3>2 DEF Storing, r
      <4> QED BY <1>1, <2>1, <3>2, <4>1 DEF Orderly, Agreeing, Elements
    <3> QED BY <3>1, <3>2
  <2> QED BY <1>1, <2>1, <2>3, <2>6, <2>8, <2>9 DEF Orderly, Alone
<1>6. ReadyIsComplete'
      BY <1>1 DEF IInv, ReadyIsComplete
<1> QED BY <1>4, <1>5, <1>6

(* And it is counted.                                                       *)
LEMMA CountInv ==
  ASSUME IInv, NEW q \in Pollers, Count(q)
  PROVE  Preparing' /\ (~overlapped' /\ ~crowded' => Orderly') /\ ReadyIsComplete'
<1> DEFINE n == poller[q].item.name
           k == KindOf(n)
           c == poller[q].read + 1
<1>1. /\ poller[q].at = "count" /\ poller[q].item \in Resources
      /\ count' = [count EXCEPT ![k] = c]
      /\ UNCHANGED <<tcEngineState, scenarioName, ipMap, countReq, netElemMap, netRules, overlapped, crowded>>
      BY DEF Count, At, derived, IInv, Types
<1>2. PICK place \in {"pods", "svcs"} : Scan(q, place, poller[q].seen)
      BY DEF Count
<1>3. poller'[q].at \in {"pods", "svcs"} /\ \A u \in Pollers : u # q => poller'[u] = poller[u]
      BY <1>2 DEF Scan, Asleep, IInv, Types
<1>4. Elements' = Elements /\ n \in Names
      BY <1>1 DEF Elements, Resources
<1> HIDE DEF n
<1>5. k \in Kinds /\ n \in Named(k) /\ \A j \in Kinds : j # k => n \notin Named(j)
      BY <1>4, KindOfName
<1> HIDE DEF k
<1>6. Preparing' /\ ReadyIsComplete'
      BY <1>1, <1>4 DEF IInv, Preparing, ReadyIsComplete
<1>7. ASSUME ~overlapped', ~crowded' PROVE Orderly'
  <2>1. /\ Orderly /\ AtWork = {q} /\ tcEngineState = "Initializing" /\ Storing = {q} /\ Uncounted = {n}
        BY <1>1, <1>7, TheOne DEF IInv, n
  <2>2. \A u \in Pollers : u # q => poller'[u].at \in {"none", "sleep"}
        BY <1>3, <2>1 DEF AtWork
  <2>3. Storing' = {} /\ AtWork' = {q}
        BY <1>3, <2>2 DEF Storing, AtWork
  <2>4. Uncounted' = {}
        BY <2>3 DEF Uncounted
  <2>5. n \in DOMAIN ipMap /\ ipMap[n] # 0 /\ poller[q].read = count[k]
        BY <1>1, <2>1 DEF Orderly, Holding, n, k
  <2>6. Counted'
    <3> SUFFICES ASSUME NEW j \in Kinds
                 PROVE  countReq'[j] = Cardinality(Sought(j)') /\ count'[j] = Cardinality(Resolved(j)')
        BY DEF Counted
    <3>1. Sought(j)' = Sought(j)
          BY <1>1 DEF Sought
    <3>2. countReq[j] = Cardinality(Sought(j)) /\ count[j] = Cardinality(Resolved(j)) /\ count[j] \in Nat
          BY <2>1 DEF Orderly, Counted, IInv, Types
    <3>3. CASE j = k
      <4>1. Resolved(j)' = Resolved(j) \cup {n} /\ n \notin Resolved(j)
            BY <1>1, <1>5, <2>1, <2>4, <2>5, <3>3 DEF Resolved
      <4>2. Resolved(j) \in SUBSET Named(j)
            BY DEF Resolved
      <4>3. IsFiniteSet(Resolved(j))
            BY <4>2, NamesAreFinite
      <4>4. Cardinality(Resolved(j) \cup {n}) = Cardinality(Resolved(j)) + 1
            BY <4>1, <4>3, FS_AddElement
      <4>5. count'[j] = count[j] + 1
            BY <1>1, <1>5, <2>5, <3>3 DEF IInv, Types
      <4> QED BY <1>1, <3>1, <3>2, <4>1, <4>4, <4>5
    <3>4. CASE j # k
      <4>1. Resolved(j)' = Resolved(j)
            BY <1>1, <1>5, <2>1, <2>4, <3>4 DEF Resolved
      <4>2. count'[j] = count[j]
            BY <1>1, <3>4 DEF IInv, Types
      <4> QED BY <1>1, <3>1, <3>2, <4>1, <4>2
    <3> QED BY <3>3, <3>4
  <2>7. Holding'
        BY <1>3, <2>2 DEF Holding
  <2>8. Agreeing'
    <3>1. ~ \E u \in Pollers : poller[u].at = "mark"
          BY <1>1, <2>1 DEF Storing
    <3> QED BY <1>1, <1>4, <2>1, <3>1 DEF Orderly, Agreeing
  <2> QED BY <1>1, <2>1, <2>3, <2>6, <2>7, <2>8 DEF Orderly, Alone
<1> QED BY <1>6, <1>7

-----------------------------------------------------------------------------
(* The rules that are written when the engine gets ready for the first time *)
(* have the addresses of their sources.                                     *)
LEMMA RulesHaveAddresses ==
  ASSUME ElementTypes, netElemMap' = WithFilters(netElemMap), Preparing, tcEngineState # "Ready",
         \A p \in Elements : netElemMap[p].ip # 0,
         netRules' = NewRules(netElemMap, netElemMap'),
         NEW key \in DOMAIN netRules'
  PROVE  netRules'[key].ip # 0
<1>1. PICK elems : elems = netElemMap'
      OBVIOUS
<1> DEFINE fresh == {f \in Pods \X Pods :
                       /\ f[1] \in DOMAIN elems /\ f[2] \in DOMAIN elems[f[1]].filters
                       /\ f[2] \notin DOMAIN netElemMap[f[1]].filters}
           Key(f)  == <<f[1], elems[f[1]].filters[f[2]]>>
           Rule(s) == [src |-> s, ip |-> elems[s].ip]
           keys    == {Key(f) : f \in fresh}
           chosen(x) == CHOOSE f \in fresh : Key(f) = x
<1>2. netRules' = [x \in DOMAIN netRules \cup keys |-> IF x \in keys THEN Rule(chosen(x)[2]) ELSE netRules[x]]
      BY <1>1 DEF NewRules
<1> HIDE DEF keys, Rule, chosen
<1>3. key \in keys /\ netRules'[key] = Rule(chosen(key)[2])
      BY <1>2 DEF Preparing
<1> USE DEF keys, Rule, chosen
<1>4. chosen(key) \in fresh
      BY <1>3
<1>5. /\ Elements' = Elements /\ ElementTypes'
      /\ \A p \in Elements : netElemMap'[p].ip = netElemMap[p].ip
      BY NumberedElements
<1>6. \A f \in fresh : f[2] \in Elements
      BY <1>1, <1>5 DEF ElementTypes, Elements, Filters
<1> HIDE DEF fresh, chosen
<1>7. elems[chosen(key)[2]].ip # 0
      BY <1>1, <1>4, <1>5, <1>6
<1> QED BY <1>3, <1>7

LEMMA ReadyInv ==
  ASSUME IInv, NEW q \in Pollers, Ready(q)
  PROVE  Preparing' /\ (~overlapped' /\ ~crowded' => Orderly') /\ ReadyIsComplete'
<1>1. /\ tcEngineState' = "Ready" /\ GoTo(q, "none") /\ poller[q].at = "lock"
      /\ netElemMap' = WithFilters(netElemMap) /\ netRules' = NewRules(netElemMap, netElemMap')
      /\ UNCHANGED <<scenarioName, ipMap, countReq, count, overlapped, crowded>>
      BY DEF Ready, At
<1>2. poller'[q].at = "none" /\ \A u \in Pollers : u # q => poller'[u] = poller[u]
      BY <1>1 DEF GoTo, Asleep, IInv, Types
<1>3. ElementTypes
      BY DEF IInv, Numbering
<1>4. Elements' = Elements /\ \A p \in Elements : netElemMap'[p].ip = netElemMap[p].ip
      BY <1>1, <1>3, NumberedElements
<1>5. ASSUME ~overlapped', ~crowded' PROVE Orderly' /\ ReadyIsComplete'
  <2>1. /\ Orderly /\ AtWork = {q} /\ tcEngineState = "Initializing" /\ Storing = {} /\ Uncounted = {}
        BY <1>1, <1>5, TheOne DEF IInv
  <2>2. Complete(count, countReq)
        BY <1>1, <2>1 DEF Orderly, Holding
  <2>3. \A n \in DOMAIN ipMap : ipMap[n] # 0
        BY <2>1, <2>2, EqualCounts DEF Orderly, IInv
  <2>4. DOMAIN netRules = {} /\ Elements \subseteq DOMAIN ipMap
        BY <2>1 DEF IInv, Preparing
  <2>5. \A p \in Elements : netElemMap[p].ip = ipMap[p]
    <3>1. ~ \E u \in Pollers : poller[u].at = "mark"
          BY <2>1 DEF Storing
    <3> QED BY <2>1, <2>4, <3>1 DEF Orderly, Agreeing
  <2>6. \A x \in DOMAIN netRules' : netRules'[x].ip # 0
        BY <1>1, <1>3, <2>1, <2>3, <2>4, <2>5, RulesHaveAddresses DEF IInv
  <2>7. scenarioName # NoDoc
        BY <2>1 DEF Orderly
  <2>8. ReadyIsComplete'
        BY <1>1, <2>3, <2>6, <2>7 DEF ReadyIsComplete
  <2>9. \A u \in Pollers : poller'[u].at \in {"none", "sleep"}
        BY <1>2, <2>1 DEF AtWork
  <2>10. Storing' = {} /\ AtWork' = {}
        BY <2>9 DEF Storing, AtWork
  <2>11. Uncounted' = {}
        BY <2>10 DEF Uncounted
  <2>12. \A k \in Kinds : Sought(k)' = Sought(k) /\ Resolved(k)' = Resolved(k)
        BY <1>1, <2>1, <2>11 DEF Sought, Resolved
  <2>13. Counted'
        BY <1>1, <2>1, <2>12 DEF Orderly, Counted
  <2>14. Holding'
        BY <2>9 DEF Holding
  <2>15. Agreeing'
        BY <1>1, <1>4, <2>4, <2>5 DEF Agreeing
  <2> QED BY <1>1, <2>7, <2>8, <2>10, <2>13, <2>14, <2>15 DEF Orderly, Alone
<1>6. Preparing'
      BY <1>1 DEF Preparing
<1> QED BY <1>5, <1>6 DEF ReadyIsComplete
-----------------------------------------------------------------------------
(* The scenario stops or is processed.                                      *)
LEMMA StopScenarioInv ==
  ASSUME IInv, StopScenario
  PROVE  Preparing' /\ (~overlapped' /\ ~crowded' => Orderly') /\ ReadyIsComplete'
<1>1. /\ DOMAIN ipMap' = {} /\ DOMAIN netRules' = {} /\ DOMAIN netElemMap' = {}
      /\ tcEngineState' = "Idle" /\ countReq' = ZeroOfEach /\ count' = ZeroOfEach
      /\ poller' = poller /\ overlapped' = (AtWork # {})
      BY NothingIsEmpty DEF StopScenario
<1>2. Preparing' /\ ReadyIsComplete'
      BY <1>1 DEF Preparing, ReadyIsComplete, Elements
<1>3. ASSUME ~overlapped' PROVE Orderly'
  <2>1. AtWork = {}
        BY <1>1, <1>3
  <2>2. \A u \in Pollers : poller'[u].at \in {"none", "sleep"}
        BY <1>1, <2>1 DEF AtWork
  <2>3. AtWork' = {}
        BY <2>2 DEF AtWork
  <2>4. Counted'
        BY <1>1, FS_EmptySet DEF Counted, Sought, Resolved, ZeroOfEach
  <2>5. Holding'
        BY <2>2 DEF Holding
  <2>6. Agreeing' /\ Alone'
        BY <1>1, <2>3 DEF Agreeing, Alone
  <2> QED BY <1>1, <2>3, <2>4, <2>5, <2>6 DEF Orderly
<1> QED BY <1>2, <1>3

LEMMA ProcessScenarioInv ==
  ASSUME IInv, ProcessScenario
  PROVE  Preparing' /\ (~overlapped' /\ ~crowded' => Orderly') /\ ReadyIsComplete'
<1> DEFINE wanted == Wanted(active)
           names  == active.pods \cup active.svcs
<1>1. /\ active \in Docs /\ active.pods \subseteq Pods /\ active.svcs \subseteq Svcs
      /\ active.name # NoDoc
      BY TcAssumption DEF IInv, Types, ProcessScenario
<1>2. /\ DOMAIN ipMap \subseteq wanted /\ wanted \subseteq Names
      /\ wanted = DOMAIN ipMap \/ wanted = DOMAIN ipMap \cup names
      /\ tcEngineState = "Ready" => wanted = DOMAIN ipMap
      /\ tcEngineState # "Ready" => active.pods \subseteq wanted
      BY <1>1 DEF IInv, Types, Names, Wanted
<1>3. /\ ipMap' = [n \in wanted |-> IF n \in DOMAIN ipMap THEN ipMap[n] ELSE 0]
      /\ countReq' = [k \in Kinds |->
            countReq[k] + Cardinality((wanted \ DOMAIN ipMap) \cap Named(k))]
      /\ netElemMap' = [p \in DOMAIN netElemMap \cup active.pods |->
            IF p \in DOMAIN netElemMap THEN netElemMap[p]
            ELSE [ip |-> IF p \in DOMAIN ipMap THEN ipMap[p] ELSE 0, next |-> 1, filters |-> Nothing]]
      /\ crowded' = (crowded \/ (AtWork # {} /\ ~(names \subseteq DOMAIN ipMap)))
      /\ scenarioName' = active.name
      /\ UNCHANGED <<count, netRules, overlapped>>
      BY DEF ProcessScenario
<1> HIDE DEF wanted, names
<1>4. DOMAIN ipMap' = wanted /\ \A n \in wanted : ipMap'[n] = IF n \in DOMAIN ipMap THEN ipMap[n] ELSE 0
      BY <1>3
<1>5. /\ tcEngineState' \in {"Initializing", "Ready"} /\ (tcEngineState' = "Ready" <=> tcEngineState = "Ready")
      /\ tcEngineState = "Initializing" => tcEngineState' = "Initializing"
      BY DEF IInv, Types, ProcessScenario, StartPoller
<1>6. \A u \in Pollers : poller'[u] = poller[u] \/ (poller[u].at = "none" /\ poller'[u].at = "sleep")
  <2>1. CASE poller' = poller
        BY <2>1
  <2>2. ASSUME NEW q \in Pollers, poller[q].at = "none",
               poller' = [poller EXCEPT ![q] = [Asleep EXCEPT !.at = "sleep"]]
        PROVE  \A u \in Pollers : poller'[u] = poller[u] \/ (poller[u].at = "none" /\ poller'[u].at = "sleep")
    <3>1. [Asleep EXCEPT !.at = "sleep"].at = "sleep"
          BY DEF Asleep
    <3> QED BY <2>2, <3>1 DEF IInv, Types
  <2> QED BY <2>1, <2>2 DEF ProcessScenario, StartPoller
<1>7. AtWork' = AtWork /\ Storing' = Storing /\ \A u \in AtWork : poller'[u] = poller[u]
      BY <1>6 DEF AtWork, Storing
<1>8. Uncounted' = Uncounted
      BY <1>7 DEF Uncounted, Storing, AtWork
<1>9. Elements' = Elements \cup active.pods
      BY <1>3 DEF Elements
<1>10. Preparing'
      BY <1>2, <1>3, <1>4, <1>5, <1>9 DEF IInv, Preparing
<1>11. ReadyIsComplete'
      BY <1>1, <1>2, <1>3, <1>4, <1>5 DEF IInv, ReadyIsComplete
<1>12. ASSUME ~overlapped', ~crowded' PROVE Orderly'
  <2>1. Orderly /\ (AtWork # {} => wanted = DOMAIN ipMap)
        BY <1>2, <1>3, <1>12 DEF IInv
  <2>2. Counted'
    <3> SUFFICES ASSUME NEW k \in Kinds
                 PROVE  countReq'[k] = Cardinality(Sought(k)') /\ count'[k] = Cardinality(Resolved(k)')
        BY DEF Counted
    <3> DEFINE more == (wanted \ DOMAIN ipMap) \cap Named(k)
    <3>1. Sought(k)' = Sought(k) \cup more
          BY <1>2, <1>4 DEF Sought
    <3>2. Sought(k) \in SUBSET Named(k) /\ more \in SUBSET Named(k) /\ Sought(k) \cap more = {}
          BY DEF Sought
    <3>3. Resolved(k)' = Resolved(k)
          BY <1>2, <1>4, <1>8 DEF Resolved
    <3>4. countReq'[k] = countReq[k] + Cardinality(more)
          BY <1>3
    <3> HIDE DEF more
    <3>5. Cardinality(Sought(k) \cup more) = Cardinality(Sought(k)) + Cardinality(more)
          BY <3>2, Adding
    <3> QED BY <1>3, <2>1, <3>1, <3>3, <3>4, <3>5 DEF Orderly, Counted
  <2>3. Alone' /\ (AtWork' # {} => tcEngineState' = "Initializing")
        BY <1>5, <1>7, <2>1 DEF Orderly, Alone
  <2>4. Holding'
    <3> SUFFICES ASSUME NEW u \in Pollers, poller'[u].at \notin {"none", "sleep"}
                 PROVE  LET w == poller'[u]  n == w.item.name
                        IN  /\ w.at = "put" => n \in DOMAIN ipMap' /\ ipMap'[n] = 0
                            /\ w.at \in {"mark", "count"} => n \in DOMAIN ipMap' /\ ipMap'[n] # 0
                            /\ w.at = "mark" => ipMap'[n] = w.item.address
                            /\ w.at = "count" => w.read = count'[KindOf(n)]
                            /\ w.at = "lock" => Complete(count', countReq')
        BY DEF Holding
    <3>1. u \in AtWork /\ poller'[u] = poller[u]
          BY <1>6, <1>7 DEF AtWork
    <3>2. wanted = DOMAIN ipMap
          BY <2>1, <3>1
    <3>3. \A n \in DOMAIN ipMap : ipMap'[n] = ipMap[n]
          BY <1>2, <1>4
    <3>4. countReq' = countReq
      <4>1. \A k \in Kinds : (wanted \ DOMAIN ipMap) \cap Named(k) = {}
            BY <3>2
      <4>2. \A k \in Kinds : Cardinality((wanted \ DOMAIN ipMap) \cap Named(k)) = 0
            BY <4>1, FS_EmptySet
      <4> QED BY <1>3, <4>2 DEF IInv, Types
    <3>5. /\ poller[u].at = "put" => poller[u].item.name \in DOMAIN ipMap /\ ipMap[poller[u].item.name] = 0
          /\ poller[u].at \in {"mark", "count"} =>
               poller[u].item.name \in DOMAIN ipMap /\ ipMap[poller[u].item.name] # 0
          /\ poller[u].at = "mark" => ipMap[poller[u].item.name] = poller[u].item.address
          /\ poller[u].at = "count" => poller[u].read = count[KindOf(poller[u].item.name)]
          /\ poller[u].at = "lock" => count = countReq
          BY <2>1 DEF Orderly, Holding, Complete
    <3>6. count' = count /\ DOMAIN ipMap' = DOMAIN ipMap
          BY <1>3, <1>4, <3>2
    <3> QED BY <3>1, <3>3, <3>4, <3>5, <3>6 DEF Complete
  <2>5. Agreeing'
    <3> SUFFICES ASSUME NEW p \in Elements', p \in DOMAIN ipMap', netElemMap'[p].ip # ipMap'[p]
                 PROVE  \E u \in Pollers : poller'[u].at = "mark" /\ poller'[u].item.name = p
        BY DEF Agreeing
    <3>1. p \in Elements
          BY <1>3, <1>4, <1>9 DEF Elements
    <3>2. netElemMap'[p] = netElemMap[p]
          BY <1>3, <3>1 DEF Elements
    <3>3. CASE p \in DOMAIN ipMap
      <4>1. netElemMap[p].ip # ipMap[p]
            BY <1>4, <3>2, <3>3
      <4>2. PICK u \in Pollers : poller[u].at = "mark" /\ poller[u].item.name = p
            BY <2>1, <3>1, <3>3, <4>1 DEF Orderly, Agreeing
      <4> QED BY <1>6, <4>2
    <3>4. CASE p \notin DOMAIN ipMap
      <4>1. tcEngineState = "Ready"
            BY <3>1, <3>4 DEF IInv, Preparing
      <4> QED BY <1>2, <1>4, <3>4, <4>1
    <3> QED BY <3>3, <3>4
  <2> QED BY <1>1, <1>3, <2>2, <2>3, <2>4, <2>5 DEF Orderly
<1> QED BY <1>10, <1>11, <1>12
-----------------------------------------------------------------------------
\* The invariant of the engine, while no poller outlives a stop or meets
\* another: the counters count what was looked for and what was found, and
\* nothing is made of a scenario before it is ready.
THEOREM EngineInvariant == Spec => []IInv
<1>1. Init => IInv
      BY InitTypes, InitNumbering, InitOrderly DEF IInv
<1>2. IInv /\ [Next]_vars => IInv'
  <2> SUFFICES ASSUME IInv, [Next]_vars PROVE IInv'
      OBVIOUS
  <2>1. Types' /\ Numbering'
        BY TypesStep, NumberingStep DEF IInv
  <2> SUFFICES Preparing' /\ (~overlapped' /\ ~crowded' => Orderly') /\ ReadyIsComplete'
      BY <2>1 DEF IInv
  <2>2. CASE ScenarioChange \/ ResourceUp \/ ResourceDown \/ RulesWritten \/ MgSvcMapUpdate \/ UNCHANGED vars
        BY <2>2, QuietSteps
  <2>3. CASE StopScenario
        BY <2>3, StopScenarioInv
  <2>4. CASE ProcessScenario
        BY <2>4, ProcessScenarioInv
  <2>5. ASSUME NEW q \in Pollers,
               \/ Tick(q) \/ Look(q) \/ Put(q) \/ Mark(q) \/ Count(q) \/ ListSvcs(q) \/ Check(q)
               \/ Ready(q) \/ PollFails(q)
        PROVE  Preparing' /\ (~overlapped' /\ ~crowded' => Orderly') /\ ReadyIsComplete'
        BY <2>5, MovingInv, PutInv, MarkInv, CountInv, ReadyInv
  <2> QED BY <2>2, <2>3, <2>4, <2>5 DEF Next
<1> QED BY <1>1, <1>2, PTL DEF Spec

\* When the engine is ready every name it looked for has an address and so has
\* every rule, unless the scenario was stopped under a poller, or a poller was
\* at work beside another or while elements were added: for any scenarios,
\* number of pollers, changes and failures.
THEOREM ReadyMeansComplete == Spec => []ReadyIsComplete
<1>1. IInv => ReadyIsComplete
      BY DEF IInv
<1> QED BY <1>1, EngineInvariant, PTL
-----------------------------------------------------------------------------
(* How old what is known may be, when the resources of a deployment are     *)
(* gone before the next.                                                    *)
Polling(q) == poller[q].at \in {"pods", "svcs", "put", "mark", "count"}

Ages ==
  /\ served \in Nat /\ served <= deployment
  /\ \A r \in k8s : r.address = deployment
  /\ tcEngineState = "Initializing" => served # 0
  /\ ~overlapped /\ ~skipped =>
       /\ served = 0 => DOMAIN ipMap = {}
       /\ \A q \in Pollers : Polling(q) =>
            /\ served # 0 /\ \A r \in poller[q].seen : r.address >= served
            /\ poller[q].at = "put" => poller[q].item.address >= served
  /\ AddressesAreCurrent

LEMMA InitAges == Init => Ages
<1> SUFFICES ASSUME Init PROVE Ages
    OBVIOUS
<1>1. \A q \in Pollers : poller[q].at = "none"
      BY DEF Init, Asleep
<1> QED BY <1>1, NothingIsEmpty DEF Init, Ages, Polling, AddressesAreCurrent

(* A step that changes no more than where a poller is and what it has seen. *)
LEMMA MovedAges ==
  ASSUME Types, Ages, NEW q \in Pollers,
         \A u \in Pollers : u # q => poller'[u] = poller[u],
         Polling(q)' /\ ~overlapped /\ ~skipped =>
            /\ served # 0 /\ \A r \in poller'[q].seen : r.address >= served
            /\ poller'[q].at = "put" => poller'[q].item.address >= served,
         UNCHANGED <<deployment, k8s, served, overlapped, skipped, ipMap>>,
         tcEngineState' \in {"Ready", tcEngineState}
  PROVE  Ages'
BY DEF Ages, Polling, AddressesAreCurrent

LEMMA WorldAges ==
  ASSUME MayLinger = FALSE, Types, Ages, ScenarioChange \/ ResourceUp \/ ResourceDown \/ RulesWritten
  PROVE  Ages'
<1>1. UNCHANGED <<served, overlapped, skipped, tcEngineState, ipMap, poller>>
      BY DEF ScenarioChange, ResourceUp, ResourceDown, RulesWritten, info, derived
<1>2. deployment' \in Nat /\ deployment' >= deployment /\ \A r \in k8s' : r.address = deployment'
  <2>1. CASE ScenarioChange
    <3>1. k8s' = k8s /\ deployment' = IF active = NoDoc THEN deployment + 1 ELSE deployment
          BY <2>1 DEF ScenarioChange
    <3>2. active = NoDoc => k8s = {}
          BY <2>1 DEF ScenarioChange
    <3> QED BY <3>1, <3>2 DEF Types, Ages
  <2>2. CASE ResourceUp
    <3>1. PICK n \in deployed : k8s' = k8s \cup {[name |-> n, scenario |-> active.name, address |-> deployment]}
          BY <2>2 DEF ResourceUp
    <3>2. deployment' = deployment
          BY <2>2 DEF ResourceUp
    <3> QED BY <3>1, <3>2 DEF Types, Ages
  <2>3. CASE ResourceDown \/ RulesWritten
        BY <2>3 DEF ResourceDown, RulesWritten, Types, Ages
  <2> QED BY <2>1, <2>2, <2>3
<1>3. served <= deployment'
      BY <1>2 DEF Types, Ages
<1> QED BY <1>1, <1>2, <1>3 DEF Ages, Polling, AddressesAreCurrent

LEMMA ListenerAges ==
  ASSUME Types, Ages, StopScenario \/ ProcessScenario \/ MgSvcMapUpdate
  PROVE  Ages'
<1>1. CASE StopScenario
  <2>1. /\ DOMAIN ipMap' = {} /\ tcEngineState' = "Idle" /\ served' = 0 /\ UNCHANGED <<world, poller>>
        /\ overlapped' = (AtWork # {})
        BY <1>1, NothingIsEmpty DEF StopScenario, Receive
  <2>2. ~overlapped' => \A q \in Pollers : ~Polling(q)'
        BY <2>1 DEF AtWork, Polling
  <2> QED BY <2>1, <2>2 DEF Types, Ages, AddressesAreCurrent, world
<1>2. CASE ProcessScenario
  <2>1. /\ served' = deployment /\ active # NoDoc /\ UNCHANGED <<world, overlapped>>
        /\ skipped' = (skipped \/ Another)
        /\ ipMap' = [n \in Wanted(active) |-> IF n \in DOMAIN ipMap THEN ipMap[n] ELSE 0]
        BY <1>2 DEF ProcessScenario, Receive
  <2>2. deployment # 0 /\ deployment \in Nat
        BY <2>1 DEF Types
  <2>3. \A q \in Pollers : poller'[q] = poller[q] \/ ~Polling(q)'
    <3>1. [Asleep EXCEPT !.at = "sleep"].at = "sleep"
          BY DEF Asleep
    <3> SUFFICES ASSUME NEW q \in Pollers PROVE poller'[q] = poller[q] \/ poller'[q].at = "sleep"
        BY DEF Polling
    <3> QED BY <1>2, <3>1 DEF Types, ProcessScenario, StartPoller
  <2>4. ~skipped' => ~skipped /\ (served = 0 \/ served = deployment)
        BY <2>1 DEF Another
  <2>5. ~overlapped' /\ ~skipped' =>
          \A q \in Pollers : Polling(q)' =>
            /\ served' # 0 /\ \A r \in poller'[q].seen : r.address >= served'
            /\ poller'[q].at = "put" => poller'[q].item.address >= served'
        BY <2>1, <2>2, <2>3, <2>4 DEF Ages, Polling
  <2>6. AddressesAreCurrent'
        BY <2>1, <2>2, <2>4 DEF Types, Ages, AddressesAreCurrent
  <2> QED BY <2>1, <2>2, <2>5, <2>6 DEF Ages, world
<1>3. CASE MgSvcMapUpdate
      BY <1>3 DEF MgSvcMapUpdate, Receive, Ages, Polling, AddressesAreCurrent, world
<1> QED BY <1>1, <1>2, <1>3

LEMMA PollerAges ==
  ASSUME Types, Ages, NEW q \in Pollers,
         \/ Tick(q) \/ Look(q) \/ Put(q) \/ Mark(q) \/ Count(q) \/ ListSvcs(q) \/ Check(q)
         \/ Ready(q) \/ PollFails(q)
  PROVE  Ages'
<1> DEFINE Ageless == UNCHANGED <<deployment, k8s, served, overlapped, skipped, ipMap, tcEngineState>>
<1>1. ASSUME NEW seen \in SUBSET k8s PROVE seen \in SUBSET Resources /\ \A r \in seen : r.address >= served
      BY DEF Types, Resources, Ages
<1>2. CASE Tick(q)
  <2>1. Ageless
        BY <1>2 DEF Tick, world, derived
  <2>2. CASE tcEngineState # "Initializing"
    <3>1. GoTo(q, "none")
          BY <1>2, <2>2 DEF Tick
    <3>2. poller'[q].at = "none" /\ \A u \in Pollers : u # q => poller'[u] = poller[u]
          BY <3>1, PollerPlaced DEF Places
    <3> QED BY <2>1, <3>2, MovedAges DEF Polling
  <2>3. CASE tcEngineState = "Initializing"
    <3>1. PICK seen \in SUBSET k8s : Scan(q, "pods", seen)
          BY <1>2, <2>3 DEF Tick
    <3>2. /\ poller'[q].at = "pods" /\ \A u \in Pollers : u # q => poller'[u] = poller[u]
          /\ \A r \in poller'[q].seen : r.address >= served
          BY <1>1, <3>1, PollerPlaced DEF Places
    <3> QED BY <2>1, <2>3, <3>2, MovedAges DEF Ages
  <2> QED BY <2>2, <2>3
<1>3. CASE Look(q)
  <2> DEFINE r == CHOOSE x \in poller[q].seen : TRUE
             left == poller[q].seen \ {r}
             z == IF r.name \in DOMAIN ipMap /\ ipMap[r.name] = 0
                  THEN [poller[q] EXCEPT !.at = "put", !.seen = left, !.item = r]
                  ELSE [poller[q] EXCEPT !.seen = left]
  <2>1. poller' = [poller EXCEPT ![q] = z] /\ poller[q].at \in {"pods", "svcs"} /\ poller[q] \in Workers
        BY <1>3 DEF Look, At, Types
  <2>2. Ageless
        BY <1>3 DEF Look, world, info, derived
  <2>3. r \in poller[q].seen /\ \A x \in left : x \in poller[q].seen
        BY <1>3 DEF Look
  <2> HIDE DEF r, left
  <2>4. /\ z.seen = left
        /\ z.at = "put" => z.item = r
        BY <2>1 DEF Workers
  <2> HIDE DEF z
  <2>5. poller'[q] = z /\ \A u \in Pollers : u # q => poller'[u] = poller[u]
        BY <2>1 DEF Types
  <2>6. ~overlapped /\ ~skipped => served # 0 /\ \A x \in poller[q].seen : x.address >= served
        BY <2>1 DEF Ages, Polling
  <2> QED BY <2>2, <2>3, <2>4, <2>5, <2>6, MovedAges
<1>4. CASE Put(q)
  <2> DEFINE r == poller[q].item
  <2>1. /\ poller[q].at = "put" /\ poller' = [poller EXCEPT ![q].at = "mark"] /\ poller[q] \in Workers
        /\ ipMap' = [n \in DOMAIN ipMap \cup {r.name} |-> IF n = r.name THEN r.address ELSE ipMap[n]]
        /\ UNCHANGED <<deployment, k8s, served, overlapped, skipped, tcEngineState>>
        BY <1>4 DEF Put, At, world, derived, Types
  <2>2. /\ poller'[q].at = "mark" /\ poller'[q].seen = poller[q].seen
        /\ \A u \in Pollers : u # q => poller'[u] = poller[u]
        BY <2>1 DEF Types, Workers
  <2> HIDE DEF r
  <2>3. ~overlapped /\ ~skipped => served # 0 /\ r.address >= served /\ \A x \in poller[q].seen : x.address >= served
        BY <2>1 DEF Ages, Polling, r
  <2>4. AddressesAreCurrent'
        BY <2>1, <2>3 DEF Ages, AddressesAreCurrent
  <2> QED BY <2>1, <2>2, <2>3, <2>4 DEF Ages, Polling
<1>5. CASE Mark(q)
  <2> DEFINE c == count[KindOf(poller[q].item.name)]
  <2>1. /\ poller[q].at = "mark" /\ poller' = [poller EXCEPT ![q].at = "count", ![q].read = c] /\ poller[q] \in Workers
        /\ Ageless
        BY <1>5 DEF Mark, At, world, info, Types
  <2> HIDE DEF c
  <2>2. poller'[q] = [[poller[q] EXCEPT !.at = "count"] EXCEPT !.read = c]
        BY <2>1 DEF Types
  <2>3. /\ poller'[q].at = "count" /\ poller'[q].seen = poller[q].seen
        /\ \A u \in Pollers : u # q => poller'[u] = poller[u]
        BY <2>1, <2>2 DEF Types, Workers
  <2>4. ~overlapped /\ ~skipped => served # 0 /\ \A x \in poller[q].seen : x.address >= served
        BY <2>1 DEF Ages, Polling
  <2> QED BY <2>1, <2>3, <2>4, MovedAges
<1>6. CASE Count(q)
  <2>1. PICK place \in {"pods", "svcs"} : Scan(q, place, poller[q].seen)
        BY <1>6 DEF Count
  <2>2. poller[q].at = "count" /\ poller[q].seen \in SUBSET Resources /\ Ageless
        BY <1>6 DEF Count, At, world, derived, Types, Workers
  <2>3. /\ poller'[q].at \in {"pods", "svcs"} /\ \A u \in Pollers : u # q => poller'[u] = poller[u]
        /\ poller'[q].seen = poller[q].seen \/ poller'[q].seen = {}
        BY <2>1, <2>2, PollerPlaced DEF Places
  <2>4. ~overlapped /\ ~skipped => served # 0 /\ \A x \in poller[q].seen : x.address >= served
        BY <2>2 DEF Ages, Polling
  <2> QED BY <2>2, <2>3, <2>4, MovedAges
<1>7. CASE ListSvcs(q)
  <2>1. PICK seen \in SUBSET k8s : Scan(q, "svcs", seen)
        BY <1>7 DEF ListSvcs
  <2>2. poller[q].at = "pods" /\ Ageless
        BY <1>7 DEF ListSvcs, At, world, info, derived
  <2>3. /\ poller'[q].at = "svcs" /\ \A u \in Pollers : u # q => poller'[u] = poller[u]
        /\ \A r \in poller'[q].seen : r.address >= served
        BY <1>1, <2>1, PollerPlaced DEF Places
  <2> QED BY <2>2, <2>3, MovedAges DEF Ages, Polling
<1>8. CASE Check(q) \/ Ready(q) \/ PollFails(q)
  <2>1. PICK place \in {"none", "sleep", "lock"} : GoTo(q, place)
        BY <1>8 DEF Check, Ready, PollFails
  <2>2. poller'[q].at \in {"none", "sleep", "lock"} /\ \A u \in Pollers : u # q => poller'[u] = poller[u]
        BY <2>1, PollerPlaced DEF Places
  <2>3. /\ UNCHANGED <<deployment, k8s, served, overlapped, skipped, ipMap>>
        /\ tcEngineState' \in {"Ready", tcEngineState}
        BY <1>8 DEF Check, Ready, PollFails, world, info, derived
  <2> QED BY <2>2, <2>3, MovedAges DEF Polling
<1> QED BY <1>2, <1>3, <1>4, <1>5, <1>6, <1>7, <1>8

\* No address is older than the deployment that is served, when the resources
\* of one deployment are gone before the next: unless a poller worked while the
\* scenario was stopped, or a terminate was overtaken by an activation.
THEOREM AddressesStayCurrent ==
  ASSUME MayLinger = FALSE
  PROVE  Spec => []AddressesAreCurrent
<1>1. Types /\ Ages /\ [Next]_vars => Ages'
  <2> SUFFICES ASSUME Types, Ages, [Next]_vars PROVE Ages'
      OBVIOUS
  <2>1. CASE ScenarioChange \/ ResourceUp \/ ResourceDown \/ RulesWritten
        BY <2>1, WorldAges
  <2>2. CASE StopScenario \/ ProcessScenario \/ MgSvcMapUpdate
        BY <2>2, ListenerAges
  <2>3. ASSUME NEW q \in Pollers,
               \/ Tick(q) \/ Look(q) \/ Put(q) \/ Mark(q) \/ Count(q) \/ ListSvcs(q) \/ Check(q)
               \/ Ready(q) \/ PollFails(q)
        PROVE  Ages'
        BY <2>3, PollerAges
  <2>4. CASE UNCHANGED vars
        BY <2>4 DEF vars, world, info, derived, Ages, Polling, AddressesAreCurrent
  <2> QED BY <2>1, <2>2, <2>3, <2>4 DEF Next
<1>2. IInv => Types
      BY DEF IInv
<1>3. Ages => AddressesAreCurrent
      BY DEF Ages
<1> QED BY <1>1, <1>2, <1>3, InitAges, EngineInvariant, PTL DEF Spec
=============================================================================
