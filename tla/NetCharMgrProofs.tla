--------------------------- MODULE NetCharMgrProofs --------------------------
(***************************************************************************)
(* Proofs about the network characteristics manager and the engine that    *)
(* it calls back: at rest the rules and what the sidecars know are those   *)
(* of the active scenario, up to the ways out that are named, for any      *)
(* flows, versions of the scenario and number of goroutines.               *)
(***************************************************************************)
EXTENDS NetCharMgr, TLAPS

Places  == {"none", "load", "loaded", "enter", "names", "nodes", "tick", "call", "complete"}
Holding == {"names", "nodes", "call", "complete"}
Some    == Docs \cup {NoDoc}
Running == tc \in {"starting", "Ready"}

ThreadTypes == [at : Places, doc : Some, version : Nat, names : {{}, Flows}, todo : SUBSET Flows]

Types ==
  /\ active \in Some /\ model \in Some /\ segments \in Some
  /\ toEngine \in Nat /\ toManager \in Nat /\ changes \in Nat /\ newest \in Nat
  /\ tc \in {"Idle", "Initializing", "starting", "Ready"} /\ (isStarted <=> Running)
  /\ DOMAIN flowMap \in {{}, Flows} /\ (rules = None \/ DOMAIN rules = Flows)
  /\ told \in BOOLEAN /\ crashed \in BOOLEAN /\ known \in BOOLEAN /\ late \in BOOLEAN /\ unsaid \in BOOLEAN
  /\ mutex \in Threads \cup {Free} /\ forgotten \subseteq Flows
  /\ thread \in [Threads -> ThreadTypes]

(* The manager's mutex belongs to whoever computes or calls back.          *)
Mutual == \A t \in Threads : thread[t].at \in Holding <=> mutex = t

(* Messages are not forgotten: the engine has followed the active scenario *)
(* or is to, and the newest version has been loaded or will be.            *)
Followed ==
  /\ toEngine = 0 => (known <=> active # NoDoc)
  /\ toManager = 0 => \/ newest = changes
                      \/ \E t \in Threads : thread[t].at = "loaded" /\ thread[t].version = changes
  /\ newest <= changes
  /\ \A t \in Threads : thread[t].version <= changes

(* There are rules only of a scenario that the engine has, and in a running *)
(* engine there are, unless a poller was late. Without rules there is       *)
(* nothing to tell.                                                         *)
Ruled ==
  /\ tc = "Initializing" => known
  /\ ~known \/ ~Running => rules = None
  /\ Running /\ ~late => DOMAIN rules = Flows
  /\ rules = None => told \/ unsaid

(* Whoever has the names has those of the model, or somebody is to follow.   *)
Listed ==
  \A t \in Threads : thread[t].at = "nodes" =>
    \/ thread[t].names = {} <=> model = NoDoc
    \/ \E u \in Threads : thread[u].at = "enter"

(* What is to be reported was applied.                                      *)
Reported == \A t \in Threads : /\ thread[t].todo \subseteq DOMAIN flowMap
                               /\ thread[t].at # "call" => thread[t].todo = {}

(* The segments are those of the model, or somebody is to compute them.    *)
ToCompute(t) == thread[t].at \in {"load", "loaded", "enter", "names", "nodes"}

Computing ==
  /\ isStarted /\ ~crashed =>
       segments = model \/ tc = "starting" \/ \E t \in Threads : ToCompute(t)
  /\ segments # NoDoc =>
       DOMAIN flowMap = Flows \/ \E t \in Threads : thread[t].at \in {"names", "nodes"}

(* What counts as applied is what was computed, but for a failure; every   *)
(* rule has it, or is about to be reported, or was made after it was       *)
(* reported. A flow that nothing was computed for will be reported.        *)
AppliedIsComputed ==
  ~missed => \A f \in DOMAIN flowMap : flowMap[f] = Computed(segments, f)

ToReport(f) == \E t \in Threads : thread[t].at = "call" /\ f \in thread[t].todo

RulesFollow ==
  rules # None => \A f \in DOMAIN flowMap :
    rules[f] = flowMap[f] \/ flowMap[f] = Default \/ ToReport(f) \/ (f \in forgotten /\ rules[f] = Default)

(* The sidecars know the rules, or will be told, or nothing was reported,  *)
(* or the last message failed.                                             *)
TellingFollows ==
  ~told =>
    \/ unsaid
    \/ \E t \in Threads : thread[t].at \in {"call", "complete"}
    \/ \A f \in DOMAIN flowMap : f \in forgotten \/ flowMap[f] = Default

IInv == /\ Types /\ Mutual /\ Followed /\ Ruled /\ Listed /\ Reported /\ Computing
        /\ AppliedIsComputed /\ RulesFollow /\ TellingFollows
-----------------------------------------------------------------------------
(* A step of a goroutine leaves the others where they are.                 *)
Others(t) == \A u \in Threads : u # t => thread'[u] = thread[u]

LEMMA GoesTo ==
  ASSUME NEW t \in Threads, NEW place \in Places, Types, GoTo(t, place)
  PROVE  /\ thread' \in [Threads -> ThreadTypes] /\ Others(t)
         /\ thread'[t] = [thread[t] EXCEPT !.at = place]
BY DEF Types, GoTo, ThreadTypes, Others

LEMMA RestsAgain == Resting \in ThreadTypes
BY SMT DEF Resting, ThreadTypes, Places, Some

LEMMA Leaves ==
  ASSUME NEW t \in Threads, Types, Leave(t)
  PROVE  thread' \in [Threads -> ThreadTypes] /\ Others(t) /\ thread'[t] = Resting
BY RestsAgain DEF Types, Leave, Others

LEMMA NoFlows == DOMAIN None = {} /\ Flows # {}
BY NcAssumption DEF None

LEMMA NothingToUpdate ==
  ASSUME NEW f, rules = None
  PROVE  [g \in DOMAIN rules |-> IF g = f THEN flowMap[f] ELSE rules[g]] = None
BY DEF None

(* What is computed for a flow is never what new rules have.               *)
LEMMA ComputedIsNew ==
  ASSUME NEW seg \in Some, NEW f \in Flows
  PROVE  Computed(seg, f) # Default
BY NcAssumption DEF Some, Computed
-----------------------------------------------------------------------------
(* Initially nothing runs.                                                 *)
LEMMA InitInv == Init => IInv
<1> SUFFICES ASSUME Init PROVE IInv
    OBVIOUS
<1> USE DEF Init
<1>1. Types
      BY RestsAgain, NoFlows DEF Types, Some, Running, Threads
<1>2. \A t \in Threads : thread[t] = Resting
      OBVIOUS
<1>3. Mutual
      BY <1>2, NcAssumption DEF Mutual, Resting, Holding
<1>4. Followed /\ Ruled /\ Listed /\ Reported
      BY <1>2 DEF Followed, Ruled, Running, Listed, Reported, Resting
<1>5. Computing /\ AppliedIsComputed /\ RulesFollow /\ TellingFollows
      BY NoFlows DEF Computing, AppliedIsComputed, RulesFollow, TellingFollows, Running
<1> QED BY <1>1, <1>3, <1>4, <1>5 DEF IInv
-----------------------------------------------------------------------------
(* The scenario and the engine: no goroutine of the manager moves.          *)
LEMMA ScenarioChangeInv == IInv /\ ScenarioChange => IInv'
<1> SUFFICES ASSUME IInv, ScenarioChange PROVE IInv'
    OBVIOUS
<1> USE DEF IInv, ScenarioChange, engine, manager, history
<1>1. Types'
      BY DEF Types, Some, Running
<1>2. Followed' /\ Ruled'
      BY DEF Types, Followed, ThreadTypes, Ruled, Running
<1>3. Mutual' /\ Listed' /\ Reported'
      BY DEF Mutual, Listed, Reported
<1>4. Computing' /\ AppliedIsComputed'
      BY DEF Computing, ToCompute, AppliedIsComputed, Computed
<1>5. RulesFollow' /\ TellingFollows'
      BY DEF RulesFollow, TellingFollows, Running, ToReport
<1> QED BY <1>1, <1>2, <1>3, <1>4, <1>5

LEMMA StopScenarioInv == IInv /\ StopScenario => IInv'
<1> SUFFICES ASSUME IInv, StopScenario PROVE IInv'
    OBVIOUS
<1> USE DEF IInv, StopScenario
<1>6. (told' \/ unsaid') /\ told' \in BOOLEAN /\ unsaid' \in BOOLEAN
      BY Zenon DEF Types, Tell
<1>7. tc' = "Idle" /\ known' = FALSE /\ rules' = None /\ isStarted' = FALSE /\ late' = FALSE
      OBVIOUS
<1>1. Types'
  <2>1. isStarted' <=> Running'
        BY <1>7 DEF Running
  <2>2. known' \in BOOLEAN /\ late' \in BOOLEAN /\ tc' \in {"Idle", "Initializing", "starting", "Ready"}
        BY <1>7
  <2>3. rules' = None \/ DOMAIN rules' = Flows
        BY <1>7
  <2>4. /\ active' \in Some /\ model' \in Some /\ segments' \in Some
        /\ toEngine' \in Nat /\ toManager' \in Nat /\ changes' \in Nat /\ newest' \in Nat
        /\ DOMAIN flowMap' \in {{}, Flows} /\ crashed' \in BOOLEAN
        /\ mutex' \in Threads \cup {Free} /\ forgotten' \subseteq Flows
        /\ thread' \in [Threads -> ThreadTypes]
        BY DEF Types
  <2> QED BY <1>6, <2>1, <2>2, <2>3, <2>4 DEF Types, Some
<1>2. Followed' /\ Ruled'
      BY <1>6 DEF Types, Followed, Ruled, Running
<1>3. Mutual' /\ Listed' /\ Reported'
      BY DEF Mutual, Listed, Reported
<1>4. Computing' /\ AppliedIsComputed'
      BY DEF Computing, ToCompute, AppliedIsComputed, Computed
<1>5. RulesFollow' /\ TellingFollows'
      BY DEF RulesFollow, TellingFollows, Tell
<1> QED BY <1>1, <1>2, <1>3, <1>4, <1>5

LEMMA ProcessScenarioInv == IInv /\ ProcessScenario => IInv'
<1> SUFFICES ASSUME IInv, ProcessScenario PROVE IInv'
    OBVIOUS
<1> USE DEF IInv, ProcessScenario, manager, history
<1>1. tc' # "Idle" /\ (tc' = "starting" <=> tc = "starting") /\ (Running' <=> Running)
      BY DEF Unlocked, Running
<1>2. Types'
      BY <1>1 DEF Types, Some
<1>3. Followed' /\ Ruled'
      BY <1>1 DEF Types, Followed, Ruled, Running
<1>4. Mutual' /\ Listed' /\ Reported'
      BY DEF Mutual, Listed, Reported
<1>5. Computing' /\ AppliedIsComputed'
      BY <1>1 DEF Computing, ToCompute, AppliedIsComputed, Computed
<1>6. RulesFollow' /\ TellingFollows'
      BY <1>1 DEF RulesFollow, TellingFollows, ToReport
<1> QED BY <1>2, <1>3, <1>4, <1>5, <1>6

LEMMA TestInv == IInv /\ Test => IInv'
<1> SUFFICES ASSUME IInv, Test PROVE IInv'
    OBVIOUS
<1> USE DEF IInv, Test, world, manager, history
<1>1. Types'
      BY DEF Types, Some, Running
<1>2. Followed' /\ Ruled'
      BY DEF Types, Followed, Ruled, Running
<1>3. Mutual' /\ Listed' /\ Reported'
      BY DEF Mutual, Listed, Reported
<1>4. Computing' /\ AppliedIsComputed'
      BY DEF Computing, ToCompute, AppliedIsComputed, Computed
<1>5. RulesFollow' /\ TellingFollows'
      BY DEF RulesFollow, TellingFollows, ToReport
<1> QED BY <1>1, <1>2, <1>3, <1>4, <1>5

(* A poller that was late makes the engine run without a scenario, and so   *)
(* without rules.                                                           *)
LEMMA ReadyInv == IInv /\ Ready => IInv'
<1> SUFFICES ASSUME IInv, Ready PROVE IInv'
    OBVIOUS
<1> USE DEF IInv, Ready, world
<1>1. Running' /\ isStarted' = TRUE /\ tc' # "Initializing"
      BY DEF Running
<1>2. late' = (late \/ tc = "Idle") /\ late' \in BOOLEAN
      BY Zenon
<1>5. Mutual' /\ Listed' /\ Reported' /\ Computing' /\ AppliedIsComputed'
  <2>1. Mutual' /\ Listed' /\ Reported'
        BY DEF Mutual, Listed, Reported
  <2>2. Computing'
    <3>1. tc # "starting" /\ (isStarted <=> tc = "Ready")
          BY DEF Unlocked, Types, Running
    <3> QED BY <3>1 DEF Computing, ToCompute
  <2>3. AppliedIsComputed'
        BY DEF AppliedIsComputed, Computed
  <2> QED BY <2>1, <2>2, <2>3
<1>3. CASE known /\ rules = None
  <2>1. DOMAIN rules' = Flows /\ told' = FALSE /\ forgotten' = DOMAIN flowMap
        /\ \A f \in Flows : rules'[f] = Default
        BY <1>3
  <2>2. Types'
        BY <1>1, <1>2, <2>1 DEF Types, Some
  <2>3. Followed' /\ Ruled'
        BY <1>1, <1>2, <1>3, <2>1, NoFlows DEF Types, Followed, Ruled
  <2>4. RulesFollow' /\ TellingFollows'
        BY <2>1 DEF Types, RulesFollow, TellingFollows
  <2> QED BY <1>5, <2>2, <2>3, <2>4
<1>4. CASE ~(known /\ rules = None)
  <2>1. UNCHANGED <<rules, told, forgotten>>
        BY <1>4
  <2>2. Types'
        BY <1>1, <1>2, <2>1 DEF Types, Some
  <2>3. Followed'
        BY <2>1 DEF Types, Followed
  <2>4. Ruled'
    <3>1. ~known \/ DOMAIN rules = Flows
          BY <1>4 DEF Types
    <3>2. tc \in {"Idle", "Initializing"} \/ Running
          BY DEF Types, Running
    <3>3. CASE known
          BY <1>1, <1>2, <2>1, <3>1, <3>3 DEF Ruled
    <3>4. CASE ~known
      <4>1. rules = None /\ tc # "Initializing"
            BY <3>4 DEF Ruled
      <4>2. Running /\ ~late => DOMAIN rules = Flows
            BY DEF Ruled
      <4>3. late'
            BY <1>2, <3>2, <4>1, <4>2, NoFlows
      <4> QED BY <1>1, <2>1, <4>1, <4>3 DEF Ruled
    <3> QED BY <3>3, <3>4
  <2>5. RulesFollow' /\ TellingFollows'
        BY <2>1 DEF RulesFollow, TellingFollows, ToReport
  <2> QED BY <1>5, <2>2, <2>3, <2>4, <2>5
<1> QED BY <1>3, <1>4

LEMMA RestInv == IInv /\ UNCHANGED vars => IInv'
<1> SUFFICES ASSUME IInv, UNCHANGED vars PROVE IInv'
    OBVIOUS
<1> USE DEF IInv, vars, world, engine, manager, history
<1>1. Types' /\ Followed' /\ Mutual' /\ Listed' /\ Reported'
      BY DEF Types, Some, Running, Followed, Mutual, Listed, Reported
<1>3. Ruled'
      BY DEF Ruled, Running
<1>2. Computing' /\ AppliedIsComputed' /\ RulesFollow' /\ TellingFollows'
      BY DEF Computing, ToCompute, AppliedIsComputed, Computed, RulesFollow, TellingFollows,
             Running, ToReport
<1> QED BY <1>1, <1>2, <1>3
-----------------------------------------------------------------------------
(* A goroutine that starts, listens or waits.                               *)

LEMMA StartInv == IInv /\ Start => IInv'
<1> SUFFICES ASSUME IInv, Start PROVE IInv'
    OBVIOUS
<1> USE DEF IInv, Start, world, manager, history
<1>1. PICK t \in Threads : thread[t].at = "none" /\ GoTo(t, "load")
      BY DEF Threads
<1>2. /\ thread' \in [Threads -> ThreadTypes] /\ Others(t)
      /\ thread'[t] = [thread[t] EXCEPT !.at = "load"]
      BY <1>1, GoesTo DEF Places
<1>3. thread'[t].at = "load" /\ thread'[t].version = thread[t].version /\ thread'[t].todo = thread[t].todo
      BY <1>2 DEF Types, ThreadTypes
<1> USE <1>1, <1>2, <1>3 DEF Others
<1>4. Types'
      BY DEF Types, Some, Running
<1>5. Followed' /\ Ruled'
      BY DEF Types, Followed, Ruled, Running
<1>6. Mutual' /\ Listed' /\ Reported'
  <2>1. Mutual'
        BY DEF Mutual, Holding
  <2>2. Listed'
        BY DEF Listed
  <2>3. Reported'
        BY DEF Reported
  <2> QED BY <2>1, <2>2, <2>3
<1>7. Computing' /\ AppliedIsComputed'
      BY DEF Computing, ToCompute, AppliedIsComputed, Computed
<1>8. RulesFollow' /\ TellingFollows'
      BY DEF RulesFollow, TellingFollows, Running, ToReport
<1> QED BY <1>4, <1>5, <1>6, <1>7, <1>8

LEMMA TickInv == ASSUME NEW t \in Workers PROVE IInv /\ Tick(t) => IInv'
<1> SUFFICES ASSUME IInv, Tick(t) PROVE IInv'
    OBVIOUS
<1> USE DEF IInv, Tick, At, world, engine, manager, history
<1>1. t \in Threads
      BY DEF Threads
<1>2. /\ thread' \in [Threads -> ThreadTypes] /\ Others(t)
      /\ thread'[t] = [thread[t] EXCEPT !.at = "tick"]
      BY <1>1, GoesTo DEF Places
<1>3. thread'[t].at = "tick" /\ thread'[t].version = thread[t].version /\ thread'[t].todo = thread[t].todo
      BY <1>1, <1>2 DEF Types, ThreadTypes
<1> USE <1>1, <1>2, <1>3 DEF Others
<1>4. Types'
      BY DEF Types, Some, Running
<1>5. Followed' /\ Ruled'
      BY DEF Types, Followed, Ruled, Running
<1>6. Mutual' /\ Listed' /\ Reported'
  <2>1. Mutual'
        BY DEF Mutual, Holding
  <2>2. Listed'
        BY DEF Listed
  <2>3. Reported'
        BY DEF Reported
  <2> QED BY <2>1, <2>2, <2>3
<1>7. Computing' /\ AppliedIsComputed'
      BY DEF Computing, ToCompute, AppliedIsComputed, Computed
<1>8. RulesFollow' /\ TellingFollows'
      BY DEF RulesFollow, TellingFollows, Running, ToReport
<1> QED BY <1>4, <1>5, <1>6, <1>7, <1>8

LEMMA LoadInv == ASSUME NEW t \in Threads PROVE IInv /\ Load(t) => IInv'
<1> SUFFICES ASSUME IInv, Load(t) PROVE IInv'
    OBVIOUS
<1> USE DEF IInv, Load, At, engine, manager, history
<1> DEFINE loaded == [Resting EXCEPT !.at = "loaded", !.doc = active, !.version = changes]
<1>1. loaded \in ThreadTypes /\ loaded.at = "loaded" /\ loaded.version = changes /\ loaded.todo = {}
      BY DEF Types, ThreadTypes, Places, Some, Resting
<1>2. thread' = [thread EXCEPT ![t] = loaded]
      OBVIOUS
<1> HIDE DEF loaded
<1>3. thread' \in [Threads -> ThreadTypes] /\ Others(t) /\ thread'[t] = loaded
      BY <1>1, <1>2 DEF Types, Others
<1>4. thread[t].at \in {"none", "load"}
      OBVIOUS
<1> USE <1>1, <1>3, <1>4 DEF Others
<1>5. Types'
      BY DEF Types, Some, Running
<1>6. Followed' /\ Ruled'
      BY DEF Types, Followed, Ruled, Running
<1>7. Mutual' /\ Listed' /\ Reported'
      BY DEF Mutual, Holding, Listed, Reported
<1>8. Computing' /\ AppliedIsComputed'
      BY DEF Computing, ToCompute, AppliedIsComputed, Computed
<1>9. RulesFollow' /\ TellingFollows'
      BY DEF RulesFollow, TellingFollows, Running, ToReport
<1> QED BY <1>5, <1>6, <1>7, <1>8, <1>9

LEMMA SetModelInv == ASSUME NEW t \in Threads PROVE IInv /\ SetModel(t) => IInv'
<1> SUFFICES ASSUME IInv, SetModel(t) PROVE IInv'
    OBVIOUS
<1> USE DEF IInv, SetModel, At, world, engine, history
<1>1. /\ thread' \in [Threads -> ThreadTypes] /\ Others(t)
      /\ thread'[t] = [thread[t] EXCEPT !.at = "enter"]
      BY GoesTo DEF Places
<1>2. thread'[t].at = "enter" /\ thread'[t].version = thread[t].version /\ thread'[t].todo = thread[t].todo
      BY <1>1 DEF Types, ThreadTypes
<1> USE <1>1, <1>2 DEF Others
<1>3. Types'
      BY DEF Types, ThreadTypes, Some, Running
<1>4. Followed'
  <2>1. /\ newest \in Nat /\ changes \in Nat /\ newest <= changes
        /\ \A u \in Threads : thread[u].version \in Nat /\ thread[u].version <= changes
        BY DEF Types, ThreadTypes, Followed
  <2>2. newest' <= changes /\ \A u \in Threads : thread'[u].version <= changes
        BY <2>1
  <2>3. toManager = 0 => \/ newest' = changes
                         \/ \E u \in Threads : thread'[u].at = "loaded" /\ thread'[u].version = changes
    <3> SUFFICES ASSUME toManager = 0 PROVE \/ newest' = changes
                         \/ \E u \in Threads : thread'[u].at = "loaded" /\ thread'[u].version = changes
        OBVIOUS
    <3>1. CASE newest = changes
          BY <3>1, <2>1
    <3>2. CASE \E u \in Threads : thread[u].at = "loaded" /\ thread[u].version = changes
      <4>1. PICK u \in Threads : thread[u].at = "loaded" /\ thread[u].version = changes
            BY <3>2
      <4>2. CASE u = t
            BY <4>1, <4>2, <2>1
      <4>3. CASE u # t
            BY <4>1, <4>3
      <4> QED BY <4>2, <4>3
    <3> QED BY <3>1, <3>2 DEF Followed
  <2> QED BY <2>2, <2>3 DEF Followed
<1>8. Ruled'
      BY DEF Ruled, Running
<1>5. Mutual' /\ Listed' /\ Reported'
      BY DEF Mutual, Holding, Listed, Reported
<1>6. Computing' /\ AppliedIsComputed'
      BY DEF Computing, ToCompute, AppliedIsComputed, Computed
<1>7. RulesFollow' /\ TellingFollows'
      BY DEF RulesFollow, TellingFollows, Running, ToReport
<1> QED BY <1>3, <1>4, <1>5, <1>6, <1>7, <1>8

(* Entering: the mutex is free, so nobody computes or calls back.           *)
LEMMA EnterInv == ASSUME NEW t \in Threads PROVE IInv /\ Enter(t) => IInv'
<1> SUFFICES ASSUME IInv, Enter(t) PROVE IInv'
    OBVIOUS
<1> USE DEF IInv, Enter, At, world, engine, history
<1>1. \A u \in Threads : thread[u].at \notin Holding
      BY NcAssumption DEF Mutual
<1>2. CASE isStarted
  <2>1. /\ thread' \in [Threads -> ThreadTypes] /\ Others(t)
        /\ thread'[t] = [thread[t] EXCEPT !.at = "names"]
        BY <1>2, GoesTo DEF Places
  <2>2. thread'[t].at = "names" /\ thread'[t].version = thread[t].version /\ thread'[t].todo = thread[t].todo
        BY <2>1 DEF Types, ThreadTypes
  <2>3. DOMAIN flowMap' \in {{}, DOMAIN flowMap} /\ \A f \in DOMAIN flowMap' : flowMap'[f] = flowMap[f]
        BY <1>2, NoFlows
  <2>4. \A u \in Threads : thread[u].todo = {} /\ thread'[u].todo = {}
        BY <1>1, <2>1, <2>2 DEF Reported, Holding, Others
  <2> USE <1>1, <1>2, <2>1, <2>2 DEF Others
  <2>5. Types'
        BY <2>3 DEF Types, Some, Running
  <2>6. Followed' /\ Ruled'
        BY DEF Types, Followed, Ruled, Running
  <2>7. Mutual'
    <3>1. mutex' = t
          BY <1>2
    <3>2. \A u \in Threads : thread'[u].at \in Holding <=> u = t
          BY <1>1, <2>1, <2>2 DEF Holding
    <3> QED BY <3>1, <3>2 DEF Mutual
  <2>8. Listed'
        BY DEF Listed, Holding
  <2>9. Reported'
        BY <2>4 DEF Reported
  <2>10. Computing'
        BY DEF Computing, ToCompute
  <2>11. AppliedIsComputed'
        BY <2>3 DEF AppliedIsComputed, Computed
  <2>12. RulesFollow'
        BY <2>3 DEF RulesFollow, Running, ToReport, Holding
  <2>13. TellingFollows'
        BY <2>3 DEF TellingFollows, Running, Holding
  <2> QED BY <2>5, <2>6, <2>7, <2>8, <2>9, <2>10, <2>11, <2>12, <2>13
<1>3. CASE ~isStarted
  <2>1. thread' \in [Threads -> ThreadTypes] /\ Others(t) /\ thread'[t] = Resting
        BY <1>3, Leaves
  <2>2. thread'[t].at = "none" /\ thread'[t].version = 0 /\ thread'[t].todo = {}
        BY <2>1 DEF Resting
  <2> USE <1>1, <1>3, <2>1, <2>2 DEF Others
  <2>3. Types'
        BY DEF Types, Some, Running
  <2>4. Followed' /\ Ruled'
        BY DEF Types, Followed, Ruled, Running
  <2>5. Mutual'
        BY DEF Mutual, Holding
  <2>6. Listed'
        BY DEF Listed, Holding
  <2>7. Reported'
        BY DEF Reported
  <2>8. Computing' /\ AppliedIsComputed'
        BY DEF Computing, ToCompute, AppliedIsComputed, Computed
  <2>9. RulesFollow' /\ TellingFollows'
        BY DEF RulesFollow, TellingFollows, ToReport
  <2> QED BY <2>3, <2>4, <2>5, <2>6, <2>7, <2>8, <2>9
<1> QED BY <1>2, <1>3

LEMMA ListNamesInv == ASSUME NEW t \in Threads PROVE IInv /\ ListNames(t) => IInv'
<1> SUFFICES ASSUME IInv, ListNames(t) PROVE IInv'
    OBVIOUS
<1> USE DEF IInv, ListNames, At, world, engine, manager, history
<1>2. DEFINE listed == [thread[t] EXCEPT !.at = "nodes", !.names = IF model = NoDoc THEN {} ELSE Flows]
<1>3. /\ listed \in ThreadTypes /\ listed.at = "nodes" /\ listed.version = thread[t].version
      /\ listed.todo = thread[t].todo /\ listed.names = IF model = NoDoc THEN {} ELSE Flows
      BY DEF Types, ThreadTypes, Places
<1>4. thread' = [thread EXCEPT ![t] = listed]
      BY DEF Types, ThreadTypes
<1> HIDE DEF listed
<1>5. thread' \in [Threads -> ThreadTypes] /\ Others(t) /\ thread'[t] = listed
      BY <1>3, <1>4 DEF Types, Others
<1>6. thread[t].at = "names"
      OBVIOUS
<1> USE <1>3, <1>5, <1>6 DEF Others
<1>7. Types'
      BY DEF Types, Some, Running
<1>8. Followed' /\ Ruled'
      BY DEF Types, Followed, Ruled, Running
<1>9. Mutual'
      BY DEF Mutual, Holding
<1>10. Listed'
      BY NcAssumption DEF Listed
<1>11. Reported'
      BY DEF Reported
<1>12. Computing' /\ AppliedIsComputed'
      BY DEF Computing, ToCompute, AppliedIsComputed, Computed
<1>13. RulesFollow' /\ TellingFollows'
      BY DEF RulesFollow, TellingFollows, Running, ToReport
<1> QED BY <1>7, <1>8, <1>9, <1>10, <1>11, <1>12, <1>13
-----------------------------------------------------------------------------
(* The callbacks.                                                          *)

LEMMA NetCharUpdateInv == ASSUME NEW t \in Threads PROVE IInv /\ NetCharUpdate(t) => IInv'
<1> SUFFICES ASSUME IInv, NetCharUpdate(t) PROVE IInv'
    OBVIOUS
<1> USE DEF IInv, At, world, manager
<1>14. /\ thread[t].todo \subseteq DOMAIN flowMap /\ thread[t].todo \subseteq Flows
       BY DEF Types, Reported
<1>1. PICK f \in thread[t].todo :
       /\ rules' = [g \in DOMAIN rules |-> IF g = f THEN flowMap[f] ELSE rules[g]]
       /\ told' = (told /\ f \notin DOMAIN rules)
       /\ forgotten' = IF f \in DOMAIN rules THEN forgotten \ {f} ELSE forgotten
       /\ thread' = [thread EXCEPT ![t].todo = @ \ {f},
                                   ![t].at = IF thread[t].todo = {f} THEN "complete" ELSE "call"]
      BY Zenon DEF NetCharUpdate
<1>2. At(t, "call") /\ UNCHANGED <<world, tc, pollers, waiting, known, manager, missed, unsaid, late>>
      BY DEF NetCharUpdate
<1>3. told' \in BOOLEAN
      BY <1>1, Zenon
<1>15. rules = None => rules' = None /\ told' = told
  <2>1. rules = None => rules' = None
        BY <1>1, NothingToUpdate
  <2>2. rules = None => f \notin DOMAIN rules
        BY NoFlows
  <2>3. told \in BOOLEAN
        BY DEF Types
  <2> QED BY <1>1, <2>1, <2>2, <2>3, Zenon
<1>16. rules # None => DOMAIN rules = Flows /\ DOMAIN rules' = Flows /\ rules' # None
      BY <1>1, NoFlows DEF Types
<1>4. /\ thread' \in [Threads -> ThreadTypes] /\ Others(t)
      /\ thread'[t].at = IF thread[t].todo = {f} THEN "complete" ELSE "call"
      /\ thread'[t].todo = thread[t].todo \ {f} /\ thread'[t].version = thread[t].version
      BY <1>1 DEF Types, ThreadTypes, Places, Others
<1>5. /\ rules' = [g \in DOMAIN rules |-> IF g = f THEN flowMap[f] ELSE rules[g]]
      /\ forgotten' = IF f \in DOMAIN rules THEN forgotten \ {f} ELSE forgotten
      BY <1>1
<1> USE <1>2, <1>4 DEF Others
<1>6. Types'
      BY <1>3, <1>5, <1>15, <1>16 DEF Types, Some, Running
<1>7. Followed' /\ Ruled'
      BY <1>15, <1>16, NoFlows DEF Types, Followed, Ruled, Running
<1>8. Mutual'
      BY DEF Mutual, Holding
<1>9. Listed'
      BY DEF Listed
<1>10. Reported'
      BY DEF Reported
<1>11. Computing' /\ AppliedIsComputed'
      BY DEF Computing, ToCompute, AppliedIsComputed, Computed
<1>12. RulesFollow'
      BY <1>5, <1>14, <1>15, <1>16 DEF Types, RulesFollow, ToReport
<1>13. TellingFollows'
      BY DEF TellingFollows
<1> QED BY <1>6, <1>7, <1>8, <1>9, <1>10, <1>11, <1>12, <1>13

LEMMA UpdateCompleteInv == ASSUME NEW t \in Threads PROVE IInv /\ UpdateComplete(t) => IInv'
<1> SUFFICES ASSUME IInv, UpdateComplete(t) PROVE IInv'
    OBVIOUS
<1> USE DEF IInv, UpdateComplete, At, Tell
<1>1. thread' \in [Threads -> ThreadTypes] /\ Others(t) /\ thread'[t] = Resting
      BY Leaves
<1>2. thread'[t].at = "none" /\ thread'[t].version = 0 /\ thread'[t].todo = {}
      BY <1>1 DEF Resting
<1> USE <1>1, <1>2 DEF Others
<1>3. Types'
      BY DEF Types, Some, Running
<1>4. Followed' /\ Ruled'
      BY DEF Types, Followed, Ruled, Running
<1>5. Mutual'
      BY NcAssumption DEF Mutual, Holding
<1>6. Listed' /\ Reported'
      BY DEF Listed, Reported
<1>7. Computing' /\ AppliedIsComputed'
      BY DEF Computing, ToCompute, AppliedIsComputed, Computed
<1>8. RulesFollow' /\ TellingFollows'
      BY DEF RulesFollow, TellingFollows, Running, ToReport
<1> QED BY <1>3, <1>4, <1>5, <1>6, <1>7, <1>8
-----------------------------------------------------------------------------
(* The calculation, by whoever holds the mutex or takes it while it is free: *)
(* what is not reported was applied before, with the same characteristics.   *)
Calculated(t, seg, flows) ==
  /\ thread' \in [Threads -> ThreadTypes] /\ Others(t)
  /\ thread'[t].version <= changes
  /\ DOMAIN flowMap' = flows /\ (~missed' => \A f \in flows : flowMap'[f] = Computed(seg, f))
  /\ \/ /\ thread'[t].at = "call" /\ mutex' = t /\ thread'[t].todo \subseteq flows
     \/ /\ thread'[t].at = "none" /\ mutex' = Free /\ thread'[t].todo = {}
  /\ \A f \in flows :
       \/ thread'[t].at = "call" /\ f \in thread'[t].todo
       \/ flowMap'[f] = Default
       \/ f \in DOMAIN flowMap /\ flowMap[f] = flowMap'[f]

LEMMA CalculateIs ==
  ASSUME IInv, NEW t \in Threads, NEW seg \in Some, NEW flows \in {{}, Flows}, Calculate(t, seg, flows)
  PROVE  Calculated(t, seg, flows)
<1> DEFINE applied == [f \in flows |-> IF f \in DOMAIN flowMap THEN flowMap[f] ELSE Default]
           changed == {f \in flows : applied[f] # Computed(seg, f)}
<1>1. \/ missed' = TRUE /\ flowMap' = applied /\ Leave(t) /\ mutex' = Free
      \/ /\ flowMap' = [f \in flows |-> Computed(seg, f)]
         /\ \E more \in SUBSET flows :
              IF changed \cup more = {}
              THEN Leave(t) /\ mutex' = Free
              ELSE /\ mutex' = t
                   /\ thread' = [thread EXCEPT ![t].at = "call", ![t].todo = changed \cup more]
      BY Zenon DEF Calculate
<1>2. changed \subseteq flows /\ flows \subseteq Flows
      OBVIOUS
<1>3. thread[t].version \in Nat /\ thread[t].version <= changes /\ changes \in Nat
      BY DEF IInv, Types, ThreadTypes, Followed
<1>4. ASSUME Leave(t)
      PROVE  /\ thread' \in [Threads -> ThreadTypes] /\ Others(t)
             /\ thread'[t].at = "none" /\ thread'[t].version = 0 /\ thread'[t].todo = {}
  <2>1. thread' \in [Threads -> ThreadTypes] /\ Others(t) /\ thread'[t] = Resting
        BY <1>4, Leaves DEF IInv
  <2> QED BY <2>1 DEF Resting
<1>5. \A f \in flows : applied[f] = IF f \in DOMAIN flowMap THEN flowMap[f] ELSE Default
      OBVIOUS
<1>6. CASE missed' = TRUE /\ flowMap' = applied /\ Leave(t) /\ mutex' = Free
  <2>1. DOMAIN flowMap' = flows /\ \A f \in flows : flowMap'[f] = IF f \in DOMAIN flowMap THEN flowMap[f] ELSE Default
        BY <1>6
  <2> HIDE DEF applied
  <2> QED BY <1>3, <1>4, <1>6, <2>1 DEF Calculated
<1>7. CASE /\ flowMap' = [f \in flows |-> Computed(seg, f)]
           /\ \E more \in SUBSET flows :
                IF changed \cup more = {}
                THEN Leave(t) /\ mutex' = Free
                ELSE /\ mutex' = t
                     /\ thread' = [thread EXCEPT ![t].at = "call", ![t].todo = changed \cup more]
  <2>1. PICK more \in SUBSET flows :
          IF changed \cup more = {}
          THEN Leave(t) /\ mutex' = Free
          ELSE /\ mutex' = t
               /\ thread' = [thread EXCEPT ![t].at = "call", ![t].todo = changed \cup more]
        BY <1>7
  <2>2. DOMAIN flowMap' = flows /\ \A f \in flows : flowMap'[f] = Computed(seg, f)
        BY <1>7
  <2>3. \A f \in flows : f \in changed \/ (f \in DOMAIN flowMap /\ flowMap[f] = flowMap'[f])
        BY <1>2, <1>5, <2>2, ComputedIsNew
  <2> HIDE DEF changed, applied
  <2>4. CASE changed \cup more = {}
    <3>1. Leave(t) /\ mutex' = Free
          BY <2>1, <2>4
    <3> QED BY <1>3, <1>4, <2>2, <2>3, <2>4, <3>1 DEF Calculated
  <2>5. CASE changed \cup more # {}
    <3>1. PICK todo \in SUBSET Flows : todo = changed \cup more
          BY <1>2
    <3>2. mutex' = t /\ thread' = [thread EXCEPT ![t].at = "call", ![t].todo = todo]
          BY <2>1, <2>5, <3>1
    <3>3. /\ thread' \in [Threads -> ThreadTypes] /\ Others(t)
          /\ thread'[t].at = "call" /\ thread'[t].todo = todo /\ thread'[t].version = thread[t].version
          BY <3>2 DEF IInv, Types, ThreadTypes, Places, Others
    <3> QED BY <1>2, <1>3, <2>2, <2>3, <3>1, <3>2, <3>3 DEF Calculated
  <2> QED BY <2>4, <2>5
<1> QED BY <1>1, <1>6, <1>7

(* It keeps what the invariant says of the flows, the rules and the mutex.   *)
LEMMA CalculatedKeeps ==
  ASSUME IInv, NEW t \in Threads, NEW seg \in Some, NEW flows \in {{}, Flows},
         Calculated(t, seg, flows), segments' = seg,
         thread[t].at \in {"nodes", "tick"},
         \A u \in Threads : u # t => thread[u].at \notin Holding,
         UNCHANGED <<active, toEngine, toManager, changes, engine, isStarted, model, newest, forgotten, unsaid, late>>, crashed' = crashed
  PROVE  /\ Types' /\ Mutual' /\ Followed' /\ Ruled' /\ Reported'
         /\ AppliedIsComputed' /\ RulesFollow' /\ TellingFollows'
<1> USE DEF Calculated, Others, engine
<1>1. Types'
      BY DEF IInv, Types, Some, Running
<1>2. Mutual'
      BY NcAssumption DEF Mutual, Holding
<1>3. Followed'
      BY DEF IInv, Types, Followed
<1>8. Ruled'
      BY DEF IInv, Ruled, Running
<1>4. Reported'
      BY DEF IInv, Reported, Holding
<1>5. AppliedIsComputed'
      BY DEF AppliedIsComputed, Computed
<1>6. RulesFollow'
      BY DEF IInv, RulesFollow, Running, ToReport, Holding
<1>7. TellingFollows'
      BY DEF IInv, TellingFollows, Running, Holding
<1> QED BY <1>1, <1>2, <1>3, <1>4, <1>5, <1>6, <1>7, <1>8

LEMMA ProcessInv == ASSUME NEW t \in Threads PROVE IInv /\ Process(t) => IInv'
<1> SUFFICES ASSUME IInv, Process(t) PROVE IInv'
    OBVIOUS
<1>1. /\ thread[t].at = "nodes"
      /\ UNCHANGED <<active, toEngine, toManager, changes, engine, isStarted, model, newest, forgotten, unsaid, late>>
      /\ thread[t].names \in {{}, Flows} /\ model \in Some /\ segments \in Some /\ NoDoc \in Some
      /\ DOMAIN flowMap \in {{}, Flows}
      BY DEF IInv, Types, ThreadTypes, Process, At, Some
<1>2. CASE thread[t].names # {} /\ model = NoDoc
  <2>1. crashed' = TRUE /\ UNCHANGED <<thread, flowMap, segments, mutex, missed>>
        BY <1>2 DEF Process
  <2> USE <1>1, <2>1 DEF IInv, engine
  <2>2. Types' /\ Followed' /\ Ruled' /\ Mutual' /\ Listed' /\ Reported'
        BY DEF Types, Some, Running, Followed, Ruled, Mutual, Listed, Reported
  <2>3. Computing' /\ AppliedIsComputed' /\ RulesFollow' /\ TellingFollows'
        BY DEF Computing, ToCompute, AppliedIsComputed, Computed, RulesFollow, TellingFollows,
               Running, ToReport
  <2> QED BY <2>2, <2>3
<1>3. CASE ~(thread[t].names # {} /\ model = NoDoc)
  <2>1. PICK seg \in Some : seg = IF thread[t].names = {} THEN NoDoc ELSE model
        BY <1>1
  <2>2. PICK flows \in {{}, Flows} : flows = IF thread[t].names = {} THEN DOMAIN flowMap ELSE Flows
        BY <1>1
  <2>3. segments' = seg /\ Calculate(t, seg, flows) /\ crashed' = crashed
        BY <1>3, <2>1, <2>2, Zenon DEF Process
  <2>4. Calculated(t, seg, flows)
        BY <2>3, CalculateIs
  <2>5. \A u \in Threads : u # t => thread[u].at \notin Holding
        BY <1>1 DEF IInv, Mutual, Holding
  <2>6. /\ Types' /\ Mutual' /\ Followed' /\ Ruled' /\ Reported'
        /\ AppliedIsComputed' /\ RulesFollow' /\ TellingFollows'
        BY <1>1, <2>3, <2>4, <2>5, CalculatedKeeps
  <2>7. Listed'
        BY <1>1, <2>4, <2>5 DEF Listed, Calculated, Others, Holding
  <2>8. seg = model \/ \E u \in Threads : u # t /\ thread'[u].at = "enter"
        BY <1>1, <1>3, <2>1, <2>4 DEF IInv, Listed, Calculated, Others
  <2>9. seg # NoDoc => flows = Flows
        BY <2>1, <2>2
  <2>10. Computing'
        BY <1>1, <2>3, <2>4, <2>8, <2>9 DEF Computing, ToCompute, Calculated
  <2> QED BY <2>6, <2>7, <2>10 DEF IInv
<1> QED BY <1>2, <1>3

LEMMA RefreshInv == ASSUME NEW t \in Workers PROVE IInv /\ Refresh(t) => IInv'
<1> SUFFICES ASSUME IInv, Refresh(t) PROVE IInv'
    OBVIOUS
<1>1. /\ t \in Threads /\ thread[t].at = "tick" /\ mutex = Free
      /\ UNCHANGED <<active, toEngine, toManager, changes, engine, isStarted, model, segments, crashed, newest,
                     forgotten, unsaid, late>>
      /\ segments \in Some /\ DOMAIN flowMap \in {{}, Flows}
      BY DEF IInv, Types, Refresh, At, Threads
<1>2. \A u \in Threads : thread[u].at \notin Holding
      BY <1>1, NcAssumption DEF IInv, Mutual
<1>3. CASE isStarted
  <2>1. PICK flows \in {{}, Flows} : flows = DOMAIN flowMap
        BY <1>1
  <2>2. Calculate(t, segments, flows)
        BY <1>3, <2>1, Zenon DEF Refresh
  <2>3. Calculated(t, segments, flows)
        BY <1>1, <2>2, CalculateIs
  <2>4. /\ Types' /\ Mutual' /\ Followed' /\ Ruled' /\ Reported'
        /\ AppliedIsComputed' /\ RulesFollow' /\ TellingFollows'
        BY <1>1, <1>2, <2>3, CalculatedKeeps
  <2>5. Listed'
        BY <1>1, <1>2, <2>3 DEF Listed, Calculated, Others, Holding
  <2>6. Computing'
        BY <1>1, <1>2, <2>1, <2>3 DEF IInv, Computing, ToCompute, Calculated, Others, Holding, engine
  <2> QED BY <2>4, <2>5, <2>6 DEF IInv
<1>4. CASE ~isStarted
  <2>1. Leave(t) /\ UNCHANGED <<mutex, flowMap, missed>>
        BY <1>4 DEF Refresh
  <2>2. thread' \in [Threads -> ThreadTypes] /\ Others(t) /\ thread'[t] = Resting
        BY <1>1, <2>1, Leaves DEF IInv
  <2>3. thread'[t].at = "none" /\ thread'[t].version = 0 /\ thread'[t].todo = {}
        BY <2>2 DEF Resting
  <2> USE <1>1, <1>2, <1>4, <2>1, <2>2, <2>3 DEF IInv, Others, engine
  <2>4. Types'
        BY DEF Types, Some, Running
  <2>5. Followed' /\ Ruled'
        BY DEF Types, Followed, Ruled, Running
  <2>6. Mutual'
        BY DEF Mutual, Holding
  <2>7. Listed' /\ Reported'
        BY DEF Listed, Reported
  <2>8. Computing' /\ AppliedIsComputed'
        BY DEF Computing, ToCompute, AppliedIsComputed, Computed
  <2>9. RulesFollow' /\ TellingFollows'
        BY DEF RulesFollow, TellingFollows, ToReport
  <2> QED BY <2>4, <2>5, <2>6, <2>7, <2>8, <2>9
<1> QED BY <1>3, <1>4
-----------------------------------------------------------------------------
\* The invariant of the manager and the engine: what is applied was computed,
\* and every difference that is left at rest has a name.
THEOREM ManagerInvariant == Spec => []IInv
<1>1. IInv /\ [Next]_vars => IInv'
  <2> SUFFICES ASSUME IInv, [Next]_vars PROVE IInv'
      OBVIOUS
  <2>1. CASE \/ ScenarioChange \/ StopScenario \/ ProcessScenario \/ Test \/ Ready \/ Start
             \/ \E t \in Workers : Tick(t) \/ Refresh(t)
        BY <2>1, ScenarioChangeInv, StopScenarioInv, ProcessScenarioInv, TestInv, ReadyInv, StartInv,
           TickInv, RefreshInv
  <2>2. CASE \E t \in Threads : Load(t) \/ SetModel(t) \/ Enter(t) \/ ListNames(t)
        BY <2>2, LoadInv, SetModelInv, EnterInv, ListNamesInv
  <2>3. CASE \E t \in Threads : Process(t) \/ NetCharUpdate(t) \/ UpdateComplete(t)
        BY <2>3, ProcessInv, NetCharUpdateInv, UpdateCompleteInv
  <2>4. CASE UNCHANGED vars
        BY <2>4, RestInv
  <2> QED BY <2>1, <2>2, <2>3, <2>4 DEF Next, Rest
<1> QED BY <1>1, InitInv, PTL DEF Spec

\* Threads, flows and rules have their types, and whoever computes has the mutex.
THEOREM TypeCorrect == Spec => []TypeOK
<1>1. IInv => TypeOK
      BY NoFlows DEF IInv, Types, Some, Mutual, Holding, Reported, TypeOK
<1> QED BY <1>1, ManagerInvariant, PTL

\* When nothing is in progress every rule has the characteristics of the active
\* scenario, but for a flow that counts as applied since before the rules were
\* made (updateControls), a load that was overtaken, a calculation that failed
\* and a poller that was late: for any number of flows, versions, goroutines,
\* pollers and changes.
THEOREM RulesAreOfTheActive == Spec => []RulesAreExplained
<1>1. IInv => RulesAreExplained
  <2> SUFFICES ASSUME IInv, Quiet, tc = "Ready", active # NoDoc, ~crashed, ~Overtaken, ~missed,
                      ~late, NEW f \in Flows
               PROVE  rules[f] = active[f] \/ (f \in forgotten /\ rules[f] = Default)
      BY DEF RulesAreExplained
  <2>1. \A t \in Threads : thread[t].at = "none"
        BY DEF Quiet, Busy
  <2>2. newest = changes
        BY <2>1 DEF IInv, Followed, Quiet
  <2>3. model = active
        BY <2>2 DEF Overtaken
  <2>4. segments = active
        BY <2>1, <2>3 DEF IInv, Types, Running, Computing, ToCompute
  <2>5. f \in DOMAIN flowMap /\ flowMap[f] = active[f] /\ flowMap[f] # Default
        BY <2>1, <2>4, ComputedIsNew DEF IInv, Types, Computing, AppliedIsComputed, Computed
  <2>6. rules # None
        BY NoFlows DEF IInv, Ruled, Running
  <2> QED BY <2>1, <2>5, <2>6 DEF IInv, RulesFollow, ToReport
<1> QED BY <1>1, ManagerInvariant, PTL

\* When nothing is in progress the sidecars know the rules, unless nothing was
\* reported since they were made, a load was overtaken, or the last calculation
\* or message failed.
THEOREM SidecarsKnowTheRules == Spec => []SidecarsAreTold
<1>1. IInv => SidecarsAreTold
  <2> SUFFICES ASSUME IInv, Quiet, tc = "Ready", ~crashed, ~Overtaken, ~missed, ~unsaid, ~told
               PROVE  forgotten = Flows
      BY DEF SidecarsAreTold
  <2>1. \A t \in Threads : thread[t].at = "none"
        BY DEF Quiet, Busy
  <2>2. newest = changes /\ active # NoDoc
        BY <2>1 DEF IInv, Followed, Ruled, Quiet
  <2>3. model = active
        BY <2>2 DEF Overtaken
  <2>4. segments = active
        BY <2>1, <2>3 DEF IInv, Types, Running, Computing, ToCompute
  <2>5. DOMAIN flowMap = Flows
        BY <2>1, <2>2, <2>4 DEF IInv, Computing
  <2>6. \A f \in Flows : flowMap[f] # Default
        BY <2>4, <2>5, ComputedIsNew DEF IInv, Types, AppliedIsComputed
  <2>7. forgotten \subseteq Flows
        BY DEF IInv, Types
  <2> QED BY <2>1, <2>5, <2>6, <2>7 DEF IInv, TellingFollows
<1> QED BY <1>1, ManagerInvariant, PTL
=============================================================================
