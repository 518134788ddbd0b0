----------------------------- MODULE NetCharMgr ------------------------------
(***************************************************************************)
(* The network characteristics manager (meep-net-char-mgr) and its user,   *)
(* the traffic control engine: the manager computes the characteristics of *)
(* every flow of the active scenario and calls the engine back with those  *)
(* that changed; the engine writes them into its shaping rules and tells   *)
(* the sidecars.                                                           *)
(*                                                                         *)
(* Two mutexes.  The engine holds its own while it handles a message, and  *)
(* while it starts the manager; the manager's is held from the calculation *)
(* to the last callback, and a callback takes the engine's.  Goroutines of *)
(* the manager: its message listener, one per start, one per tick; of the  *)
(* engine: its listener, and a poller per activation, which tests the      *)
(* state of the engine before it waits for the mutex.                      *)
(*                                                                         *)
(* The engine is reduced to what the manager meets (TcEngine has the rest, *)
(* SegmentAlgo what is computed): the processes, and so the flows, are the *)
(* same in every version of the scenario.                                  *)
(***************************************************************************)
EXTENDS Naturals, FiniteSets

CONSTANTS
  Flows,     \* pairs of processes
  Docs,      \* versions of the scenario: flow -> its characteristics
  NoDoc,     \* no scenario
  Default,   \* of a rule that was never updated
  Zero,      \* computed for a flow without a path
  Listener, Workers, \* goroutines of the manager
  Free,
  Traffic,   \* measured throughput changes allocations
  MaxEvents  \* bound: changes of the scenario, and failures of Redis

Threads == Workers \cup {Listener}

ASSUME NcAssumption ==
  /\ NoDoc \notin Docs /\ Listener \notin Workers /\ Free \notin Threads
  /\ \A d \in Docs : DOMAIN d = Flows /\ \A f \in Flows : d[f] \notin {Default, Zero}
  /\ Traffic \in BOOLEAN /\ Default # Zero /\ Flows # {}

VARIABLES
  active,      \* the active scenario in Redis
  toEngine, toManager, \* messages in the queues of the two listeners
  tc,          \* the engine: "Idle", "Initializing", "starting", "Ready"
  pollers, waiting, \* pollers at work, and those that wait for the mutex
  known,       \* it has the processes of a scenario
  rules,       \* its shaping rules: flow -> characteristics
  told,        \* the sidecars know the rules
  isStarted,
  model,       \* the manager's activeModel
  flowMap,     \* flow -> AppliedNetChar
  segments,    \* what the segments of the last ProcessScenario give: a version
  mutex,       \* who holds the manager's mutex
  thread,      \* [at, doc, version, names, todo]
  crashed,     \* a mutex was unlocked that was not locked
  newest,      \* history: the latest version the manager has loaded
  forgotten,   \* history: flows applied to earlier rules and not reported since
  missed,      \* history: the last calculation failed
  unsaid,      \* history: the last message to the sidecars was not sent
  late,        \* history: a poller made the engine ready after a stop
  changes, failures

world   == <<active, toEngine, toManager, changes, failures>>
engine  == <<tc, pollers, waiting, known, rules, told>>
manager == <<isStarted, model, flowMap, segments, mutex, crashed, newest>>
history == <<forgotten, missed, unsaid, late>>
vars    == <<world, engine, manager, thread, history>>

None == <<>>
Resting == [at |-> "none", doc |-> NoDoc, version |-> 0, names |-> {}, todo |-> {}]

Init ==
  /\ active = NoDoc /\ toEngine = 0 /\ toManager = 0 /\ changes = 0 /\ failures = 0
  /\ tc = "Idle" /\ pollers = 0 /\ waiting = 0 /\ known = FALSE /\ rules = None /\ told = TRUE
  /\ isStarted = FALSE /\ model = NoDoc /\ flowMap = None /\ segments = NoDoc
  /\ mutex = Free /\ crashed = FALSE /\ newest = 0
  /\ thread = [t \in Threads |-> Resting]
  /\ forgotten = {} /\ missed = FALSE /\ unsaid = FALSE /\ late = FALSE

At(t, place) == ~crashed /\ thread[t].at = place
GoTo(t, place) == thread' = [thread EXCEPT ![t].at = place]
Leave(t) == thread' = [thread EXCEPT ![t] = Resting]

Happens == changes + failures < MaxEvents
Fails   == Happens /\ failures' = failures + 1

ScenarioChange ==
  /\ Happens /\ changes' = changes + 1
  /\ active' \in (Docs \cup {NoDoc}) \ {active}
  /\ toEngine' = toEngine + 1 /\ toManager' = toManager + 1
  /\ UNCHANGED <<failures, engine, manager, thread, history>>
-----------------------------------------------------------------------------
(* The engine, with its mutex: not while it is starting the manager.       *)

Unlocked == ~crashed /\ tc # "starting"

\* A message to the sidecars, after which they know the rules; its error is
\* ignored.
Tell ==
  \/ told' = TRUE /\ unsaid' = FALSE /\ UNCHANGED failures
  \/ Fails /\ unsaid' = TRUE /\ UNCHANGED told

\* stopScenario; the ticker of the manager stops with it.
StopScenario ==
  /\ Unlocked /\ toEngine > 0 /\ active = NoDoc
  /\ toEngine' = toEngine - 1
  /\ tc' = "Idle" /\ known' = FALSE /\ rules' = None
  /\ Tell
  /\ isStarted' = FALSE
  /\ late' = FALSE
  /\ UNCHANGED <<active, toManager, changes, pollers, waiting, model, flowMap, segments, mutex,
                 crashed, newest, thread, forgotten, missed>>

\* From the idle state a poller is started.
ProcessScenario ==
  /\ Unlocked /\ toEngine > 0 /\ active # NoDoc
  /\ toEngine' = toEngine - 1
  /\ known' = TRUE
  /\ IF tc = "Idle" THEN tc' = "Initializing" /\ pollers' = pollers + 1 ELSE UNCHANGED <<tc, pollers>>
  /\ UNCHANGED <<active, toManager, changes, failures, waiting, rules, told, manager, thread, history>>

\* A poller, without the mutex: all addresses are known and the engine is
\* initializing, so that it waits for the mutex; or it ends, for another state
\* or an error.
Test ==
  /\ ~crashed /\ pollers > 0 /\ pollers' = pollers - 1
  /\ \/ tc = "Initializing" /\ waiting' = waiting + 1
     \/ UNCHANGED waiting
  /\ UNCHANGED <<world, tc, known, rules, told, manager, thread, history>>

\* With the mutex, whatever the state is by then: rules are made for the flows
\* that have none, and Start is called, which does nothing if it was called
\* before, and sets isStarted ...
Ready ==
  /\ Unlocked /\ waiting > 0 /\ waiting' = waiting - 1
  /\ tc' = IF isStarted THEN "Ready" ELSE "starting"
  /\ isStarted' = TRUE
  /\ late' = (late \/ tc = "Idle")
  /\ IF known /\ rules = None
     THEN rules' = [f \in Flows |-> Default] /\ told' = FALSE /\ forgotten' = DOMAIN flowMap
     ELSE UNCHANGED <<rules, told, forgotten>>
  /\ UNCHANGED <<world, pollers, known, model, flowMap, segments, mutex, crashed, newest, thread,
                 missed, unsaid>>

\* Mutant of Start: the scenario is left to the next message.
StartOnly ==
  /\ ~crashed /\ tc = "starting" /\ mutex = Free
  /\ tc' = "Ready"
  /\ UNCHANGED <<world, pollers, waiting, known, rules, told, manager, thread, history>>

\* ... waits for the manager's mutex in updateControls, and leaves a goroutine
\* that processes the scenario.
Start ==
  /\ ~crashed /\ tc = "starting" /\ mutex = Free
  /\ tc' = "Ready"
  /\ \E w \in Workers : thread[w].at = "none" /\ GoTo(w, "load")
  /\ UNCHANGED <<world, pollers, waiting, known, rules, told, manager, history>>
-----------------------------------------------------------------------------
(* processActiveScenarioUpdate of the manager.                             *)

\* UpdateScenario reads the store: the listener for a message, a goroutine of
\* Start once.
Load(t) ==
  /\ \/ t = Listener /\ At(t, "none") /\ toManager > 0 /\ toManager' = toManager - 1
     \/ At(t, "load") /\ UNCHANGED toManager
  /\ thread' = [thread EXCEPT ![t] = [Resting EXCEPT !.at = "loaded", !.doc = active, !.version = changes]]
  /\ UNCHANGED <<active, toEngine, changes, failures, engine, manager, history>>

\* ... and then sets the model; neither with the mutex.
SetModel(t) ==
  /\ At(t, "loaded")
  /\ model' = thread[t].doc
  /\ newest' = IF thread[t].version > newest THEN thread[t].version ELSE newest
  /\ GoTo(t, "enter")
  /\ UNCHANGED <<world, engine, isStarted, flowMap, segments, mutex, crashed, history>>

\* With the mutex: nothing unless started; without a scenario the flows are
\* forgotten.
Enter(t) ==
  /\ At(t, "enter") /\ mutex = Free
  /\ IF isStarted
     THEN /\ mutex' = t /\ GoTo(t, "names")
          /\ flowMap' = IF model = NoDoc THEN None ELSE flowMap
     ELSE Leave(t) /\ UNCHANGED <<mutex, flowMap>>
  /\ UNCHANGED <<world, engine, isStarted, model, segments, crashed, newest, history>>

\* ProcessScenario asks the model for the names of its processes ...
ListNames(t) ==
  /\ At(t, "names")
  /\ thread' = [thread EXCEPT ![t].at = "nodes", ![t].names = IF model = NoDoc THEN {} ELSE Flows]
  /\ UNCHANGED <<world, engine, manager, history>>

\* What CalculateNetChar finds for a flow, given what the segments give.
Computed(seg, f) == IF seg = NoDoc THEN Zero ELSE seg[f]

\* CalculateNetChar: flows that differ from what was applied are reported, and
\* those whose share of the bandwidth has changed; they count as applied.  When
\* the measurements cannot be read nothing is calculated.
Calculate(t, seg, flows) ==
  LET applied == [f \in flows |-> IF f \in DOMAIN flowMap THEN flowMap[f] ELSE Default]
      changed == {f \in flows : applied[f] # Computed(seg, f)}
  IN  \/ /\ Fails /\ missed' = TRUE
         /\ flowMap' = applied
         /\ Leave(t) /\ mutex' = Free
      \/ /\ missed' = FALSE /\ UNCHANGED failures
         /\ flowMap' = [f \in flows |-> Computed(seg, f)]
         /\ \E more \in SUBSET flows :
              /\ ~Traffic => more = {}
              /\ IF changed \cup more = {}
                 THEN Leave(t) /\ mutex' = Free
                 ELSE /\ mutex' = t
                      /\ thread' = [thread EXCEPT ![t].at = "call", ![t].todo = changed \cup more]

\* Mutant of Process: the segments of the last version are kept.
ProcessKeepsSegments(t) ==
  /\ At(t, "nodes")
  /\ IF thread[t].names # {} /\ model = NoDoc
     THEN crashed' = TRUE /\ UNCHANGED <<thread, flowMap, segments, mutex, missed, failures>>
     ELSE LET seg == IF thread[t].names # {} /\ segments = NoDoc THEN model ELSE segments
          IN  /\ segments' = seg
              /\ Calculate(t, seg, IF thread[t].names = {} THEN DOMAIN flowMap ELSE Flows)
              /\ UNCHANGED crashed
  /\ UNCHANGED <<active, toEngine, toManager, changes, engine, isStarted, model, newest, forgotten,
                 unsaid, late>>

\* ... and for each process.  One that is gone is an error, after which the
\* mutex is unlocked twice.
Process(t) ==
  /\ At(t, "nodes")
  /\ IF thread[t].names # {} /\ model = NoDoc
     THEN crashed' = TRUE /\ UNCHANGED <<thread, flowMap, segments, mutex, missed, failures>>
     ELSE LET seg == IF thread[t].names = {} THEN NoDoc ELSE model
          IN  /\ segments' = seg
              /\ Calculate(t, seg, IF thread[t].names = {} THEN DOMAIN flowMap ELSE Flows)
              /\ UNCHANGED crashed
  /\ UNCHANGED <<active, toEngine, toManager, changes, engine, isStarted, model, newest, forgotten,
                 unsaid, late>>

\* The ticker fires, in the session it was made for; its goroutine waits for
\* the mutex.
Tick(w) ==
  /\ At(w, "none") /\ isStarted /\ tc = "Ready"
  /\ GoTo(w, "tick")
  /\ UNCHANGED <<world, engine, manager, history>>

Refresh(w) ==
  /\ At(w, "tick") /\ mutex = Free
  /\ IF isStarted THEN Calculate(w, segments, DOMAIN flowMap)
     ELSE Leave(w) /\ UNCHANGED <<mutex, flowMap, missed, failures>>
  /\ UNCHANGED <<active, toEngine, toManager, changes, engine, isStarted, model, segments, crashed,
                 newest, forgotten, unsaid, late>>
-----------------------------------------------------------------------------
(* The callbacks: the manager's mutex is held, the engine's is taken.      *)

\* netCharUpdate: a flow that the engine does not have is dropped.
NetCharUpdate(t) ==
  /\ At(t, "call") /\ Unlocked
  /\ \E f \in thread[t].todo :
       /\ rules' = [g \in DOMAIN rules |-> IF g = f THEN flowMap[f] ELSE rules[g]]
       /\ told' = (told /\ f \notin DOMAIN rules)
       /\ forgotten' = IF f \in DOMAIN rules THEN forgotten \ {f} ELSE forgotten
       /\ thread' = [thread EXCEPT ![t].todo = @ \ {f},
                                   ![t].at = IF thread[t].todo = {f} THEN "complete" ELSE "call"]
  /\ UNCHANGED <<world, tc, pollers, waiting, known, manager, missed, unsaid, late>>

\* Mutant of UpdateComplete: the state is written, nobody is told.
CompleteSilently(t) ==
  /\ At(t, "complete") /\ Unlocked
  /\ mutex' = Free /\ Leave(t)
  /\ UNCHANGED <<world, engine, isStarted, model, flowMap, segments, crashed, newest, history>>

\* updateComplete: the sidecars are told.
UpdateComplete(t) ==
  /\ At(t, "complete") /\ Unlocked
  /\ Tell
  /\ mutex' = Free /\ Leave(t)
  /\ UNCHANGED <<active, toEngine, toManager, changes, tc, pollers, waiting, known, rules, isStarted,
                 model, flowMap, segments, crashed, newest, forgotten, missed, late>>
-----------------------------------------------------------------------------
\* The engine waits for the manager's mutex and its holder for the engine's.
LockCycle == tc = "starting" /\ mutex # Free /\ thread[mutex].at \in {"call", "complete"}

Busy == {t \in Threads : thread[t].at # "none"}
Quiet ==
  toEngine = 0 /\ toManager = 0 /\ Busy = {} /\ pollers = 0 /\ waiting = 0 /\ tc # "starting"

Rest == (crashed \/ LockCycle \/ Quiet) /\ UNCHANGED vars

Engine == StopScenario \/ ProcessScenario \/ Test \/ Ready

Next ==
  \/ ScenarioChange \/ StopScenario \/ ProcessScenario \/ Test \/ Ready \/ Start
  \/ \E t \in Threads :
       \/ Load(t) \/ SetModel(t) \/ Enter(t) \/ ListNames(t) \/ Process(t)
       \/ NetCharUpdate(t) \/ UpdateComplete(t)
  \/ \E w \in Workers : Tick(w) \/ Refresh(w)
  \/ Rest

Spec == Init /\ [][Next]_vars

\* Goroutines and the ticker run; Go's mutexes do not let a goroutine wait for
\* ever.
FairSpec ==
  /\ Spec
  /\ WF_vars(Engine) /\ SF_vars(Start)
  /\ \A t \in Threads : /\ WF_vars(Load(t) \/ SetModel(t) \/ ListNames(t) \/ Process(t))
                        /\ SF_vars(Enter(t)) /\ SF_vars(Refresh(t))
                        /\ SF_vars(NetCharUpdate(t) \/ UpdateComplete(t))
  /\ \A w \in Workers : WF_vars(Tick(w))
-----------------------------------------------------------------------------
(* Properties.                                                             *)

\* Threads, maps and rules have their types; whoever computes has the mutex.
TypeOK ==
  /\ active \in Docs \cup {NoDoc} /\ model \in Docs \cup {NoDoc} /\ segments \in Docs \cup {NoDoc}
  /\ tc \in {"Idle", "Initializing", "starting", "Ready"}
  /\ DOMAIN rules \in {{}, Flows} /\ DOMAIN flowMap \in {{}, Flows}
  /\ \A t \in Threads : /\ thread[t].todo \subseteq DOMAIN flowMap
                        /\ thread[t].at \in {"names", "nodes", "call", "complete"} <=> mutex = t

\* The manager works with an older version than it has once loaded.
Overtaken == model # active /\ newest = changes

\* When nothing is in progress every rule has the characteristics of the active
\* scenario.  The ways out: a flow whose characteristics the manager counts as
\* applied since before the rules were made; a load that was overtaken; a
\* calculation that failed, until the next one; and a poller that made the
\* engine ready after a stop, so that it never makes the next rules.
RulesAreExplained ==
  Quiet /\ tc = "Ready" /\ active # NoDoc /\ ~crashed /\ ~Overtaken /\ ~missed /\ ~late =>
    \A f \in Flows : rules[f] = active[f] \/ (f \in forgotten /\ rules[f] = Default)

\* When nothing is in progress the sidecars know the rules, unless the manager
\* had no flow to report since they were made, its last calculation failed, or
\* the last message did.
SidecarsAreTold ==
  Quiet /\ tc = "Ready" /\ ~crashed =>
    told \/ forgotten = Flows \/ Overtaken \/ missed \/ unsaid

\* A poller ended with an error, and the engine waits for the next terminate.
GivenUp == tc = "Initializing" /\ pollers = 0 /\ waiting = 0

\* In the end the rules are those of the active scenario, and a calculation that
\* failed is made good by the next tick; unless a flow is forgotten or a load
\* overtaken as above, a poller was late or has given up, the two mutexes wait
\* for each other, or the process has ended.
Applied == active # NoDoc => tc = "Ready" /\ rules = active
EventuallyApplied ==
  <>[](Applied \/ Overtaken \/ forgotten # {} \/ late \/ GivenUp \/ LockCycle \/ crashed)
=============================================================================
