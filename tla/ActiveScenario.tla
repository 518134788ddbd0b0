--------------------------- MODULE ActiveScenario ---------------------------
(***************************************************************************)
(* The active scenario of one sandbox: the REST handlers of the sandbox    *)
(* controller (meep-sandbox-ctrl) that activate, change and terminate it,  *)
(* the Model object they work on (meep-model), the Redis key that holds    *)
(* the published document, the sandbox message queue (meep-mq) that        *)
(* announces every change, and the services that keep a copy: mg-manager,  *)
(* tc-engine, gis-engine, rnis, loc-serv (the subscribers).                *)
(*                                                                         *)
(* net/http runs every request on its own goroutine and the handlers take  *)
(* no common lock: only the methods of one Model are mutually exclusive    *)
(* (Model.lock).  A step of the specification is therefore one Model       *)
(* method, one message sent, or one store call.                            *)
(***************************************************************************)
EXTENDS Naturals, Sequences

CONSTANTS
  Operators,     \* goroutines that may run POST /active/{name}, DELETE /active
  EventSenders,  \* goroutines that may run POST /events, but POAS-IN-RANGE
  PoasSenders,   \* goroutines that may run POST /events/POAS-IN-RANGE
  Subs,          \* the services that keep a copy of the active scenario
  Scenarios,     \* names of the documents of the scenario store
  Contents,      \* what an event changes: positions, characteristics, nodes
  Content0,      \* the content of a stored, never activated, document
  Empty,         \* new(dataModel.Scenario): a document without a name
  NoDoc,         \* the active key is absent from Redis
  RedisMayFail,  \* a Redis call may return an error
  MaxReq,        \* bound: requests accepted
  MaxRestarts,   \* bound: restarts of the sandbox controller
  MaxStops       \* bound: subscribers killed

Threads == Operators \cup EventSenders \cup PoasSenders
Docs    == [name : Scenarios, content : Contents]

ASSUME ConstantsAssumption ==
  /\ Content0 \in Contents
  /\ RedisMayFail \in BOOLEAN
  /\ Empty \notin Docs /\ NoDoc \notin Docs /\ Empty # NoDoc
  /\ MaxReq \in Nat /\ MaxRestarts \in Nat /\ MaxStops \in Nat

VARIABLES
  models,    \* every Model the controller created: [active, doc]
  cur,       \* sbxCtrl.activeModel, an index in models
  pc,        \* where each goroutine is in its handler
  arg,       \* the scenario its request names, until it is set
  ref,       \* sbxCtrl.activeModel when its last step ended (see Insts)
  redis,     \* the document under the active key
  store,     \* the metric store that is open: a scenario name, or Empty
  deployed,  \* activations announced to the virt-engine since a terminate
  st,        \* subscribers: "down", "init" (has read), "up" (subscribed)
  replica,   \* subscribers: Model.scenario
  inbox,     \* subscribers: messages published and not yet handled
  silent,    \* history: the last change of redis will not be announced
  blind,     \* history: the subscriber lost a change since its last read
  requests, restarts, stops  \* counters for the bounds

ctrl   == <<models, cur, pc, arg, ref>>
queue  == <<inbox, silent, blind>>
feed   == <<st, replica, stops>>
limits == <<requests, restarts>>
vars   == <<ctrl, redis, store, deployed, queue, feed, limits>>

Fresh     == [active |-> FALSE, doc |-> Empty]        \* NewModel
Stored(s) == [name |-> s, content |-> Content0]       \* scenarioStore.GetDoc
View(d)   == IF d = NoDoc THEN Empty ELSE d           \* what UpdateScenario sets

Init ==
  /\ models = <<Fresh>> /\ cur = 1
  /\ pc  = [t \in Threads |-> "idle"]
  /\ arg = [t \in Threads |-> Empty]
  /\ ref = [t \in Threads |-> 1]
  /\ redis = NoDoc /\ store = Empty /\ deployed = 0
  /\ st      = [s \in Subs |-> "down"]
  /\ replica = [s \in Subs |-> Empty]
  /\ inbox   = [s \in Subs |-> <<>>]
  /\ silent  = FALSE
  /\ blind   = [s \in Subs |-> FALSE]
  /\ requests = 0 /\ restarts = 0 /\ stops = 0
-----------------------------------------------------------------------------
(* Helpers.                                                                *)

\* The handlers read the global sbxCtrl.activeModel anew for every call and
\* a terminate replaces it meanwhile: a call may land on any model that was
\* current since the previous step of the goroutine.
Insts(t) == ref[t] .. cur

At(t, p)   == pc[t] = p
Goto(t, p) == pc' = [pc EXCEPT ![t] = p] /\ ref' = [ref EXCEPT ![t] = cur']

\* mqLocal.SendMsg: Redis hands the message to whoever is subscribed now.
\* A service between its first read and RegisterHandler misses it.
Announce(m) ==
  \/ /\ inbox' = [s \in Subs |-> IF st[s] = "up" THEN Append(inbox[s], m) ELSE inbox[s]]
     /\ blind' = [s \in Subs |-> blind[s] \/ st[s] = "init"]
     /\ silent' = FALSE
  \/ RedisMayFail /\ silent' = TRUE /\ UNCHANGED <<inbox, blind>>

\* Mutant of Refresh: the key is written, nobody is told.
RefreshSilently(i, d) ==
  IF models[i].active THEN redis' = d /\ UNCHANGED queue
                      ELSE UNCHANGED <<redis, queue>>

\* Model.refresh of model i, whose document is now d: an active model writes
\* the key and announces it, both under the lock of the model.
Refresh(i, d) ==
  IF models[i].active THEN redis' = d /\ Announce("UPDATE")
                      ELSE UNCHANGED <<redis, queue>>

\* The write of the key returns an error: the handler gives up.
WriteError == RedisMayFail /\ UNCHANGED <<redis, queue>>

Accept(t) == At(t, "idle") /\ requests < MaxReq /\ requests' = requests + 1
-----------------------------------------------------------------------------
(* POST /active/{name} -- ceActivateScenario, activateScenario.            *)
ActivateCheck(t) ==
  /\ t \in Operators /\ Accept(t)
  /\ ~models[cur].active
  /\ \E s \in Scenarios : arg' = [arg EXCEPT ![t] = s]
  /\ UNCHANGED <<models, cur, redis, store, deployed, queue, feed, restarts>>
  /\ Goto(t, "act_set")

ActivateSet(t) ==
  /\ At(t, "act_set")
  /\ store' = arg[t]
  /\ arg' = [arg EXCEPT ![t] = Empty]
  /\ UNCHANGED <<cur, deployed, feed, limits>>
  /\ \E i \in Insts(t) :
       /\ models' = [models EXCEPT ![i].doc = Stored(arg[t])]
       /\ \/ Refresh(i, Stored(arg[t])) /\ Goto(t, "act_activate")
          \/ models[i].active /\ WriteError /\ Goto(t, "idle")

ActivateModel(t) ==
  /\ At(t, "act_activate")
  /\ UNCHANGED <<cur, arg, store, deployed, queue, feed, limits>>
  /\ \/ \E i \in Insts(t) :
          /\ redis'  = models[i].doc
          /\ models' = [models EXCEPT ![i].active = TRUE]
          /\ Goto(t, "act_global")
     \/ WriteError /\ UNCHANGED models /\ Goto(t, "idle")

ActivateGlobal(t) ==
  /\ At(t, "act_global")
  /\ \/ deployed' = deployed + 1
     \/ RedisMayFail /\ UNCHANGED deployed
  /\ UNCHANGED <<models, cur, arg, redis, store, queue, feed, limits>>
  /\ Goto(t, "act_local")

ActivateLocal(t) ==
  /\ At(t, "act_local")
  /\ Announce("ACTIVATE")
  /\ UNCHANGED <<models, cur, arg, redis, store, deployed, feed, limits>>
  /\ Goto(t, "idle")
-----------------------------------------------------------------------------
(* DELETE /active -- ceTerminateScenario.                                  *)

TerminateCheck(t) ==
  /\ t \in Operators /\ Accept(t)
  /\ models[cur].active
  /\ UNCHANGED <<models, cur, arg, redis, store, deployed, queue, feed, restarts>>
  /\ Goto(t, "term_deact")

TerminateDeactivate(t) ==
  /\ At(t, "term_deact")
  /\ UNCHANGED <<cur, arg, store, deployed, queue, feed, limits>>
  /\ \E i \in Insts(t) :
       \/ /\ models' = [models EXCEPT ![i].active = FALSE]
          /\ redis'  = IF models[i].active THEN NoDoc ELSE redis
          /\ Goto(t, "term_local")
       \/ models[i].active /\ WriteError /\ UNCHANGED models /\ Goto(t, "idle")

TerminateLocal(t) ==
  /\ At(t, "term_local")
  /\ Announce("TERMINATE")
  /\ UNCHANGED <<models, cur, arg, redis, store, deployed, feed, limits>>
  /\ Goto(t, "term_global")

TerminateGlobal(t) ==
  /\ At(t, "term_global")
  /\ deployed' = 0 \/ (RedisMayFail /\ UNCHANGED deployed)
  /\ UNCHANGED <<models, cur, arg, redis, store, queue, feed, limits>>
  /\ Goto(t, "term_new")

TerminateNewModel(t) ==
  /\ At(t, "term_new")
  /\ models' = Append(models, Fresh)
  /\ cur' = Len(models) + 1
  /\ UNCHANGED <<arg, redis, store, deployed, queue, feed, limits>>
  /\ Goto(t, "term_store")

TerminateStore(t) ==
  /\ At(t, "term_store")
  /\ store' = Empty
  /\ UNCHANGED <<models, cur, arg, redis, deployed, queue, feed, limits>>
  /\ Goto(t, "idle")
-----------------------------------------------------------------------------
(* POST /events/{type} -- ceSendEvent.                                     *)

EventCheck(t) ==
  /\ Accept(t)
  /\ models[cur].active
  /\ UNCHANGED <<models, cur, arg, redis, store, deployed, queue, feed, restarts>>
  /\ \/ t \in EventSenders /\ Goto(t, "event")
     \/ t \in PoasSenders  /\ Goto(t, "poas")

\* MOBILITY, NETWORK-CHARACTERISTICS-UPDATE, SCENARIO-UPDATE: one method of
\* the model changes the document and refreshes; it fails when the element
\* is not found, always so in an empty document.  When refresh fails the
\* document has changed all the same.
EventApply(t) ==
  /\ At(t, "event")
  /\ UNCHANGED <<cur, arg, store, deployed, feed, limits>>
  /\ Goto(t, "idle")
  /\ \/ \E i \in Insts(t), c \in Contents :
          /\ models[i].doc # Empty
          /\ models' = [models EXCEPT ![i].doc.content = c]
          /\ Refresh(i, [models[i].doc EXCEPT !.content = c]) \/ WriteError
     \/ UNCHANGED <<models, redis, queue>>

\* POAS-IN-RANGE finds the UE and writes through the pointer, outside of the
\* lock; an unchanged list, or an unknown UE, ends the request.
PoasWrite(t) ==
  /\ At(t, "poas")
  /\ UNCHANGED <<cur, arg, redis, store, deployed, queue, feed, limits>>
  /\ \/ \E i \in Insts(t), c \in Contents :
          /\ models[i].doc # Empty /\ models[i].doc.content # c
          /\ models' = [models EXCEPT ![i].doc.content = c]
          /\ Goto(t, "poas_activate")
     \/ UNCHANGED models /\ Goto(t, "idle")

\* ... then calls Activate, whatever model is current and active or not, and
\* sends no message.
PoasActivate(t) ==
  /\ At(t, "poas_activate")
  /\ UNCHANGED <<cur, arg, store, deployed, inbox, blind, feed, limits>>
  /\ Goto(t, "idle")
  /\ \/ \E i \in Insts(t) :
          /\ redis'  = models[i].doc
          /\ models' = [models EXCEPT ![i].active = TRUE]
          /\ silent' = TRUE
     \/ RedisMayFail /\ UNCHANGED <<redis, models, silent>>
-----------------------------------------------------------------------------
(* The controller is killed and starts again: requests in flight are lost, *)
(* the active key stays.                                                   *)

\* A goroutine past its write of the key that still owes an announcement.
Announcing(t) == pc[t] \in {"act_global", "act_local", "term_local"}

Restart ==
  /\ restarts < MaxRestarts /\ restarts' = restarts + 1
  /\ models' = <<Fresh>> /\ cur' = 1
  /\ pc'  = [t \in Threads |-> "idle"]
  /\ ref' = [t \in Threads |-> 1]
  /\ store' = Empty
  /\ silent' = (silent \/ \E t \in Threads : Announcing(t))
  /\ UNCHANGED <<arg, redis, deployed, inbox, blind, feed, requests>>
-----------------------------------------------------------------------------
(* The subscribers.                                                        *)

\* Model.UpdateScenario: any error of the read is taken for a deletion.
Read(s) ==
  \/ replica' = [replica EXCEPT ![s] = View(redis)] /\ blind' = [blind EXCEPT ![s] = FALSE]
  \/ /\ RedisMayFail
     /\ replica' = [replica EXCEPT ![s] = Empty]
     /\ blind' = [blind EXCEPT ![s] = TRUE]

\* Init reads the active scenario; only then Run registers the handler.
SubInit(s) ==
  /\ st[s] = "down"
  /\ Read(s)
  /\ st' = [st EXCEPT ![s] = "init"]
  /\ UNCHANGED <<ctrl, redis, store, deployed, inbox, silent, stops, limits>>

SubRun(s) ==
  /\ st[s] = "init"
  /\ st' = [st EXCEPT ![s] = "up"]
  /\ UNCHANGED <<ctrl, redis, store, deployed, queue, replica, stops, limits>>

\* Mutant of SubHandle: a handler without the case of an update.
HandleNoUpdate(s) ==
  /\ st[s] = "up" /\ inbox[s] # <<>>
  /\ inbox' = [inbox EXCEPT ![s] = Tail(@)]
  /\ IF Head(inbox[s]) = "UPDATE" THEN UNCHANGED <<replica, blind>> ELSE Read(s)
  /\ UNCHANGED <<ctrl, redis, store, deployed, st, silent, stops, limits>>

SubHandle(s) ==
  /\ st[s] = "up" /\ inbox[s] # <<>>
  /\ inbox' = [inbox EXCEPT ![s] = Tail(@)]
  /\ Read(s)
  /\ UNCHANGED <<ctrl, redis, store, deployed, st, silent, stops, limits>>

SubStop(s) ==
  /\ st[s] # "down" /\ stops < MaxStops /\ stops' = stops + 1
  /\ st' = [st EXCEPT ![s] = "down"]
  /\ inbox' = [inbox EXCEPT ![s] = <<>>]
  /\ replica' = [replica EXCEPT ![s] = Empty]
  /\ UNCHANGED <<ctrl, redis, store, deployed, silent, blind, limits>>
-----------------------------------------------------------------------------
\* The steps of a handler that has been entered.
Continue(t) ==
  \/ ActivateSet(t) \/ ActivateModel(t) \/ ActivateGlobal(t) \/ ActivateLocal(t)
  \/ TerminateDeactivate(t) \/ TerminateLocal(t) \/ TerminateGlobal(t)
  \/ TerminateNewModel(t) \/ TerminateStore(t)
  \/ EventApply(t) \/ PoasWrite(t) \/ PoasActivate(t)

\* A new request that the first check of its handler lets through.
Enter(t) == ActivateCheck(t) \/ TerminateCheck(t) \/ EventCheck(t)

AllIdle == \A t \in Threads : pc[t] = "idle"

\* Nobody has anything left to do: waiting for requests.
Rest ==
  /\ AllIdle /\ \A s \in Subs : st[s] = "up" /\ inbox[s] = <<>>
  /\ UNCHANGED vars

Next ==
  \/ \E t \in Threads : Enter(t) \/ Continue(t)
  \/ \E s \in Subs : SubInit(s) \/ SubRun(s) \/ SubHandle(s) \/ SubStop(s)
  \/ Restart
  \/ Rest

\* A goroutine that has a step to take is scheduled, and so is the listener
\* of every subscriber.  Nothing obliges a client to send a request.
Fairness ==
  /\ \A t \in Threads : WF_vars(Continue(t))
  /\ \A s \in Subs : WF_vars(SubInit(s)) /\ WF_vars(SubRun(s)) /\ WF_vars(SubHandle(s))

Spec == Init /\ [][Next]_vars /\ Fairness
-----------------------------------------------------------------------------
(* Properties.                                                             *)

Steps == {"idle", "act_set", "act_activate", "act_global", "act_local",
          "term_deact", "term_local", "term_global", "term_new", "term_store",
          "event", "poas", "poas_activate"}

Messages == {"ACTIVATE", "UPDATE", "TERMINATE"}

\* Every variable has its type; sbxCtrl.activeModel is the newest model.
TypeOK ==
  /\ models \in Seq([active : BOOLEAN, doc : Docs \cup {Empty}])
  /\ cur = Len(models) /\ cur >= 1
  /\ pc \in [Threads -> Steps]
  /\ arg \in [Threads -> Scenarios \cup {Empty}]
  /\ \A t \in Threads : At(t, "act_set") => arg[t] \in Scenarios
  /\ ref \in [Threads -> 1 .. cur]
  /\ redis \in Docs \cup {Empty, NoDoc}
  /\ store \in Scenarios \cup {Empty}
  /\ deployed \in Nat
  /\ st \in [Subs -> {"down", "init", "up"}]
  /\ replica \in [Subs -> Docs \cup {Empty}]
  /\ inbox \in [Subs -> Seq(Messages)]
  /\ silent \in BOOLEAN /\ blind \in [Subs -> BOOLEAN]
  /\ requests \in Nat /\ restarts \in Nat /\ stops \in Nat

Stale(s)    == st[s] # "down" /\ replica[s] # View(redis)
Notified(s) == (st[s] = "up" /\ inbox[s] # <<>>) \/ \E t \in Threads : Announcing(t)

\* A service works from an outdated copy of the scenario only while a message
\* that will make it read again is queued or about to be sent.  There are two
\* ways out, and no third: a change made without an announcement (POAS-IN-RANGE,
\* a failed publish, a restart in the middle of a handler), and a service that
\* lost what was announced (its start-up window, a failed read).
StaleIsExplained ==
  \A s \in Subs : Stale(s) => Notified(s) \/ silent \/ blind[s]

OperatorsIdle == \A t \in Operators : At(t, "idle")

\* Between two requests of the operator, what the REST API answers, the active
\* key, the document the controller edits, the metric store and the activations
\* announced to the virt-engine tell the same story.
ApiAgreesWithStore ==
  OperatorsIdle =>
    IF models[cur].active
    THEN redis = models[cur].doc /\ redis \in Docs /\ store = redis.name /\ deployed = 1
    ELSE redis = NoDoc /\ store = Empty /\ deployed = 0

\* No model but the one the API serves is active: an abandoned one could still
\* write the active key.
SoleActiveModel == \A i \in 1 .. Len(models) : models[i].active => i = cur

\* A scenario is announced to the virt-engine only when none is deployed
\* ("Make sure scenario is not already deployed").
NoDoubleDeploy == deployed <= 1

\* In the end, when clients stop sending requests, every service has the
\* scenario of Redis, up to the two ways out of StaleIsExplained.
EventuallyInSync ==
  \A s \in Subs : <>[](st[s] = "up" /\ (replica[s] = View(redis) \/ silent \/ blind[s]))
=============================================================================
