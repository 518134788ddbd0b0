----------------------------- MODULE VirtEngine -----------------------------
(***************************************************************************)
(* Deployment: the platform controller creates and deletes sandboxes, the  *)
(* controller in a sandbox activates and terminates scenarios, and the     *)
(* virtualization engine (meep-virt-engine) turns their messages into      *)
(* charts and hands them to a worker that runs helm.                       *)
(*                                                                         *)
(* Three actors: the API, the handler of the global message queue, and the *)
(* worker.  The handler lists releases and removes charts itself, and      *)
(* everything else is a job in a channel of limited size; the handler is   *)
(* cut between the list and the removal because the worker goes on.        *)
(***************************************************************************)
EXTENDS Naturals, Sequences, FiniteSets

CONSTANTS
  Sandboxes, Scenarios, NoScenario,
  SboxPods,     \* charts of a sandbox (MEEP_SANDBOX_PODS)
  Procs,        \* Scenarios -> charts of its processes
  UserCharts,   \* those that lie outside of the engine's data directory
  Covers,       \* pairs of scopes: the release prefix of one covers the other
  HelmMayFail,
  MaxRequests, ChannelSize \* bounds; the channel has 5 places in the code

\* Where a release belongs: a sandbox itself, or a scenario in it.
Scopes == Sandboxes \X (Scenarios \cup {NoScenario})

ASSUME VeAssumption ==
  /\ NoScenario \notin Scenarios /\ Covers \subseteq Scopes \X Scopes
  /\ ChannelSize \in Nat \ {0} /\ HelmMayFail \in BOOLEAN

VARIABLES
  store,       \* the sandbox store
  checked,     \* names that a request to create has found free
  listed,      \* what a request to delete all sandboxes has left, or Idle
  busy,        \* sandboxes whose controller has an active scenario
  active,      \* sandbox -> the active scenario in Redis
  queue,       \* messages for the engine: [kind, sandbox]
  activeModels,        \* sandboxes with a model
  activeScenarioNames, \* sandbox -> the cached name
  handler,     \* [at, scope, listed]
  charts,      \* charts on disk: <<scope, chart>>
  jobs,        \* the channel: [task, charts]
  worker,      \* [task, todo, charts], task "none" when it waits
  releases,    \* what helm has released: <<scope, chart>>
  hasty,       \* history: a request was made before the last one was done
  failed,      \* history: a call of helm failed
  requests

requested == <<store, checked, listed, busy, active>>
engine    == <<activeModels, activeScenarioNames>>
helm      == <<worker, releases, failed>>
vars      == <<requested, queue, engine, handler, charts, jobs, helm, hasty, requests>>

Idle    == [left |-> {}, flush |-> FALSE]
Waiting == [at |-> "idle", scope |-> <<>>, listed |-> {}]
NoJob   == [task |-> "none", todo |-> {}, charts |-> {}]

Init ==
  /\ store = {} /\ checked = {} /\ listed = Idle /\ busy = {}
  /\ active = [b \in Sandboxes |-> NoScenario]
  /\ queue = <<>> /\ activeModels = {}
  /\ activeScenarioNames = [b \in Sandboxes |-> NoScenario]
  /\ handler = Waiting /\ charts = {} /\ jobs = <<>> /\ worker = NoJob /\ releases = {}
  /\ hasty = FALSE /\ failed = FALSE /\ requests = 0

Still == queue = <<>> /\ handler = Waiting /\ jobs = <<>> /\ worker = NoJob
Quiet == Still /\ listed = Idle /\ checked = {}

SandboxCharts(b)  == {<<<<b, NoScenario>>, c>> : c \in SboxPods}
ScenarioCharts(b, s) == IF s = NoScenario THEN {} ELSE {<<<<b, s>>, c>> : c \in Procs[s]}
-----------------------------------------------------------------------------
(* The API.                                                                *)

Count == requests < MaxRequests /\ requests' = requests + 1

Publish(kind, b) ==
  /\ queue' = Append(queue, [kind |-> kind, sandbox |-> b])
  /\ hasty' = (hasty \/ ~Quiet)
  /\ UNCHANGED <<engine, handler, charts, jobs, helm>>

\* pcCreateSandboxWithName looks for the name, and stores it later.
CheckName(b) ==
  /\ b \notin store \cup checked /\ requests < MaxRequests
  /\ checked' = checked \cup {b}
  /\ UNCHANGED <<store, listed, busy, active, queue, engine, handler, charts, jobs, helm,
                 hasty, requests>>

CreateSandbox(b) ==
  /\ b \notin store \/ b \in checked
  /\ store' = store \cup {b} /\ checked' = checked \ {b}
  /\ Count /\ Publish("SANDBOX-CREATE", b)
  /\ UNCHANGED <<listed, busy, active>>

\* The controller goes with its sandbox; the active key stays.
RemoveSandbox(b) ==
  /\ store' = store \ {b} /\ busy' = busy \ {b}
  /\ Publish("SANDBOX-DESTROY", b)
  /\ UNCHANGED <<checked, active>>

DeleteSandbox(b) == b \in store /\ Count /\ RemoveSandbox(b) /\ UNCHANGED listed

\* pcDeleteSandboxList: a list, a message for each of its sandboxes, and then
\* the store is flushed.
ListSandboxes ==
  /\ listed = Idle /\ store # {} /\ Count
  /\ listed' = [left |-> store, flush |-> TRUE]
  /\ UNCHANGED <<store, checked, busy, active, queue, engine, handler, charts, jobs, helm, hasty>>

DeleteListed(b) ==
  /\ b \in listed.left /\ RemoveSandbox(b)
  /\ listed' = [listed EXCEPT !.left = @ \ {b}] /\ UNCHANGED requests

FlushStore ==
  /\ listed = [left |-> {}, flush |-> TRUE] /\ listed' = Idle
  /\ store' = {}
  /\ UNCHANGED <<checked, busy, active, queue, engine, handler, charts, jobs, helm,
                 hasty, requests>>

\* The controller is one of the sandbox's pods.
Activate(b, s) ==
  /\ b \in store \ busy /\ SandboxCharts(b) \subseteq releases
  /\ busy' = busy \cup {b} /\ active' = [active EXCEPT ![b] = s]
  /\ Count /\ Publish("SCENARIO-ACTIVATE", b)
  /\ UNCHANGED <<store, checked, listed>>

Terminate(b) ==
  /\ b \in busy /\ SandboxCharts(b) \subseteq releases
  /\ busy' = busy \ {b} /\ active' = [active EXCEPT ![b] = NoScenario]
  /\ Count /\ Publish("SCENARIO-TERMINATE", b)
  /\ UNCHANGED <<store, checked, listed>>
-----------------------------------------------------------------------------
(* The handler.                                                            *)

Handle(kind, b) ==
  /\ handler = Waiting /\ queue # <<>> /\ Head(queue) = [kind |-> kind, sandbox |-> b]
  /\ queue' = Tail(queue)
  /\ UNCHANGED <<requested, helm, hasty, requests>>

\* runTask: a job for the worker, when the channel has room.
RunTask(task, cs) ==
  /\ Len(jobs) < ChannelSize
  /\ jobs' = Append(jobs, [task |-> task, charts |-> cs])

\* createSandbox: a model, the charts, and a job to install them.
HandleCreate(b) ==
  /\ Handle("SANDBOX-CREATE", b)
  /\ activeModels' = activeModels \cup {b}
  /\ charts' = charts \cup SandboxCharts(b)
  /\ RunTask("INSTALL", SandboxCharts(b))
  /\ UNCHANGED <<activeScenarioNames, handler>>

\* activateScenario: the scenario that is active now; its name is kept.
HandleActivate(b) ==
  /\ Handle("SCENARIO-ACTIVATE", b)
  /\ IF b \notin activeModels THEN UNCHANGED <<activeScenarioNames, charts, jobs>>
     ELSE LET cs == ScenarioCharts(b, active[b])
          IN  /\ activeScenarioNames' = [activeScenarioNames EXCEPT ![b] = active[b]]
              /\ charts' = charts \cup {c \in cs : c[2] \notin UserCharts}
              /\ RunTask("INSTALL", cs)
  /\ UNCHANGED <<activeModels, handler>>

\* The releases that a prefix selects; without a scenario, the whole sandbox's.
Selected(scope) ==
  {r \in releases :
     \/ r[1] = scope
     \/ r[1][1] = scope[1] /\ scope[2] = NoScenario
     \/ <<scope, r[1]>> \in Covers}

\* deleteReleases: list what there is to delete.
StartDelete(scope) ==
  handler' = [at |-> "remove", scope |-> scope, listed |-> Selected(scope)]

\* Mutant: the name in the store, not the cached one.
TerminateReadsStore(b) ==
  /\ Handle("SCENARIO-TERMINATE", b)
  /\ IF b \notin activeModels THEN UNCHANGED handler ELSE StartDelete(<<b, active[b]>>)
  /\ UNCHANGED <<engine, charts, jobs>>

\* terminateScenario: the releases with the cached name.
HandleTerminate(b) ==
  /\ Handle("SCENARIO-TERMINATE", b)
  /\ IF b \notin activeModels THEN UNCHANGED <<activeScenarioNames, handler>>
     ELSE /\ StartDelete(<<b, activeScenarioNames[b]>>)
          /\ activeScenarioNames' = [activeScenarioNames EXCEPT ![b] = NoScenario]
  /\ UNCHANGED <<activeModels, charts, jobs>>

HandleDestroy(b) ==
  /\ Handle("SANDBOX-DESTROY", b)
  /\ StartDelete(<<b, NoScenario>>)
  /\ activeScenarioNames' = [activeScenarioNames EXCEPT ![b] = NoScenario]
  /\ activeModels' = activeModels \ {b}
  /\ UNCHANGED <<charts, jobs>>

\* deleteReleases: hand the list to the worker, then remove the charts: for a
\* scenario, the charts of all scenarios of the sandbox.
RemoveCharts ==
  /\ handler.at = "remove"
  /\ IF handler.listed = {} THEN UNCHANGED jobs ELSE RunTask("DELETE", handler.listed)
  /\ charts' = {c \in charts : \/ c[1][1] # handler.scope[1]
                               \/ handler.scope[2] # NoScenario /\ c[1][2] = NoScenario}
  /\ handler' = Waiting
  /\ UNCHANGED <<requested, queue, engine, helm, hasty, requests>>
-----------------------------------------------------------------------------
(* The worker.                                                             *)

WorkerOnly == UNCHANGED <<requested, queue, engine, handler, charts, hasty, requests>>

\* The next job.  ensureReleases: nothing is installed if any of the charts
\* already is.
TakeJob ==
  /\ worker = NoJob /\ jobs # <<>> /\ jobs' = Tail(jobs)
  /\ LET job == Head(jobs)
     IN  worker' = IF job.charts = {} \/ (job.task = "INSTALL" /\ job.charts \cap releases # {})
                   THEN NoJob
                   ELSE [task |-> job.task, todo |-> job.charts, charts |-> job.charts]
  /\ UNCHANGED <<releases, failed>> /\ WorkerOnly

Done(c) == IF worker.todo = {c} THEN NoJob ELSE [worker EXCEPT !.todo = @ \ {c}]

CanInstall(c) == c \in charts \/ c[2] \in UserCharts

Install ==
  /\ worker.task = "INSTALL"
  /\ \E c \in worker.todo :
       /\ CanInstall(c)
       /\ releases' = releases \cup {c} /\ worker' = Done(c)
  /\ UNCHANGED <<jobs, failed>> /\ WorkerOnly

\* Mutant: the job starts again.
InstallRetries ==
  /\ worker.task = "INSTALL"
  /\ \E c \in worker.todo : HelmMayFail \/ ~CanInstall(c)
  /\ releases' = releases \ worker.charts
  /\ worker' = [worker EXCEPT !.todo = worker.charts]
  /\ failed' = TRUE
  /\ UNCHANGED jobs /\ WorkerOnly

\* cleanReleases: what the job has installed is deleted.
InstallFails ==
  /\ worker.task = "INSTALL"
  /\ \E c \in worker.todo : HelmMayFail \/ ~CanInstall(c)
  /\ releases' = releases \ worker.charts /\ worker' = NoJob
  /\ failed' = TRUE
  /\ UNCHANGED jobs /\ WorkerOnly

\* A deletion that fails is logged.
Delete ==
  /\ worker.task = "DELETE"
  /\ \E c \in worker.todo :
       /\ worker' = Done(c)
       /\ \/ releases' = releases \ {c} /\ UNCHANGED failed
          \/ HelmMayFail /\ failed' = TRUE /\ UNCHANGED releases
  /\ UNCHANGED jobs /\ WorkerOnly

Rest == Still /\ listed = Idle /\ UNCHANGED vars

Next ==
  \/ \E b \in Sandboxes :
       \/ CheckName(b) \/ CreateSandbox(b) \/ DeleteSandbox(b) \/ DeleteListed(b)
       \/ Terminate(b)
       \/ \E s \in Scenarios : Activate(b, s)
       \/ HandleCreate(b) \/ HandleActivate(b) \/ HandleTerminate(b) \/ HandleDestroy(b)
  \/ ListSandboxes \/ FlushStore
  \/ RemoveCharts \/ TakeJob \/ Install \/ InstallFails \/ Delete \/ Rest

Spec == Init /\ [][Next]_vars

Handling == \/ RemoveCharts
            \/ \E b \in Sandboxes : \/ HandleCreate(b) \/ HandleActivate(b)
                                    \/ HandleTerminate(b) \/ HandleDestroy(b)
Working  == TakeJob \/ Install \/ InstallFails \/ Delete

\* The handler and the worker keep running.
FairSpec == Spec /\ WF_vars(Handling) /\ WF_vars(Working)
-----------------------------------------------------------------------------
(* Properties.                                                             *)

Expected == UNION {SandboxCharts(b) \cup (IF b \in busy THEN ScenarioCharts(b, active[b]) ELSE {})
                     : b \in store}

\* When everything has been handled, helm has the charts of the sandboxes in
\* the store and of their active scenarios, if requests were made one by one
\* and helm did not fail.
QuietIsExpected == Quiet /\ ~hasty /\ ~failed => releases = Expected

\* Requests are handled, and jobs done, however full the channel gets.
EventuallyStill == []<>Still
=============================================================================
