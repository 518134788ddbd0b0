--------------------------- MODULE PlatformProofs ---------------------------
(***************************************************************************)
(* Proofs about the platform: its virtualization engine, the page on which *)
(* its scenarios are made, and the calls by which they come and go.  The   *)
(* three share no state: each part speaks of one specification, Spec of    *)
(* the engine, CpSpec of the page and RcSpec of the calls.                 *)
(*                                                                         *)
(* Deployment: when requests are made one by one and helm does not fail,   *)
(* helm ends with the charts of the sandboxes in the store and of their    *)
(* active scenarios; for any sandboxes, scenarios, charts, number of       *)
(* requests and size of the channel.                                       *)
(*                                                                         *)
(* The page: when calls do not cross, it says LOADED of what the server    *)
(* has and NEW of what it does not have; and what is done to one element   *)
(* leaves all others; for any scenarios, elements, fields and lengths of a *)
(* session.                                                                *)
(*                                                                         *)
(* The calls: what the frontend was shown or told to be saved is what the  *)
(* server has; for any clients and servers whose tables agree key by key,  *)
(* however deep their models nest.                                         *)
(***************************************************************************)
EXTENDS VirtEngine, CfgPage, RestCall, SequenceTheorems, NaturalsInduction, WellFoundedInduction, TLAPS
-----------------------------------------------------------------------------
(* The virtualization engine.                                              *)

(* No release prefix covers a release of another sandbox, or a sandbox's    *)
(* own.  (It may cover those of other scenarios of the same sandbox: they   *)
(* are gone when it is used.)                                               *)
NamesApart ==
  \A x, y \in Scopes : <<x, y>> \in Covers => x[1] = y[1] /\ y[2] # NoScenario

Types ==
  /\ store \subseteq Sandboxes /\ busy \subseteq Sandboxes
  /\ active \in [Sandboxes -> Scenarios \cup {NoScenario}]
  /\ activeScenarioNames \in [Sandboxes -> Scenarios \cup {NoScenario}]

(* What the engine is to know of a sandbox when all messages are handled.   *)
Running(b) == IF b \in busy THEN active[b] ELSE NoScenario

Knows         == activeModels = store /\ \A b \in Sandboxes : activeScenarioNames[b] = Running(b)
KnowsAllBut(b) == \A c \in Sandboxes \ {b} : activeScenarioNames[c] = Running(c)

(* These charts are missing, and they can be installed.                     *)
Missing(cs)     == releases \cap cs = {} /\ releases \cup cs = Expected
Installable(cs) == \A c \in cs : CanInstall(c)

(* The request that is under way is in one place: nowhere, in the queue,    *)
(* with the handler, in the channel, or with the worker.                    *)
AtRest == Still /\ Knows /\ releases = Expected

Message(kind, b) == queue = <<[kind |-> kind, sandbox |-> b]>>

Creating(b) ==
  /\ Message("SANDBOX-CREATE", b) /\ b \in store \ busy
  /\ activeModels = store \ {b} /\ activeScenarioNames[b] = NoScenario
  /\ Missing(SandboxCharts(b))

Activating(b) ==
  /\ Message("SCENARIO-ACTIVATE", b) /\ b \in busy /\ activeModels = store
  /\ Missing(ScenarioCharts(b, active[b]))

Terminating(b) ==
  /\ Message("SCENARIO-TERMINATE", b) /\ b \in store \ busy /\ activeModels = store
  /\ activeScenarioNames[b] \in Scenarios
  /\ releases = Expected \cup ScenarioCharts(b, activeScenarioNames[b])

Destroying(b) ==
  /\ Message("SANDBOX-DESTROY", b) /\ b \notin store /\ activeModels = store \cup {b}
  /\ Expected \subseteq releases /\ \A r \in releases \ Expected : r[1][1] = b

InQueue(b) ==
  /\ handler = Waiting /\ jobs = <<>> /\ worker = NoJob /\ KnowsAllBut(b)
  /\ Creating(b) \/ Activating(b) \/ Terminating(b) \/ Destroying(b)

InHandler ==
  /\ queue = <<>> /\ handler.at = "remove" /\ jobs = <<>> /\ worker = NoJob /\ Knows
  /\ releases \ handler.listed = Expected

InChannel ==
  /\ queue = <<>> /\ handler = Waiting /\ worker = NoJob /\ Knows
  /\ jobs # <<>> /\ Tail(jobs) = <<>>
  /\ \/ /\ Head(jobs).task = "INSTALL"
        /\ Missing(Head(jobs).charts) /\ Installable(Head(jobs).charts)
     \/ Head(jobs).task = "DELETE" /\ releases \ Head(jobs).charts = Expected

InWorker ==
  /\ queue = <<>> /\ handler = Waiting /\ jobs = <<>> /\ Knows
  /\ DOMAIN worker = {"task", "todo", "charts"}
  /\ \/ worker.task = "INSTALL" /\ releases \cup worker.todo = Expected /\ Installable(worker.todo)
     \/ worker.task = "DELETE" /\ releases \ worker.todo = Expected

UnderWay == AtRest \/ (\E b \in Sandboxes : InQueue(b)) \/ InHandler \/ InChannel \/ InWorker

Sound == busy \subseteq store /\ \A b \in busy : active[b] \in Scenarios

(* While requests are made one by one and helm does not fail, one request   *)
(* at most is under way, and what it leaves to do makes helm's releases     *)
(* those expected.  A listed deletion has always more to ask for.           *)
OneByOne ==
  ~hasty /\ ~failed => Sound /\ (listed = Idle \/ listed.left # {}) /\ UnderWay

IInv == Types /\ OneByOne
-----------------------------------------------------------------------------
LEMMA OneElement ==
  ASSUME NEW m
  PROVE  Append(<<>>, m) = <<m>> /\ <<m>> # <<>> /\ Head(<<m>>) = m /\ Tail(<<m>>) = <<>>
OBVIOUS

LEMMA ExpectedIs ==
  ASSUME NEW r
  PROVE  r \in Expected <=> \E b \in store : r \in SandboxCharts(b)
                                             \/ (b \in busy /\ r \in ScenarioCharts(b, active[b]))
BY DEF Expected

(* Where charts belong.                                                     *)
LEMMA ChartScopes ==
  /\ \A b : \A r \in SandboxCharts(b) : r[1] = <<b, NoScenario>>
  /\ \A b, s : \A r \in ScenarioCharts(b, s) : r[1] = <<b, s>> /\ s # NoScenario
BY DEF SandboxCharts, ScenarioCharts

LEMMA InitInv == Init => IInv
<1> SUFFICES ASSUME Init PROVE IInv
    OBVIOUS
<1>1. Types
      BY DEF Init, Types
<1>2. Expected = {}
      BY DEF Init, Expected
<1>3. Still /\ Knows
      BY DEF Init, Still, Knows, Running
<1> QED BY <1>1, <1>2, <1>3 DEF Init, IInv, OneByOne, Sound, UnderWay, AtRest
-----------------------------------------------------------------------------
(* How a request changes what is expected.                                  *)
LEMMA ExpectedOfCreated ==
  ASSUME Sound, NEW b \in Sandboxes \ store, store' = store \cup {b}, UNCHANGED <<busy, active>>
  PROVE  Expected' = Expected \cup SandboxCharts(b) /\ Expected \cap SandboxCharts(b) = {}
<1>1. b \notin busy
      BY DEF Sound
<1>2. ASSUME NEW r PROVE r \in Expected' <=> r \in Expected \/ r \in SandboxCharts(b)
  <2>1. r \in Expected' <=> \E c \in store' : r \in SandboxCharts(c)
                                             \/ (c \in busy' /\ r \in ScenarioCharts(c, active'[c]))
        BY DEF Expected, SandboxCharts, ScenarioCharts
  <2> QED BY <1>1, <2>1, ExpectedIs
<1>3. ASSUME NEW r \in Expected PROVE r[1][1] # b
  <2>1. PICK c \in store : r \in SandboxCharts(c) \/ (c \in busy /\ r \in ScenarioCharts(c, active[c]))
        BY ExpectedIs
  <2>2. r[1][1] = c
        BY <2>1, ChartScopes
  <2> QED BY <2>2
<1>4. \A r \in SandboxCharts(b) : r[1][1] = b
      BY ChartScopes
<1> QED BY <1>2, <1>3, <1>4

LEMMA ExpectedOfRemoved ==
  ASSUME NEW b, store' = store \ {b}, busy' = busy \ {b}, active' = active
  PROVE  Expected' \subseteq Expected /\ \A r \in Expected \ Expected' : r[1][1] = b
<1>1. ASSUME NEW r
      PROVE  r \in Expected' <=> \E c \in store' : r \in SandboxCharts(c)
                                             \/ (c \in busy' /\ r \in ScenarioCharts(c, active'[c]))
      BY DEF Expected, SandboxCharts, ScenarioCharts
<1>2. ASSUME NEW r \in Expected' PROVE r \in Expected
      BY <1>1, ExpectedIs
<1>3. ASSUME NEW r \in Expected, r \notin Expected' PROVE r[1][1] = b
  <2>1. PICK c \in store : r \in SandboxCharts(c) \/ (c \in busy /\ r \in ScenarioCharts(c, active[c]))
        BY ExpectedIs
  <2>2. c = b
        BY <1>1, <1>3, <2>1
  <2> QED BY <2>1, <2>2, ChartScopes
<1> QED BY <1>2, <1>3

LEMMA ExpectedOfActive ==
  ASSUME Types, NEW b \in store \ busy, NEW s \in Scenarios,
         store' = store, busy' = busy \cup {b}, active' = [active EXCEPT ![b] = s]
  PROVE  /\ active'[b] = s
         /\ Expected' = Expected \cup ScenarioCharts(b, s) /\ Expected \cap ScenarioCharts(b, s) = {}
<1>1. active'[b] = s /\ \A c \in Sandboxes \ {b} : active'[c] = active[c]
      BY DEF Types
<1>2. ASSUME NEW r
      PROVE  r \in Expected' <=> \E c \in store' : r \in SandboxCharts(c)
                                             \/ (c \in busy' /\ r \in ScenarioCharts(c, active'[c]))
      BY DEF Expected, SandboxCharts, ScenarioCharts
<1>3. ASSUME NEW r PROVE r \in Expected' <=> r \in Expected \/ r \in ScenarioCharts(b, s)
      BY <1>1, <1>2, ExpectedIs DEF Types
<1>4. ASSUME NEW r \in Expected PROVE r[1] # <<b, s>>
  <2>1. PICK c \in store : r \in SandboxCharts(c) \/ (c \in busy /\ r \in ScenarioCharts(c, active[c]))
        BY ExpectedIs
  <2>2. CASE r \in SandboxCharts(c)
        BY <2>2, ChartScopes, VeAssumption
  <2>3. CASE c \in busy /\ r \in ScenarioCharts(c, active[c])
        BY <2>3, ChartScopes
  <2> QED BY <2>1, <2>2, <2>3
<1>5. \A r \in ScenarioCharts(b, s) : r[1] = <<b, s>>
      BY ChartScopes
<1> QED BY <1>1, <1>3, <1>4, <1>5

LEMMA ExpectedOfTerminated ==
  ASSUME Types, Sound, NEW b \in busy,
         store' = store, busy' = busy \ {b}, active' = [active EXCEPT ![b] = NoScenario]
  PROVE  Expected = Expected' \cup ScenarioCharts(b, active[b])
<1>1. \A c \in Sandboxes \ {b} : active'[c] = active[c]
      BY DEF Types
<1>2. ASSUME NEW r
      PROVE  r \in Expected' <=> \E c \in store' : r \in SandboxCharts(c)
                                             \/ (c \in busy' /\ r \in ScenarioCharts(c, active'[c]))
      BY DEF Expected, SandboxCharts, ScenarioCharts
<1>3. ASSUME NEW r PROVE r \in Expected <=> r \in Expected' \/ r \in ScenarioCharts(b, active[b])
      BY <1>1, <1>2, ExpectedIs DEF Types, Sound
<1> QED BY <1>3

(* Steps that leave the requests alone leave what is expected alone.        *)
LEMMA SameExpected ==
  ASSUME UNCHANGED <<store, busy, active>>
  PROVE  Expected' = Expected
BY DEF Expected, SandboxCharts, ScenarioCharts
-----------------------------------------------------------------------------
(* Requests.                                                                *)
LEMMA RequestInv ==
  ASSUME IInv, NEW b \in Sandboxes, CreateSandbox(b) \/ DeleteSandbox(b) \/ DeleteListed(b)
                                     \/ Terminate(b) \/ \E s \in Scenarios : Activate(b, s)
  PROVE  IInv'
<1>1. /\ hasty' = (hasty \/ ~Quiet)
      /\ UNCHANGED <<activeModels, activeScenarioNames, handler, charts, jobs, worker, releases, failed>>
      BY DEF CreateSandbox, DeleteSandbox, DeleteListed, RemoveSandbox, Activate, Terminate, Publish, engine, helm
<1>2. Types'
      BY <1>1 DEF IInv, Types, CreateSandbox, DeleteSandbox, DeleteListed, RemoveSandbox, Activate, Terminate
<1>3. ASSUME ~hasty', ~failed' PROVE Sound' /\ listed' = Idle /\ \E c \in Sandboxes : InQueue(c)'
  <2>1. ~hasty /\ Quiet /\ ~failed
        BY <1>1, <1>3
  <2>2. Sound /\ AtRest /\ checked = {} /\ listed = Idle
    <3>1. Still /\ checked = {} /\ listed = Idle
          BY <2>1 DEF Quiet
    <3>2. ~InHandler /\ ~InChannel /\ ~InWorker /\ \A c \in Sandboxes : ~InQueue(c)
      <4>1. ~InHandler
            BY <3>1 DEF Still, Waiting, InHandler
      <4>2. ~InChannel
            BY <3>1 DEF Still, InChannel
      <4>3. ~InWorker
            BY <3>1 DEF Still, NoJob, InWorker
      <4>4. \A c \in Sandboxes : ~InQueue(c)
            BY <3>1, OneElement DEF Still, InQueue, Message, Creating, Activating, Terminating, Destroying
      <4> QED BY <4>1, <4>2, <4>3, <4>4
    <3> QED BY <2>1, <3>1, <3>2 DEF IInv, OneByOne, UnderWay
  <2>3. /\ queue = <<>> /\ handler' = Waiting /\ jobs' = <<>> /\ worker' = NoJob
        /\ activeModels' = store /\ releases' = Expected
        /\ \A c \in Sandboxes : activeScenarioNames'[c] = Running(c)
        BY <1>1, <2>2 DEF AtRest, Still, Knows
  <2>4. listed' = Idle
        BY <2>2 DEF CreateSandbox, DeleteSandbox, DeleteListed, Activate, Terminate, Idle
  <2>5. CASE CreateSandbox(b)
    <3>1. /\ store' = store \cup {b} /\ b \notin store /\ UNCHANGED <<busy, active>>
          /\ queue' = <<[kind |-> "SANDBOX-CREATE", sandbox |-> b]>>
          BY <2>2, <2>3, <2>5, OneElement DEF CreateSandbox, Publish
    <3>2. Expected' = Expected \cup SandboxCharts(b) /\ Expected \cap SandboxCharts(b) = {}
          BY <2>2, <3>1, ExpectedOfCreated
    <3>3. Sound' /\ b \notin busy
          BY <2>2, <3>1 DEF Sound
    <3>4. KnowsAllBut(b)' /\ activeScenarioNames'[b] = NoScenario
          BY <2>3, <3>1, <3>3 DEF KnowsAllBut, Running
    <3>5. Creating(b)'
      <4>1. SandboxCharts(b)' = SandboxCharts(b)
            BY DEF SandboxCharts
      <4> QED BY <2>3, <3>1, <3>2, <3>3, <3>4, <4>1 DEF Creating, Message, Missing
    <3> QED BY <2>3, <2>4, <3>3, <3>4, <3>5 DEF InQueue
  <2>6. CASE DeleteSandbox(b) \/ DeleteListed(b)
    <3>1. /\ store' = store \ {b} /\ busy' = busy \ {b} /\ b \in store /\ UNCHANGED active
          /\ queue' = <<[kind |-> "SANDBOX-DESTROY", sandbox |-> b]>>
          BY <2>2, <2>3, <2>6, OneElement DEF DeleteSandbox, DeleteListed, RemoveSandbox, Publish, Idle
    <3>2. Expected' \subseteq Expected /\ \A r \in Expected \ Expected' : r[1][1] = b
          BY <3>1, ExpectedOfRemoved
    <3>3. Sound'
          BY <2>2, <3>1 DEF Sound
    <3>4. KnowsAllBut(b)'
          BY <2>3, <3>1 DEF KnowsAllBut, Running
    <3>5. Destroying(b)'
          BY <2>3, <3>1, <3>2 DEF Destroying, Message
    <3> QED BY <2>3, <2>4, <3>3, <3>4, <3>5 DEF InQueue
  <2>7. CASE Terminate(b)
    <3>1. /\ store' = store /\ busy' = busy \ {b} /\ b \in busy /\ active' = [active EXCEPT ![b] = NoScenario]
          /\ queue' = <<[kind |-> "SCENARIO-TERMINATE", sandbox |-> b]>>
          BY <2>3, <2>7, OneElement DEF Terminate, Publish
    <3>2. Expected = Expected' \cup ScenarioCharts(b, active[b])
          BY <2>2, <3>1, ExpectedOfTerminated DEF IInv
    <3>3. \A c \in Sandboxes \ {b} : active'[c] = active[c]
          BY <3>1 DEF IInv, Types
    <3>4. Sound' /\ b \in store
          BY <2>2, <3>1, <3>3 DEF Sound, IInv, Types
    <3>5. KnowsAllBut(b)' /\ activeScenarioNames'[b] = active[b] /\ active[b] \in Scenarios
          BY <2>2, <2>3, <3>1, <3>3 DEF KnowsAllBut, Running, Sound
    <3>6. Terminating(b)'
      <4>1. ScenarioCharts(b, activeScenarioNames[b])' = ScenarioCharts(b, active[b])
            BY <3>5 DEF ScenarioCharts
      <4> QED BY <2>3, <3>1, <3>2, <3>4, <3>5, <4>1 DEF Terminating, Message
    <3> QED BY <2>3, <2>4, <3>4, <3>5, <3>6 DEF InQueue
  <2>8. ASSUME NEW s \in Scenarios, Activate(b, s)
        PROVE  Sound' /\ listed' = Idle /\ \E c \in Sandboxes : InQueue(c)'
    <3>1. /\ store' = store /\ busy' = busy \cup {b} /\ b \in store \ busy /\ active' = [active EXCEPT ![b] = s]
          /\ queue' = <<[kind |-> "SCENARIO-ACTIVATE", sandbox |-> b]>>
          BY <2>3, <2>8, OneElement DEF Activate, Publish
    <3>2. /\ active'[b] = s
          /\ Expected' = Expected \cup ScenarioCharts(b, s) /\ Expected \cap ScenarioCharts(b, s) = {}
          BY <3>1, ExpectedOfActive DEF IInv
    <3>3. \A c \in Sandboxes \ {b} : active'[c] = active[c]
          BY <3>1 DEF IInv, Types
    <3>4. Sound'
          BY <2>2, <3>1, <3>2, <3>3 DEF Sound, IInv, Types
    <3>5. KnowsAllBut(b)'
          BY <2>3, <3>1, <3>3 DEF KnowsAllBut, Running
    <3>6. Activating(b)'
      <4>1. ScenarioCharts(b, active[b])' = ScenarioCharts(b, s)
            BY <3>2 DEF ScenarioCharts
      <4> QED BY <2>3, <3>1, <3>2, <4>1 DEF Activating, Message, Missing
    <3> QED BY <2>3, <2>4, <3>4, <3>5, <3>6 DEF InQueue
  <2> QED BY <2>5, <2>6, <2>7, <2>8
<1> QED BY <1>2, <1>3 DEF IInv, OneByOne, UnderWay

(* Steps of a request before it has said anything.                          *)
LEMMA SilentInv ==
  ASSUME IInv, (\E b \in Sandboxes : CheckName(b)) \/ ListSandboxes \/ FlushStore \/ Rest \/ UNCHANGED vars
  PROVE  IInv'
<1>1. CASE FlushStore
  <2>1. hasty \/ failed
        BY <1>1 DEF IInv, OneByOne, FlushStore, Idle
  <2> QED BY <1>1, <2>1 DEF FlushStore, IInv, Types, OneByOne, engine, helm
<1>2. CASE (\E b \in Sandboxes : CheckName(b)) \/ ListSandboxes \/ Rest \/ UNCHANGED vars
  <2>1. /\ UNCHANGED <<store, busy, active, queue, activeModels, activeScenarioNames, handler, charts, jobs,
                       worker, releases, failed, hasty>>
        /\ listed' = listed \/ listed'.left # {}
        BY <1>2 DEF CheckName, ListSandboxes, Rest, vars, requested, engine, helm
  <2>2. Expected' = Expected
        BY <2>1, SameExpected
  <2>3. UnderWay => UnderWay'
    <3>1. AtRest => AtRest'
          BY <2>1, <2>2 DEF AtRest, Still, Knows, Running
    <3>2. InHandler => InHandler'
          BY <2>1, <2>2 DEF InHandler, Knows, Running
    <3>3. InChannel => InChannel'
          BY <2>1, <2>2 DEF InChannel, Knows, Running, Missing, Installable, CanInstall
    <3>4. InWorker => InWorker'
          BY <2>1, <2>2 DEF InWorker, Knows, Running, Installable, CanInstall
    <3>5. ASSUME NEW b \in Sandboxes, InQueue(b) PROVE InQueue(b)'
      <4>1. KnowsAllBut(b)'
            BY <2>1, <3>5 DEF InQueue, KnowsAllBut, Running
      <4>2. Creating(b) => Creating(b)'
            BY <2>1, <2>2 DEF Creating, Message, Missing, SandboxCharts
      <4>3. Activating(b) => Activating(b)'
            BY <2>1, <2>2 DEF Activating, Message, Missing, ScenarioCharts
      <4>4. Terminating(b) => Terminating(b)'
            BY <2>1, <2>2 DEF Terminating, Message, ScenarioCharts
      <4>5. Destroying(b) => Destroying(b)'
            BY <2>1, <2>2 DEF Destroying, Message
      <4> QED BY <2>1, <3>5, <4>1, <4>2, <4>3, <4>4, <4>5 DEF InQueue
    <3> QED BY <3>1, <3>2, <3>3, <3>4, <3>5 DEF UnderWay
  <2>4. Types' /\ (Sound => Sound')
        BY <2>1 DEF IInv, Types, Sound
  <2> QED BY <2>1, <2>3, <2>4 DEF IInv, OneByOne
<1> QED BY <1>1, <1>2
-----------------------------------------------------------------------------
(* The handler.                                                             *)

(* A message that is handled is the one that is under way.                  *)
LEMMA HandledIsUnderWay ==
  ASSUME IInv, ~hasty, ~failed, NEW kind, NEW b \in Sandboxes, Handle(kind, b)
  PROVE  InQueue(b) /\ Message(kind, b) /\ queue' = <<>> /\ Sound
<1>1. queue # <<>> /\ Head(queue) = [kind |-> kind, sandbox |-> b] /\ queue' = Tail(queue)
      BY DEF Handle
<1>2. ~AtRest /\ ~InHandler /\ ~InChannel /\ ~InWorker
      BY <1>1 DEF AtRest, Still, InHandler, InChannel, InWorker
<1>3. PICK c \in Sandboxes : InQueue(c)
      BY <1>2 DEF IInv, OneByOne, UnderWay
<1>4. PICK k : Message(k, c)
      BY <1>3 DEF InQueue, Creating, Activating, Terminating, Destroying
<1>5. [kind |-> k, sandbox |-> c] = [kind |-> kind, sandbox |-> b] /\ queue' = <<>>
      BY <1>1, <1>4, OneElement DEF Message
<1>6. k = kind /\ c = b
      BY <1>5
<1> QED BY <1>3, <1>4, <1>5, <1>6 DEF IInv, OneByOne

LEMMA KindOfMessage ==
  ASSUME NEW k1, NEW k2, NEW b, Message(k1, b), Message(k2, b)
  PROVE  k1 = k2
<1>1. [kind |-> k1, sandbox |-> b] = [kind |-> k2, sandbox |-> b]
      BY OneElement DEF Message
<1> QED BY <1>1

LEMMA HandleCreateInv ==
  ASSUME IInv, NEW b \in Sandboxes, HandleCreate(b)
  PROVE  IInv'
<1>1. /\ UNCHANGED <<store, busy, active, listed, worker, releases, failed, hasty, activeScenarioNames, handler>>
      /\ activeModels' = activeModels \cup {b}
      /\ charts' = charts \cup SandboxCharts(b)
      /\ jobs' = Append(jobs, [task |-> "INSTALL", charts |-> SandboxCharts(b)])
      BY DEF HandleCreate, Handle, RunTask, requested, helm
<1>2. Types'
      BY <1>1 DEF IInv, Types
<1>3. ASSUME ~hasty, ~failed PROVE Sound' /\ (listed = Idle \/ listed.left # {}) /\ InChannel'
  <2>1. InQueue(b) /\ Message("SANDBOX-CREATE", b) /\ queue' = <<>> /\ Sound
        BY <1>3, HandledIsUnderWay DEF HandleCreate
  <2>2. Creating(b)
        BY <2>1, KindOfMessage DEF InQueue, Activating, Terminating, Destroying
  <2>3. jobs' = <<[task |-> "INSTALL", charts |-> SandboxCharts(b)]>>
        BY <1>1, <2>1, OneElement DEF InQueue
  <2>4. jobs' # <<>> /\ Tail(jobs') = <<>> /\ Head(jobs') = [task |-> "INSTALL", charts |-> SandboxCharts(b)]
        BY <2>3, OneElement
  <2>5. Knows'
    <3>1. activeModels' = store'
          BY <1>1, <2>2 DEF Creating
    <3>2. \A c \in Sandboxes : activeScenarioNames'[c] = Running(c)'
          BY <1>1, <2>1, <2>2 DEF InQueue, KnowsAllBut, Creating, Running
    <3> QED BY <3>1, <3>2 DEF Knows
  <2>6. Missing(SandboxCharts(b)) /\ Expected' = Expected
        BY <1>1, <2>2, SameExpected DEF Creating
  <2>7. releases' \cap SandboxCharts(b) = {} /\ releases' \cup SandboxCharts(b) = Expected'
        BY <1>1, <2>6 DEF Missing
  <2>8. \A c \in SandboxCharts(b) : CanInstall(c)'
        BY <1>1 DEF CanInstall
  <2>9. Missing(Head(jobs).charts)' /\ Installable(Head(jobs).charts)'
        BY <2>4, <2>7, <2>8 DEF Missing, Installable
  <2>10. Sound'
        BY <1>1, <2>1 DEF Sound
  <2> QED BY <1>1, <1>3, <2>1, <2>4, <2>5, <2>9, <2>10 DEF InChannel, InQueue, IInv, OneByOne
<1> QED BY <1>1, <1>2, <1>3 DEF IInv, OneByOne, UnderWay

LEMMA HandleActivateInv ==
  ASSUME IInv, NEW b \in Sandboxes, HandleActivate(b)
  PROVE  IInv'
<1>1. /\ UNCHANGED <<store, busy, active, listed, worker, releases, failed, hasty, handler, activeModels>>
      /\ activeScenarioNames' \in {activeScenarioNames, [activeScenarioNames EXCEPT ![b] = active[b]]}
      BY DEF HandleActivate, Handle, requested, helm
<1>2. Types'
      BY <1>1 DEF IInv, Types
<1>3. ASSUME ~hasty, ~failed PROVE Sound' /\ (listed = Idle \/ listed.left # {}) /\ InChannel'
  <2> DEFINE cs == ScenarioCharts(b, active[b])
  <2>1. InQueue(b) /\ Message("SCENARIO-ACTIVATE", b) /\ queue' = <<>> /\ Sound
        BY <1>3, HandledIsUnderWay DEF HandleActivate
  <2>2. Activating(b)
        BY <2>1, KindOfMessage DEF InQueue, Creating, Terminating, Destroying
  <2>3. b \in activeModels
        BY <2>1, <2>2 DEF Activating, Sound
  <2>4. /\ activeScenarioNames' = [activeScenarioNames EXCEPT ![b] = active[b]]
        /\ charts' = charts \cup {c \in cs : c[2] \notin UserCharts}
        /\ jobs' = Append(jobs, [task |-> "INSTALL", charts |-> cs])
        BY <2>3 DEF HandleActivate, RunTask
  <2> HIDE DEF cs
  <2>5. jobs' = <<[task |-> "INSTALL", charts |-> cs]>>
        BY <2>1, <2>4, OneElement DEF InQueue
  <2>6. jobs' # <<>> /\ Tail(jobs') = <<>> /\ Head(jobs') = [task |-> "INSTALL", charts |-> cs]
        BY <2>5, OneElement
  <2>7. Knows'
    <3>1. activeModels' = store'
          BY <1>1, <2>2 DEF Activating
    <3>2. \A c \in Sandboxes : activeScenarioNames'[c] = Running(c)'
          BY <1>1, <2>1, <2>2, <2>4 DEF IInv, Types, InQueue, KnowsAllBut, Activating, Running
    <3> QED BY <3>1, <3>2 DEF Knows
  <2>8. Missing(cs) /\ Expected' = Expected
        BY <1>1, <2>2, SameExpected DEF Activating, cs
  <2>9. releases' \cap cs = {} /\ releases' \cup cs = Expected'
        BY <1>1, <2>8 DEF Missing
  <2>10. \A c \in cs : CanInstall(c)'
        BY <2>4 DEF CanInstall
  <2>11. Missing(Head(jobs).charts)' /\ Installable(Head(jobs).charts)'
        BY <2>6, <2>9, <2>10 DEF Missing, Installable
  <2>12. Sound'
        BY <1>1, <2>1 DEF Sound
  <2> QED BY <1>1, <1>3, <2>1, <2>6, <2>7, <2>11, <2>12 DEF InChannel, InQueue, IInv, OneByOne
<1> QED BY <1>1, <1>2, <1>3 DEF IInv, OneByOne, UnderWay

(* What a list of releases to delete holds, of those that are expected and  *)
(* those that are not.                                                      *)
LEMMA SelectedOfTerminated ==
  ASSUME NamesApart, Sound, NEW b \in store \ busy, NEW s \in Scenarios, store \subseteq Sandboxes,
         releases = Expected \cup ScenarioCharts(b, s)
  PROVE  releases \ Selected(<<b, s>>) = Expected
<1>1. ASSUME NEW r \in ScenarioCharts(b, s) PROVE r \in Selected(<<b, s>>)
      BY <1>1, ChartScopes DEF Selected
<1>2. ASSUME NEW r \in Expected PROVE r \notin Selected(<<b, s>>)
  <2>1. PICK c \in store : r \in SandboxCharts(c) \/ (c \in busy /\ r \in ScenarioCharts(c, active[c]))
        BY ExpectedIs
  <2>2. s # NoScenario
        BY VeAssumption
  <2>3. CASE r \in SandboxCharts(c)
    <3>1. r[1] = <<c, NoScenario>>
          BY <2>3, ChartScopes
    <3>2. <<c, NoScenario>> \in Scopes /\ <<b, s>> \in Scopes
          BY DEF Scopes
    <3>3. <<<<b, s>>, r[1]>> \notin Covers
          BY <3>1, <3>2 DEF NamesApart
    <3> QED BY <2>2, <3>1, <3>3 DEF Selected
  <2>4. CASE c \in busy /\ r \in ScenarioCharts(c, active[c])
    <3>1. r[1] = <<c, active[c]>> /\ c # b
          BY <2>4, ChartScopes
    <3>2. <<c, active[c]>> \in Scopes /\ <<b, s>> \in Scopes
          BY <2>4 DEF Scopes, Sound
    <3>3. <<<<b, s>>, r[1]>> \notin Covers
          BY <3>1, <3>2 DEF NamesApart
    <3> QED BY <2>2, <3>1, <3>3 DEF Selected
  <2> QED BY <2>1, <2>3, <2>4
<1> QED BY <1>1, <1>2

LEMMA SelectedOfRemoved ==
  ASSUME NamesApart, Sound, NEW b \in Sandboxes \ store, store \subseteq Sandboxes,
         Expected \subseteq releases, \A r \in releases \ Expected : r[1][1] = b
  PROVE  releases \ Selected(<<b, NoScenario>>) = Expected
<1>1. ASSUME NEW r \in releases \ Expected PROVE r \in Selected(<<b, NoScenario>>)
      BY <1>1 DEF Selected
<1>2. ASSUME NEW r \in Expected PROVE r \notin Selected(<<b, NoScenario>>)
  <2>1. PICK c \in store : r \in SandboxCharts(c) \/ (c \in busy /\ r \in ScenarioCharts(c, active[c]))
        BY ExpectedIs
  <2>2. PICK s \in Scenarios \cup {NoScenario} : r[1] = <<c, s>>
        BY <2>1, ChartScopes DEF Sound
  <2>3. <<c, s>> \in Scopes /\ <<b, NoScenario>> \in Scopes /\ c # b
        BY DEF Scopes
  <2>4. <<<<b, NoScenario>>, r[1]>> \notin Covers
        BY <2>2, <2>3 DEF NamesApart
  <2> QED BY <2>2, <2>3, <2>4 DEF Selected
<1> QED BY <1>1, <1>2

LEMMA HandleTerminateInv ==
  ASSUME NamesApart, IInv, NEW b \in Sandboxes, HandleTerminate(b)
  PROVE  IInv'
<1>1. /\ UNCHANGED <<store, busy, active, listed, worker, releases, failed, hasty, activeModels, jobs>>
      /\ activeScenarioNames' \in {activeScenarioNames, [activeScenarioNames EXCEPT ![b] = NoScenario]}
      BY DEF HandleTerminate, Handle, requested, helm
<1>2. Types'
      BY <1>1 DEF IInv, Types
<1>3. ASSUME ~hasty, ~failed PROVE Sound' /\ (listed = Idle \/ listed.left # {}) /\ InHandler'
  <2> DEFINE s == activeScenarioNames[b]
  <2>1. InQueue(b) /\ Message("SCENARIO-TERMINATE", b) /\ queue' = <<>> /\ Sound
        BY <1>3, HandledIsUnderWay DEF HandleTerminate
  <2>2. Terminating(b)
        BY <2>1, KindOfMessage DEF InQueue, Creating, Activating, Destroying
  <2>3. b \in store \ busy /\ b \in activeModels /\ s \in Scenarios
        BY <2>2 DEF Terminating
  <2>4. /\ activeScenarioNames' = [activeScenarioNames EXCEPT ![b] = NoScenario]
        /\ handler' = [at |-> "remove", scope |-> <<b, s>>, listed |-> Selected(<<b, s>>)]
        BY <2>3 DEF HandleTerminate, StartDelete
  <2>5. releases \ Selected(<<b, s>>) = Expected
        BY <2>1, <2>2, <2>3, SelectedOfTerminated DEF Terminating, IInv, Types
  <2>6. Knows'
    <3>1. activeModels' = store'
          BY <1>1, <2>2 DEF Terminating
    <3>2. \A c \in Sandboxes : activeScenarioNames'[c] = Running(c)'
          BY <1>1, <2>1, <2>3, <2>4 DEF IInv, Types, InQueue, KnowsAllBut, Running
    <3> QED BY <3>1, <3>2 DEF Knows
  <2>7. Expected' = Expected
        BY <1>1, SameExpected
  <2>8. handler'.at = "remove" /\ releases' \ handler'.listed = Expected'
        BY <1>1, <2>4, <2>5, <2>7
  <2>9. Sound'
        BY <1>1, <2>1 DEF Sound
  <2> QED BY <1>1, <1>3, <2>1, <2>6, <2>8, <2>9 DEF InHandler, InQueue, IInv, OneByOne
<1> QED BY <1>1, <1>2, <1>3 DEF IInv, OneByOne, UnderWay

LEMMA HandleDestroyInv ==
  ASSUME NamesApart, IInv, NEW b \in Sandboxes, HandleDestroy(b)
  PROVE  IInv'
<1>1. /\ UNCHANGED <<store, busy, active, listed, worker, releases, failed, hasty, jobs>>
      /\ activeScenarioNames' = [activeScenarioNames EXCEPT ![b] = NoScenario]
      /\ activeModels' = activeModels \ {b}
      /\ handler' = [at |-> "remove", scope |-> <<b, NoScenario>>, listed |-> Selected(<<b, NoScenario>>)]
      BY DEF HandleDestroy, Handle, StartDelete, requested, helm
<1>2. Types'
      BY <1>1 DEF IInv, Types
<1>3. ASSUME ~hasty, ~failed PROVE Sound' /\ (listed = Idle \/ listed.left # {}) /\ InHandler'
  <2>1. InQueue(b) /\ Message("SANDBOX-DESTROY", b) /\ queue' = <<>> /\ Sound
        BY <1>3, HandledIsUnderWay DEF HandleDestroy
  <2>2. Destroying(b)
        BY <2>1, KindOfMessage DEF InQueue, Creating, Activating, Terminating
  <2>3. releases \ Selected(<<b, NoScenario>>) = Expected
        BY <2>1, <2>2, SelectedOfRemoved DEF Destroying, IInv, Types
  <2>4. Knows'
    <3>1. activeModels' = store'
          BY <1>1, <2>2 DEF Destroying
    <3>2. \A c \in Sandboxes : activeScenarioNames'[c] = Running(c)'
          BY <1>1, <2>1, <2>2 DEF IInv, Types, InQueue, KnowsAllBut, Running, Destroying, Sound
    <3> QED BY <3>1, <3>2 DEF Knows
  <2>5. Expected' = Expected
        BY <1>1, SameExpected
  <2>6. handler'.at = "remove" /\ releases' \ handler'.listed = Expected'
        BY <1>1, <2>3, <2>5
  <2>7. Sound'
        BY <1>1, <2>1 DEF Sound
  <2> QED BY <1>1, <1>3, <2>1, <2>4, <2>6, <2>7 DEF InHandler, InQueue, IInv, OneByOne
<1> QED BY <1>1, <1>2, <1>3 DEF IInv, OneByOne, UnderWay

LEMMA RemoveChartsInv ==
  ASSUME IInv, RemoveCharts
  PROVE  IInv'
<1>1. /\ UNCHANGED <<store, busy, active, listed, queue, activeModels, activeScenarioNames, worker, releases,
                     failed, hasty>>
      /\ handler.at = "remove" /\ handler' = Waiting
      BY DEF RemoveCharts, requested, engine, helm
<1>2. Types'
      BY <1>1 DEF IInv, Types
<1>3. ASSUME ~hasty, ~failed
      PROVE  Sound' /\ (listed = Idle \/ listed.left # {}) /\ (AtRest' \/ InChannel')
  <2>1. Sound /\ InHandler
    <3>1. ~AtRest /\ ~InChannel /\ ~InWorker /\ \A b \in Sandboxes : ~InQueue(b)
          BY <1>1 DEF AtRest, Still, InChannel, InWorker, InQueue, Waiting
    <3> QED BY <1>3, <3>1 DEF IInv, OneByOne, UnderWay
  <2>2. Sound' /\ Knows' /\ Expected' = Expected
        BY <1>1, <2>1, SameExpected DEF Sound, InHandler, Knows, Running
  <2>3. CASE handler.listed = {}
    <3>1. jobs' = jobs
          BY <2>3 DEF RemoveCharts
    <3>2. AtRest'
          BY <1>1, <2>1, <2>2, <2>3, <3>1 DEF InHandler, AtRest, Still
    <3> QED BY <1>3, <2>2, <3>2 DEF IInv, OneByOne
  <2>4. CASE handler.listed # {}
    <3>1. jobs' = <<[task |-> "DELETE", charts |-> handler.listed]>>
          BY <2>1, <2>4, OneElement DEF RemoveCharts, RunTask, InHandler
    <3>2. jobs' # <<>> /\ Tail(jobs') = <<>> /\ Head(jobs') = [task |-> "DELETE", charts |-> handler.listed]
          BY <3>1, OneElement
    <3>3. InChannel'
          BY <1>1, <2>1, <2>2, <3>2 DEF InHandler, InChannel
    <3> QED BY <1>3, <2>2, <3>3 DEF IInv, OneByOne
  <2> QED BY <2>3, <2>4
<1> QED BY <1>1, <1>2, <1>3 DEF IInv, OneByOne, UnderWay
-----------------------------------------------------------------------------
(* The worker.                                                              *)
LEMMA WorkerChanges ==
  ASSUME IInv, WorkerOnly
  PROVE  /\ Types' /\ Expected' = Expected /\ (Sound => Sound') /\ (Knows => Knows')
         /\ UNCHANGED <<listed, queue, handler, hasty, charts>>
<1>1. UNCHANGED <<store, busy, active, listed, queue, activeModels, activeScenarioNames, handler, hasty, charts>>
      BY DEF WorkerOnly, requested, engine
<1> QED BY <1>1, SameExpected DEF IInv, Types, Sound, Knows, Running

LEMMA TakeJobInv ==
  ASSUME IInv, TakeJob
  PROVE  IInv'
<1>1. /\ Types' /\ Expected' = Expected /\ (Sound => Sound') /\ (Knows => Knows')
      /\ UNCHANGED <<listed, queue, handler, hasty, charts, releases, failed>>
      /\ jobs # <<>> /\ jobs' = Tail(jobs)
      BY WorkerChanges DEF TakeJob
<1>2. ASSUME ~hasty, ~failed
      PROVE  Sound' /\ (listed = Idle \/ listed.left # {}) /\ (AtRest' \/ InWorker')
  <2> DEFINE job == Head(jobs)
  <2>1. Sound /\ InChannel
    <3>1. ~AtRest /\ ~InHandler /\ ~InWorker /\ \A b \in Sandboxes : ~InQueue(b)
          BY <1>1 DEF AtRest, Still, InHandler, InWorker, InQueue
    <3> QED BY <1>2, <3>1 DEF IInv, OneByOne, UnderWay
  <2>2. /\ queue' = <<>> /\ handler' = Waiting /\ jobs' = <<>> /\ Knows'
        BY <1>1, <2>1 DEF InChannel
  <2>3. \/ job.task = "INSTALL" /\ Missing(job.charts) /\ Installable(job.charts)
        \/ job.task = "DELETE" /\ releases \ job.charts = Expected
        BY <2>1 DEF InChannel
  <2>4. CASE job.charts = {}
    <3>1. worker' = NoJob
          BY <2>4 DEF TakeJob
    <3>2. releases = Expected
          BY <2>3, <2>4 DEF Missing
    <3> QED BY <1>1, <1>2, <2>1, <2>2, <3>1, <3>2 DEF AtRest, Still, IInv, OneByOne
  <2>5. CASE job.charts # {}
    <3>1. job.task = "INSTALL" => job.charts \cap releases = {}
          BY <2>3 DEF Missing
    <3>2. worker' = [task |-> job.task, todo |-> job.charts, charts |-> job.charts]
          BY <2>5, <3>1 DEF TakeJob
    <3>3. worker'.task = job.task /\ worker'.todo = job.charts /\ DOMAIN worker' = {"task", "todo", "charts"}
          BY <3>2
    <3>4. InWorker'
      <4>1. CASE job.task = "INSTALL" /\ Missing(job.charts) /\ Installable(job.charts)
        <5>1. releases' \cup worker'.todo = Expected' /\ Installable(worker.todo)'
              BY <1>1, <3>3, <4>1 DEF Missing, Installable, CanInstall
        <5> QED BY <2>2, <3>3, <4>1, <5>1 DEF InWorker
      <4>2. CASE job.task = "DELETE" /\ releases \ job.charts = Expected
            BY <1>1, <2>2, <3>3, <4>2 DEF InWorker
      <4> QED BY <2>3, <4>1, <4>2
    <3> QED BY <1>1, <1>2, <2>1, <3>4 DEF IInv, OneByOne
  <2> QED BY <2>4, <2>5
<1> QED BY <1>1, <1>2 DEF IInv, OneByOne, UnderWay

(* A worker that works has the request.                                     *)
LEMMA WorkerHasIt ==
  ASSUME IInv, ~hasty, ~failed, worker.task \in {"INSTALL", "DELETE"}
  PROVE  Sound /\ InWorker /\ (listed = Idle \/ listed.left # {})
<1>1. worker # NoJob
      BY DEF NoJob
<1>2. ~AtRest /\ ~InHandler /\ ~InChannel /\ \A b \in Sandboxes : ~InQueue(b)
      BY <1>1 DEF AtRest, Still, InHandler, InChannel, InQueue
<1> QED BY <1>2 DEF IInv, OneByOne, UnderWay

(* One chart of a job is done: the worker waits, or goes on with the rest.  *)
LEMMA AfterOneChart ==
  ASSUME InWorker, NEW c \in worker.todo, worker' = Done(c)
  PROVE  \/ worker.todo = {c} /\ worker' = NoJob
         \/ /\ worker'.task = worker.task /\ worker'.todo = worker.todo \ {c}
            /\ DOMAIN worker' = {"task", "todo", "charts"}
<1>1. CASE worker.todo = {c}
      BY <1>1 DEF Done
<1>2. CASE worker.todo # {c}
  <2>1. worker' = [worker EXCEPT !.todo = @ \ {c}]
        BY <1>2 DEF Done
  <2>2. DOMAIN worker = {"task", "todo", "charts"}
        BY DEF InWorker
  <2> QED BY <2>1, <2>2
<1> QED BY <1>1, <1>2

LEMMA InstallInv ==
  ASSUME IInv, Install
  PROVE  IInv'
<1>1. PICK c \in worker.todo : releases' = releases \cup {c} /\ worker' = Done(c)
      BY DEF Install
<1>2. /\ Types' /\ Expected' = Expected /\ (Sound => Sound') /\ (Knows => Knows')
      /\ UNCHANGED <<listed, queue, handler, hasty, charts, jobs, failed>>
      /\ worker.task = "INSTALL"
      BY WorkerChanges DEF Install
<1>3. ASSUME ~hasty, ~failed
      PROVE  Sound' /\ (listed = Idle \/ listed.left # {}) /\ (AtRest' \/ InWorker')
  <2>1. Sound /\ InWorker /\ (listed = Idle \/ listed.left # {})
        BY <1>2, <1>3, WorkerHasIt
  <2>2. releases \cup worker.todo = Expected /\ Installable(worker.todo)
        BY <1>2, <2>1 DEF InWorker
  <2>3. queue' = <<>> /\ handler' = Waiting /\ jobs' = <<>> /\ Knows'
        BY <1>2, <2>1 DEF InWorker
  <2>4. CASE worker.todo = {c} /\ worker' = NoJob
    <3>1. releases' = Expected'
          BY <1>1, <1>2, <2>2, <2>4
    <3> QED BY <1>2, <2>1, <2>3, <2>4, <3>1 DEF AtRest, Still
  <2>5. CASE /\ worker'.task = worker.task /\ worker'.todo = worker.todo \ {c}
             /\ DOMAIN worker' = {"task", "todo", "charts"}
    <3>1. releases' \cup worker'.todo = Expected'
          BY <1>1, <1>2, <2>2, <2>5
    <3>2. Installable(worker.todo)'
          BY <1>2, <2>2, <2>5 DEF Installable, CanInstall
    <3> QED BY <1>2, <2>1, <2>3, <2>5, <3>1, <3>2 DEF InWorker
  <2> QED BY <1>1, <2>1, <2>4, <2>5, AfterOneChart
<1> QED BY <1>2, <1>3 DEF IInv, OneByOne, UnderWay

LEMMA DeleteInv ==
  ASSUME IInv, Delete
  PROVE  IInv'
<1>1. PICK c \in worker.todo :
        /\ worker' = Done(c)
        /\ \/ releases' = releases \ {c} /\ UNCHANGED failed
           \/ failed' = TRUE
      BY DEF Delete
<1>2. /\ Types' /\ Expected' = Expected /\ (Sound => Sound') /\ (Knows => Knows')
      /\ UNCHANGED <<listed, queue, handler, hasty, charts, jobs>>
      /\ worker.task = "DELETE"
      BY WorkerChanges DEF Delete
<1>3. ASSUME ~hasty', ~failed'
      PROVE  Sound' /\ (listed = Idle \/ listed.left # {}) /\ (AtRest' \/ InWorker')
  <2>1. ~hasty /\ ~failed /\ releases' = releases \ {c}
        BY <1>1, <1>2, <1>3
  <2>2. Sound /\ InWorker /\ (listed = Idle \/ listed.left # {})
        BY <1>2, <2>1, WorkerHasIt
  <2>3. releases \ worker.todo = Expected
        BY <1>2, <2>2 DEF InWorker
  <2>4. queue' = <<>> /\ handler' = Waiting /\ jobs' = <<>> /\ Knows'
        BY <1>2, <2>2 DEF InWorker
  <2>5. CASE worker.todo = {c} /\ worker' = NoJob
    <3>1. releases' = Expected'
          BY <1>2, <2>1, <2>3, <2>5
    <3> QED BY <1>2, <2>2, <2>4, <2>5, <3>1 DEF AtRest, Still
  <2>6. CASE /\ worker'.task = worker.task /\ worker'.todo = worker.todo \ {c}
             /\ DOMAIN worker' = {"task", "todo", "charts"}
    <3>1. releases' \ worker'.todo = Expected'
          BY <1>2, <2>1, <2>3, <2>6
    <3> QED BY <1>2, <2>2, <2>4, <2>6, <3>1 DEF InWorker
  <2> QED BY <1>1, <2>2, <2>5, <2>6, AfterOneChart
<1> QED BY <1>2, <1>3 DEF IInv, OneByOne, UnderWay

\* An installation that fails is noted; nothing is claimed after it.
LEMMA InstallFailsInv ==
  ASSUME IInv, InstallFails
  PROVE  IInv'
BY WorkerChanges DEF InstallFails, IInv, OneByOne
-----------------------------------------------------------------------------
LEMMA StepInv ==
  ASSUME NamesApart, IInv, [Next]_vars
  PROVE  IInv'
<1>1. CASE \E b \in Sandboxes : \/ CreateSandbox(b) \/ DeleteSandbox(b) \/ DeleteListed(b)
                                \/ Terminate(b) \/ \E s \in Scenarios : Activate(b, s)
      BY <1>1, RequestInv
<1>2. CASE \/ \E b \in Sandboxes : CheckName(b)
           \/ ListSandboxes \/ FlushStore \/ Rest \/ UNCHANGED vars
      BY <1>2, SilentInv
<1>3. CASE \/ RemoveCharts
           \/ \E b \in Sandboxes : \/ HandleCreate(b) \/ HandleActivate(b)
                                   \/ HandleTerminate(b) \/ HandleDestroy(b)
      BY <1>3, HandleCreateInv, HandleActivateInv, HandleTerminateInv, HandleDestroyInv, RemoveChartsInv
<1>4. CASE TakeJob \/ Install \/ InstallFails \/ Delete
      BY <1>4, TakeJobInv, InstallInv, InstallFailsInv, DeleteInv
<1> QED BY <1>1, <1>2, <1>3, <1>4 DEF Next

\* The invariant of deployment: one request at most is under way, and what it
\* leaves to do makes helm's releases those expected.
THEOREM DeploymentInvariant ==
  ASSUME NamesApart
  PROVE  Spec => []IInv
BY InitInv, StepInv, PTL DEF Spec

\* When everything has been handled helm has the charts of the sandboxes in the
\* store and of their active scenarios, if requests were made one by one and
\* helm did not fail: for any sandboxes, scenarios, charts, number of requests
\* and size of the channel, when no release prefix covers another's releases.
THEOREM QuietMeansExpected ==
  ASSUME NamesApart
  PROVE  Spec => []QuietIsExpected
<1>1. IInv => QuietIsExpected
  <2> SUFFICES ASSUME IInv, Quiet, ~hasty, ~failed PROVE releases = Expected
      BY DEF QuietIsExpected
  <2>1. queue = <<>> /\ handler = Waiting /\ jobs = <<>> /\ worker = NoJob
        BY DEF Quiet, Still
  <2>2. ~InHandler /\ ~InChannel /\ ~InWorker
        BY <2>1 DEF InHandler, InChannel, InWorker, Waiting, NoJob
  <2>3. \A b \in Sandboxes : ~InQueue(b)
        BY <2>1, OneElement DEF InQueue, Message, Creating, Activating, Terminating, Destroying
  <2> QED BY <2>2, <2>3 DEF IInv, OneByOne, UnderWay, AtRest
<1> QED BY <1>1, DeploymentInvariant, PTL

\* The engine gives helm only charts that it has: when helm itself works and
\* requests are made one by one, no installation fails.
NothingFails == ~hasty => ~failed

\* So it is for any sandboxes, scenarios and charts, when no release prefix
\* covers another's releases.
THEOREM ChartsAreThere ==
  ASSUME NamesApart, HelmMayFail = FALSE
  PROVE  Spec => []NothingFails
<1>1. Init => NothingFails
      BY DEF Init, NothingFails
<1>2. IInv /\ NothingFails /\ [Next]_vars => NothingFails'
  <2> SUFFICES ASSUME IInv, NothingFails, [Next]_vars, ~hasty' PROVE ~failed'
      BY DEF NothingFails
  <2>1. CASE InstallFails
    <3>1. ~hasty /\ ~failed /\ worker.task = "INSTALL" /\ \E c \in worker.todo : ~CanInstall(c)
          BY <2>1 DEF InstallFails, WorkerOnly, NothingFails
    <3>2. InWorker
          BY <3>1, WorkerHasIt
    <3> QED BY <3>1, <3>2 DEF InWorker, Installable
  <2>2. CASE UNCHANGED <<hasty, failed>>
        BY <2>2 DEF NothingFails
  <2>3. CASE \E b \in Sandboxes : \/ CreateSandbox(b) \/ DeleteSandbox(b) \/ DeleteListed(b)
                                  \/ Terminate(b) \/ \E s \in Scenarios : Activate(b, s)
    <3>1. failed' = failed /\ hasty' = (hasty \/ ~Quiet)
          BY <2>3 DEF CreateSandbox, DeleteSandbox, DeleteListed, RemoveSandbox, Activate, Terminate, Publish, helm
    <3> QED BY <3>1 DEF NothingFails
  <2>4. CASE \/ \E b \in Sandboxes : CheckName(b)
             \/ ListSandboxes \/ FlushStore \/ Rest \/ UNCHANGED vars
        BY <2>2, <2>4 DEF CheckName, ListSandboxes, FlushStore, Rest, vars, helm
  <2>5. CASE \/ RemoveCharts
             \/ \E b \in Sandboxes : \/ HandleCreate(b) \/ HandleActivate(b)
                                     \/ HandleTerminate(b) \/ HandleDestroy(b)
        BY <2>2, <2>5 DEF RemoveCharts, HandleCreate, HandleActivate, HandleTerminate, HandleDestroy, Handle, helm
  <2>6. CASE TakeJob \/ Install \/ Delete
        BY <2>2, <2>6 DEF TakeJob, Install, Delete, WorkerOnly
  <2> QED BY <2>1, <2>3, <2>4, <2>5, <2>6 DEF Next
<1> QED BY <1>1, <1>2, DeploymentInvariant, PTL DEF Spec
-----------------------------------------------------------------------------
(* The configuration page.                                                 *)

\* A set of numbers has a least one.
LEMMA LeastNumber ==
  ASSUME NEW T \in SUBSET Nat, T # {}
  PROVE  \E m \in T : \A k \in T : m <= k
<1>1. PICK m \in T : \A k \in T : ~ (<<k, m>> \in OpToRel(<, Nat))
  BY NatLessThanWellFounded, WFMin, Zenon
<1>2. ASSUME NEW k \in T PROVE m <= k
  <2>1. CASE k < m
    <3>1. <<k, m>> \in OpToRel(<, Nat)
      BY <2>1 DEF OpToRel
    <3> QED BY <1>1, <3>1
  <2> QED BY <2>1
<1> QED BY <1>2

\* What holds at 0 and goes on holds up to n.
LEMMA UpTo ==
  ASSUME NEW n \in Nat, NEW T, 0 \in T,
         \A k \in 0 .. n : k \in T /\ k < n => k + 1 \in T
  PROVE  \A k \in 0 .. n : k \in T
<1> DEFINE B == {k \in 0 .. n : k \notin T}
<1>1. SUFFICES ASSUME B # {} PROVE FALSE
  OBVIOUS
<1>2. B \in SUBSET Nat
  OBVIOUS
<1>3. PICK m \in B : \A k \in B : m <= k
  <2> HIDE DEF B
  <2> QED BY <1>1, <1>2, LeastNumber
<1>4. m - 1 \in 0 .. n /\ m - 1 < m
  BY <1>3
<1>5. m - 1 \in T
  BY <1>3, <1>4
<1> QED BY <1>3, <1>4, <1>5

\* Min is the least number of a set of them.
LEMMA MinIs ==
  ASSUME NEW T \in SUBSET Nat, T # {}
  PROVE  Min(T) \in T /\ \A k \in T : Min(T) <= k
  BY LeastNumber DEF Min
-----------------------------------------------------------------------------
(* What the operations of the editor leave of a scenario: its first node.   *)
IsSeq(s) == s \in Seq({s[k] : k \in Nodes(s)})

\* t is a scenario of the name of s.
SameName(s, t) == IsScenario(t) /\ Name(t) = Name(s)

\* A sequence of anything is one of its own elements.
LEMMA SeqIs ==
  ASSUME NEW S, NEW s \in Seq(S)
  PROVE  IsSeq(s)
  BY DEF IsSeq, Nodes

\* What two sequences joined are.
Joined(s, t, u) ==
  /\ IsSeq(u) /\ Len(u) = Len(s) + Len(t)
  /\ \A k \in 1 .. Len(s) : u[k] = s[k]
  /\ \A k \in 1 .. Len(t) : u[Len(s) + k] = t[k]

LEMMA JoinedIs ==
  ASSUME NEW s, NEW t, IsSeq(s), IsSeq(t), NEW u, u = s \o t
  PROVE  Joined(s, t, u)
<1> DEFINE S == {s[k] : k \in Nodes(s)} \cup {t[k] : k \in Nodes(t)}
<1>1. s \in Seq(S) /\ t \in Seq(S)
  BY DEF IsSeq, Nodes
<1> HIDE DEF S
<1>2. s \o t \in Seq(S) /\ Len(s \o t) = Len(s) + Len(t)
  BY <1>1
<1>3. ASSUME NEW k \in 1 .. Len(s) PROVE (s \o t)[k] = s[k]
  BY <1>1
<1>4. ASSUME NEW k \in 1 .. Len(t) PROVE (s \o t)[Len(s) + k] = t[k]
  BY <1>1
<1> QED BY <1>2, <1>3, <1>4, SeqIs DEF Joined

\* What a part of a sequence is.
LEMMA CutIs ==
  ASSUME NEW s, IsSeq(s), NEW m \in 1 .. Len(s) + 1, NEW e \in (m - 1) .. Len(s)
  PROVE  /\ IsSeq(SubSeq(s, m, e)) /\ Len(SubSeq(s, m, e)) = e - m + 1
         /\ \A k \in 1 .. e - m + 1 : SubSeq(s, m, e)[k] = s[m + k - 1]
<1> DEFINE S == {s[k] : k \in Nodes(s)}
<1>1. s \in Seq(S) /\ Len(s) \in Nat
  BY DEF IsSeq
<1> HIDE DEF S
<1>2. SubSeq(s, m, e) \in Seq(S) /\ Len(SubSeq(s, m, e)) = e - m + 1
  BY <1>1
<1>3. ASSUME NEW k \in 1 .. e - m + 1 PROVE SubSeq(s, m, e)[k] = s[m + k - 1]
  BY <1>1
<1> QED BY <1>2, <1>3, SeqIs

\* What a scenario is made of.
LEMMA ScenarioIs ==
  ASSUME NEW s, IsScenario(s)
  PROVE  /\ IsSeq(s) /\ Len(s) \in Nat /\ Len(s) >= 1 /\ Nodes(s) = 1 .. Len(s)
         /\ s[1].depth = 0 /\ \A k \in Nodes(s) : s[k].depth \in 0 .. 5
         /\ \A k \in 2 .. Len(s) : s[k].depth \in 1 .. 5
<1>1. IsSeq(s) /\ Len(s) \in Nat /\ Nodes(s) = 1 .. Len(s) /\ s # <<>>
  BY DEF IsScenario, IsSeq, Nodes
<1>2. Len(s) >= 1
  BY <1>1 DEF IsSeq
<1>3. \A k \in Nodes(s) : s[k].depth \in IF k = 1 THEN {0} ELSE 1 .. 5
  BY DEF IsScenario
<1> QED BY <1>1, <1>2, <1>3

\* The block of a node: deeper nodes, up to one that is not.
LEMMA BlockEndIs ==
  ASSUME NEW s, IsScenario(s), NEW k \in 1 .. Len(s)
  PROVE  /\ BlockEnd(s, k) \in k .. Len(s)
         /\ \A j \in (k + 1) .. BlockEnd(s, k) : s[j].depth > s[k].depth
         /\ BlockEnd(s, k) < Len(s) => s[BlockEnd(s, k) + 1].depth <= s[k].depth
<1> DEFINE T == {j \in (k + 1) .. Len(s) : s[j].depth <= s[k].depth} \cup {Len(s) + 1}
           m == Min(T)
<1>1. Len(s) \in Nat /\ \A j \in 1 .. Len(s) : s[j].depth \in Int
  BY ScenarioIs
<1>2. T \in SUBSET Nat /\ T # {} /\ T \subseteq (k + 1) .. (Len(s) + 1)
  BY <1>1
<1>3. BlockEnd(s, k) = m - 1
  BY DEF BlockEnd
<1>4. m \in T /\ \A j \in T : m <= j
  <2> HIDE DEF T
  <2> QED BY <1>2, MinIs
<1>5. m \in (k + 1) .. (Len(s) + 1)
  <2> HIDE DEF T
  <2> QED BY <1>2, <1>4
<1>6. m <= Len(s) => s[m].depth <= s[k].depth
  <2> HIDE DEF m
  <2> QED BY <1>1, <1>4
<1>7. ASSUME NEW j \in (k + 1) .. (m - 1) PROVE s[j].depth > s[k].depth
  <2> HIDE DEF m
  <2>1. j \in (k + 1) .. Len(s) /\ ~(m <= j)
    BY <1>1, <1>5
  <2>2. j \notin T
    <3> HIDE DEF T
    <3> QED BY <1>4, <2>1
  <2>3. ~(s[j].depth <= s[k].depth)
    BY <2>1, <2>2
  <2> QED BY <1>1, <2>1, <2>3
<1> HIDE DEF m
<1>8. m - 1 \in k .. Len(s) /\ (m - 1 < Len(s) => m <= Len(s)) /\ m - 1 + 1 = m
  BY <1>1, <1>5
<1> QED BY <1>3, <1>6, <1>7, <1>8

\* The least of some of the numbers up to n is one of them.
LEMMA NumberBelow ==
  ASSUME NEW n \in Nat, NEW T \in SUBSET (1 .. n), T # {}
  PROVE  Min(T) \in T /\ Min(T) \in 1 .. n
<1>1. T \in SUBSET Nat
  OBVIOUS
<1>2. Min(T) \in T
  BY <1>1, MinIs
<1> QED BY <1>2

\* A sequence of one.
LEMMA OneIs ==
  ASSUME NEW x
  PROVE  IsSeq(<<x>>) /\ Len(<<x>>) = 1 /\ <<x>>[1] = x
<1>1. <<x>> \in Seq({x})
  OBVIOUS
<1>2. IsSeq(<<x>>)
  BY <1>1, SeqIs
<1> QED BY <1>2
-----------------------------------------------------------------------------
\* p is the node that contains node k.
Encloses(s, p, k) ==
  /\ p \in 1 .. (k - 1) /\ s[p].depth < s[k].depth
  /\ \A j \in (p + 1) .. (k - 1) : s[j].depth >= s[k].depth

\* There is such a node, since the first one contains all others.
LEMMA AboveIs ==
  ASSUME NEW s, IsScenario(s), NEW k \in 2 .. Len(s)
  PROVE  Encloses(s, Above(s, k), k)
<1> DEFINE T == {n \in 1 .. (k - 1) : s[k - n].depth < s[k].depth}
           m == Min(T)
<1>1. /\ Len(s) \in Nat /\ k \in Nat /\ k >= 2 /\ \A j \in 1 .. Len(s) : s[j].depth \in Int
      /\ s[1].depth = 0 /\ s[k].depth >= 1
  BY ScenarioIs
<1>2. k - 1 \in T
  BY <1>1
<1>3. m \in T /\ \A n \in T : m <= n
  <2>1. T \in SUBSET Nat
    BY <1>1
  <2> HIDE DEF T
  <2> QED BY <1>2, <2>1, MinIs
<1>4. Encloses(s, k - m, k)
  <2>1. m \in 1 .. (k - 1) /\ s[k - m].depth < s[k].depth
    <3> HIDE DEF m
    <3> QED BY <1>3
  <2>2. ASSUME NEW j \in (k - m + 1) .. (k - 1) PROVE s[j].depth >= s[k].depth
    <3> HIDE DEF m
    <3>1. k - j \in 1 .. (k - 1) /\ ~(m <= k - j) /\ k - (k - j) = j /\ j \in 1 .. Len(s)
      BY <1>1, <2>1
    <3>2. k - j \notin T
      <4> HIDE DEF T
      <4> QED BY <1>3, <3>1
    <3>3. ~(s[j].depth < s[k].depth)
      BY <3>1, <3>2
    <3> QED BY <1>1, <3>1, <3>3
  <2> HIDE DEF m
  <2>3. k - m \in 1 .. (k - 1)
    BY <1>1, <2>1
  <2> QED BY <2>1, <2>2, <2>3 DEF Encloses
<1> HIDE DEF m
<1>5. \E p \in 1 .. (k - 1) : /\ s[p].depth < s[k].depth
                              /\ \A j \in (p + 1) .. (k - 1) : s[j].depth >= s[k].depth
  BY <1>4 DEF Encloses
<1> QED BY <1>5, Zenon DEF Encloses, Above

\* And only one.
LEMMA OneAbove ==
  ASSUME NEW s, IsScenario(s), NEW k \in 2 .. Len(s), NEW p, Encloses(s, p, k)
  PROVE  Above(s, k) = p
<1> DEFINE q == Above(s, k)
<1>1. /\ Len(s) \in Nat /\ k \in Nat /\ k >= 2 /\ \A j \in 1 .. Len(s) : s[j].depth \in Int
  BY ScenarioIs
<1>2. Encloses(s, q, k)
  BY AboveIs
<1> HIDE DEF q
<1>3. p \in 1 .. (k - 1) /\ q \in 1 .. (k - 1)
  BY <1>2 DEF Encloses
<1>4. ~(p < q)
  <2>1. p < q => q \in (p + 1) .. (k - 1)
    BY <1>1, <1>3
  <2>2. q \in 1 .. Len(s) /\ s[q].depth < s[k].depth
    BY <1>1, <1>2, <1>3 DEF Encloses
  <2> QED BY <1>1, <2>1, <2>2 DEF Encloses
<1>5. ~(q < p)
  <2>1. q < p => p \in (q + 1) .. (k - 1)
    BY <1>1, <1>3
  <2>2. p \in 1 .. Len(s) /\ s[p].depth < s[k].depth
    BY <1>1, <1>3 DEF Encloses
  <2> QED BY <1>1, <1>2, <2>1, <2>2 DEF Encloses
<1>6. p = q
  BY <1>1, <1>3, <1>4, <1>5
<1> QED BY <1>6 DEF q
-----------------------------------------------------------------------------
\* A part of a scenario behind its first node.
Inside(s) == /\ IsSeq(s)
             /\ \A k \in Nodes(s) : /\ DOMAIN s[k] = {"id", "name", "type", "depth", "data"}
                                    /\ s[k].depth \in 1 .. 5

\* The nodes of s behind m, up to e, are replaced.
Splice(s, m, new, e) == SubSeq(s, 1, m) \o new \o SubSeq(s, e + 1, Len(s))

\* What t then is, node by node.
Spliced(s, m, new, e, t) ==
  /\ SameName(s, t) /\ Len(new) \in Nat /\ Len(t) = m + Len(new) + (Len(s) - e)
  /\ \A k \in 1 .. m : t[k] = s[k]
  /\ \A k \in 1 .. Len(new) : t[m + k] = new[k]
  /\ \A k \in (e + 1) .. Len(s) : t[k + m + Len(new) - e] = s[k]

\* What is replaced behind the first node leaves a scenario of the same name.
LEMMA SpliceIs ==
  ASSUME NEW s, IsScenario(s), NEW m \in 1 .. Len(s), NEW e \in m .. Len(s), NEW new, Inside(new),
         NEW t, t = Splice(s, m, new, e)
  PROVE  Spliced(s, m, new, e, t)
<1> DEFINE n == Len(new)
           a == SubSeq(s, 1, m)
           b == SubSeq(s, e + 1, Len(s))
           c == a \o new
<1>1. IsSeq(s) /\ Len(s) \in Nat /\ IsSeq(new) /\ n \in Nat /\ Nodes(new) = 1 .. n
  BY ScenarioIs DEF Inside, IsSeq, Nodes
<1>2. IsSeq(a) /\ Len(a) = m /\ \A k \in 1 .. m : a[k] = s[k]
  <2>1. 1 \in 1 .. Len(s) + 1 /\ m \in (1 - 1) .. Len(s) /\ m - 1 + 1 = m /\ \A k \in 1 .. m : 1 + k - 1 = k
    BY <1>1
  <2>2. IsSeq(a) /\ Len(a) = m - 1 + 1 /\ \A k \in 1 .. m - 1 + 1 : a[k] = s[1 + k - 1]
    BY <1>1, <2>1, CutIs
  <2> HIDE DEF a
  <2> QED BY <2>1, <2>2
<1>3. IsSeq(b) /\ Len(b) = Len(s) - e /\ \A k \in 1 .. Len(s) - e : b[k] = s[e + k]
  <2>1. e + 1 \in 1 .. Len(s) + 1 /\ Len(s) \in (e + 1 - 1) .. Len(s) /\ Len(s) - (e + 1) + 1 = Len(s) - e
        /\ \A k \in 1 .. Len(s) - e : e + 1 + k - 1 = e + k
    BY <1>1
  <2> DEFINE f == e + 1
             l == Len(s)
  <2>2. f \in 1 .. l + 1 /\ l \in (f - 1) .. Len(s) /\ b = SubSeq(s, f, l)
    BY <2>1
  <2> HIDE DEF b, f, l
  <2>3. IsSeq(b) /\ Len(b) = l - f + 1 /\ \A k \in 1 .. l - f + 1 : b[k] = s[f + k - 1]
    BY <1>1, <2>2, CutIs DEF l
  <2> QED BY <2>1, <2>3 DEF f, l
<1> HIDE DEF a, b
<1>4. /\ IsSeq(c) /\ Len(c) = m + n /\ \A k \in 1 .. m : c[k] = s[k]
      /\ \A k \in 1 .. n : c[m + k] = new[k]
  <2>1. /\ IsSeq(c) /\ Len(c) = Len(a) + n /\ \A k \in 1 .. Len(a) : c[k] = a[k]
        /\ \A k \in 1 .. n : c[Len(a) + k] = new[k]
    <3> HIDE DEF n
    <3>1. Joined(a, new, c)
      BY <1>1, <1>2, JoinedIs
    <3> QED BY <3>1 DEF Joined, n
  <2> HIDE DEF c, n
  <2> QED BY <1>2, <2>1
<1> HIDE DEF c
<1>5. /\ IsSeq(t) /\ Len(t) = m + n + (Len(s) - e) /\ \A k \in 1 .. m + n : t[k] = c[k]
      /\ \A k \in 1 .. Len(s) - e : t[m + n + k] = b[k]
  <2>1. t = c \o b
    BY DEF Splice, a, b, c
  <2> HIDE DEF n
  <2>2. /\ IsSeq(t) /\ Len(t) = Len(c) + Len(b) /\ \A k \in 1 .. Len(c) : t[k] = c[k]
        /\ \A k \in 1 .. Len(b) : t[Len(c) + k] = b[k]
    <3>1. Joined(c, b, t)
      BY <1>3, <1>4, <2>1, JoinedIs
    <3> QED BY <3>1 DEF Joined
  <2> QED BY <1>3, <1>4, <2>2
<1>7. \A k \in 1 .. m : t[k] = s[k]
  BY <1>1, <1>4, <1>5
<1>8. \A k \in 1 .. n : t[m + k] = new[k]
  BY <1>1, <1>4, <1>5
<1>9. ASSUME NEW k \in (e + 1) .. Len(s) PROVE t[k + m + n - e] = s[k]
  <2>1. k - e \in 1 .. Len(s) - e /\ m + n + (k - e) = k + m + n - e /\ e + (k - e) = k
    BY <1>1
  <2>2. t[m + n + (k - e)] = b[k - e] /\ b[k - e] = s[e + (k - e)]
    BY <1>3, <1>5, <2>1
  <2> QED BY <2>1, <2>2
<1>10. ASSUME NEW k \in Nodes(t)
       PROVE  /\ DOMAIN t[k] = {"id", "name", "type", "depth", "data"}
              /\ t[k].depth \in IF k = 1 THEN {0} ELSE 1 .. 5
  <2>1. k \in 1 .. Len(t)
    BY <1>5 DEF IsSeq, Nodes
  <2>2. \A i \in 1 .. Len(s) : /\ DOMAIN s[i] = {"id", "name", "type", "depth", "data"}
                               /\ s[i].depth \in IF i = 1 THEN {0} ELSE 1 .. 5
    BY ScenarioIs DEF IsScenario
  <2>3. CASE k <= m
    BY <1>1, <1>7, <2>1, <2>2, <2>3
  <2>4. CASE m < k /\ k <= m + n
    <3>1. k - m \in Nodes(new) /\ m + (k - m) = k /\ k # 1
      BY <1>1, <2>1, <2>4
    <3>2. t[k] = new[k - m]
      BY <1>1, <1>8, <3>1
    <3> QED BY <3>1, <3>2 DEF Inside
  <2>5. CASE m + n < k
    <3> DEFINE i == k - m - n + e
    <3>1. i \in (e + 1) .. Len(s) /\ i + m + n - e = k /\ k # 1 /\ i # 1 /\ i \in 1 .. Len(s)
      BY <1>1, <1>5, <2>1, <2>5
    <3> HIDE DEF i
    <3>2. t[k] = s[i]
      BY <1>9, <3>1
    <3> QED BY <2>2, <3>1, <3>2
  <2> QED BY <1>1, <2>1, <2>3, <2>4, <2>5
<1>11. t # <<>> /\ t[1] = s[1]
  <2>1. Len(t) >= 1 /\ 1 \in 1 .. m
    BY <1>1, <1>5
  <2> QED BY <1>5, <1>7, <2>1 DEF IsSeq
<1>12. SameName(s, t)
  BY <1>5, <1>10, <1>11 DEF SameName, IsScenario, IsSeq, Name
<1> QED BY <1>1, <1>5, <1>7, <1>8, <1>9, <1>12 DEF Spliced

\* Nodes before it stay where they are.
LEMMA BeforeSplice ==
  ASSUME NEW s, IsScenario(s), NEW t, IsScenario(t), NEW m \in 1 .. Len(s), m <= Len(t),
         \A i \in 1 .. m : t[i].depth = s[i].depth,
         NEW k \in 2 .. m
  PROVE  Above(t, k) = Above(s, k)
<1> DEFINE p == Above(s, k)
<1>1. k \in 2 .. Len(s) /\ k \in 2 .. Len(t) /\ m \in Nat
  BY ScenarioIs
<1>2. Encloses(s, p, k)
  BY <1>1, AboveIs
<1> HIDE DEF p
<1>3. p \in 1 .. (k - 1) /\ p \in 1 .. m /\ k \in 1 .. m
  BY <1>1, <1>2 DEF Encloses
<1>4. \A j \in (p + 1) .. (k - 1) : j \in 1 .. m
  BY <1>1, <1>3
<1>5. Encloses(t, p, k)
  BY <1>2, <1>3, <1>4 DEF Encloses
<1>6. Above(t, k) = p
  BY <1>1, <1>5, OneAbove
<1> QED BY <1>6 DEF p

\* t has node k of s as it was, in the same node.
Stays(s, t, k) == \E j \in 2 .. Len(t) : t[j] = s[k] /\ t[Above(t, j)] = s[Above(s, k)]

\* All of these nodes are as deep as node k of s, or deeper.
NoneAbove(new, s, k) == \A i \in 1 .. Len(new) : new[i].depth >= s[k].depth

\* Nodes behind it stay in the same node, unless that was replaced.
LEMMA BehindSplice ==
  ASSUME NEW s, IsScenario(s), NEW m \in 1 .. Len(s), NEW e \in m .. Len(s), NEW new, Inside(new),
         NEW k \in 1 .. Len(s), k > e, Above(s, k) <= m \/ Above(s, k) > e,
         Above(s, k) <= m => NoneAbove(new, s, k),
         NEW t, t = Splice(s, m, new, e)
  PROVE  Stays(s, t, k)
<1> DEFINE n == Len(new)
           j == k + m + n - e
           p == Above(s, k)
<1>1. /\ IsScenario(t) /\ n \in Nat /\ Len(t) = m + n + (Len(s) - e)
      /\ \A i \in 1 .. m : t[i] = s[i]
      /\ \A i \in 1 .. n : t[m + i] = new[i]
      /\ \A i \in (e + 1) .. Len(s) : t[i + m + n - e] = s[i]
  <2>1. Spliced(s, m, new, e, t)
    BY SpliceIs
  <2> QED BY <2>1 DEF Spliced, SameName
<1>2. Len(s) \in Nat /\ \A i \in 1 .. Len(s) : s[i].depth \in Int
  BY ScenarioIs
<1>3. k \in 2 .. Len(s)
  BY <1>2
<1>4. Encloses(s, p, k) /\ (p <= m \/ p > e)
  BY <1>3, AboveIs
<1>5. p <= m => \A i \in 1 .. n : new[i].depth >= s[k].depth
  BY DEF NoneAbove
<1>6. j = k + m + n - e
  OBVIOUS
<1> HIDE DEF n, p, j
<1>7. j \in 2 .. Len(t) /\ t[j] = s[k] /\ p \in 1 .. (k - 1)
  <2>1. t[k + m + n - e] = s[k]
    <3>1. k \in (e + 1) .. Len(s)
      BY <1>2
    <3> QED BY <1>1, <3>1, Zenon
  <2>2. j \in 2 .. Len(t)
    BY <1>1, <1>2, <1>6
  <2> QED BY <1>4, <1>6, <2>1, <2>2 DEF Encloses
<1>8. \A i \in (p + 1) .. (k - 1) : s[i].depth >= s[k].depth
  BY <1>4 DEF Encloses
<1>9. s[p].depth < s[k].depth
  BY <1>4 DEF Encloses
<1>10. ASSUME p <= m PROVE t[Above(t, j)] = s[p]
  <2>1. t[p] = s[p]
    BY <1>1, <1>7, <1>10
  <2>2. ASSUME NEW x \in (p + 1) .. (j - 1) PROVE t[x].depth >= s[k].depth
    <3>1. CASE x <= m
      <4>1. x \in 1 .. m /\ x \in (p + 1) .. (k - 1)
        BY <1>1, <1>2, <1>7, <3>1
      <4> QED BY <1>1, <1>8, <4>1
    <3>2. CASE m < x /\ x <= m + n
      <4>1. x - m \in 1 .. n /\ m + (x - m) = x
        BY <1>1, <1>7, <3>2
      <4>2. t[x] = new[x - m]
        BY <1>1, <4>1
      <4> QED BY <1>5, <1>10, <4>1, <4>2
    <3>3. CASE m + n < x
      <4> DEFINE i == x - m - n + e
      <4>1. i \in (e + 1) .. Len(s) /\ i + m + n - e = x /\ i \in (p + 1) .. (k - 1)
        BY <1>1, <1>2, <1>6, <1>7, <1>10, <3>3
      <4> HIDE DEF i
      <4>2. t[x] = s[i]
        BY <1>1, <4>1
      <4> QED BY <1>8, <4>1, <4>2
    <3> QED BY <1>1, <1>7, <3>1, <3>2, <3>3
  <2>3. p \in 1 .. (j - 1)
    BY <1>1, <1>2, <1>6, <1>7, <1>10
  <2>4. Encloses(t, p, j)
    BY <1>7, <1>9, <2>1, <2>2, <2>3 DEF Encloses
  <2>5. Above(t, j) = p
    BY <1>1, <1>7, <2>4, OneAbove
  <2> QED BY <2>1, <2>5
<1>11. ASSUME p > m PROVE t[Above(t, j)] = s[p]
  <2> DEFINE q == p + m + n - e
  <2>1. p \in (e + 1) .. Len(s)
    <3>1. p \in Int /\ p <= Len(s) /\ p > m
      BY <1>2, <1>7, <1>11
    <3>2. p > e
      BY <1>2, <1>4, <3>1
    <3> QED BY <1>2, <3>1, <3>2
  <2>2. t[q] = s[p] /\ q \in 1 .. (j - 1)
    <3>1. t[p + m + n - e] = s[p]
      BY <1>1, <2>1, Zenon
    <3>2. p + m + n - e \in 1 .. (j - 1)
      BY <1>1, <1>2, <1>6, <1>7, <2>1
    <3> QED BY <3>1, <3>2
  <2>3. ASSUME NEW x \in (q + 1) .. (j - 1) PROVE t[x].depth >= s[k].depth
    <3> DEFINE i == x - m - n + e
    <3>1. i \in (e + 1) .. Len(s) /\ i + m + n - e = x /\ i \in (p + 1) .. (k - 1)
      BY <1>1, <1>2, <1>6, <1>7, <2>1
    <3> HIDE DEF i
    <3>2. t[x] = s[i]
      BY <1>1, <3>1
    <3> QED BY <1>8, <3>1, <3>2
  <2> HIDE DEF q
  <2>4. Encloses(t, q, j)
    BY <1>7, <1>9, <2>2, <2>3 DEF Encloses
  <2>5. Above(t, j) = q
    BY <1>1, <1>7, <2>4, OneAbove
  <2> QED BY <2>2, <2>5
<1>12. t[Above(t, j)] = s[p]
  BY <1>2, <1>7, <1>10, <1>11
<1> QED BY <1>7, <1>12 DEF Stays, p

\* A node behind a block is in none of its nodes, and not deeper than what the
\* block starts with if it is in a node before the block.
LEMMA BehindBlock ==
  ASSUME NEW s, IsScenario(s), NEW h \in 1 .. Len(s), NEW k \in 1 .. Len(s), k > BlockEnd(s, h)
  PROVE  /\ Above(s, k) < h \/ Above(s, k) > BlockEnd(s, h)
         /\ Above(s, k) <= BlockEnd(s, h) => s[k].depth <= s[h].depth
<1> DEFINE e == BlockEnd(s, h)
           p == Above(s, k)
<1>1. /\ e \in h .. Len(s) /\ (\A j \in (h + 1) .. e : s[j].depth > s[h].depth)
      /\ (e < Len(s) => s[e + 1].depth <= s[h].depth) /\ k > e
  BY BlockEndIs
<1>2. Len(s) \in Nat /\ \A i \in 1 .. Len(s) : s[i].depth \in Int
  BY ScenarioIs
<1> HIDE DEF e
<1>3. Encloses(s, p, k)
  <2>1. k \in 2 .. Len(s)
    BY <1>1, <1>2
  <2> QED BY <2>1, AboveIs
<1> HIDE DEF p
<1>4. p \in 1 .. (k - 1) /\ s[p].depth < s[k].depth
      /\ \A j \in (p + 1) .. (k - 1) : s[j].depth >= s[k].depth
  BY <1>3 DEF Encloses
<1>5. ASSUME p <= e PROVE s[k].depth <= s[h].depth
  <2>1. e < Len(s) /\ e + 1 \in 1 .. Len(s) /\ k \in 1 .. Len(s) /\ h \in 1 .. Len(s)
    BY <1>1, <1>2
  <2>2. s[e + 1].depth <= s[h].depth
    BY <1>1, <2>1
  <2>3. CASE k = e + 1
    BY <2>2, <2>3
  <2>4. CASE k # e + 1
    <3>1. e + 1 \in (p + 1) .. (k - 1)
      BY <1>1, <1>2, <1>4, <1>5, <2>4
    <3>2. s[e + 1].depth >= s[k].depth
      BY <1>4, <3>1
    <3> QED BY <1>2, <2>1, <2>2, <3>2
  <2> QED BY <2>3, <2>4
<1>6. ASSUME p \in h .. e PROVE FALSE
  <2>1. p <= e /\ p \in 1 .. Len(s) /\ k \in 1 .. Len(s) /\ h \in 1 .. Len(s)
    BY <1>1, <1>2, <1>6
  <2>2. s[k].depth <= s[h].depth
    BY <1>5, <2>1
  <2>3. s[h].depth <= s[p].depth
    <3>1. p = h \/ p \in (h + 1) .. e
      BY <1>1, <1>2, <1>6
    <3> QED BY <1>1, <1>2, <2>1, <3>1
  <2> QED BY <1>2, <1>4, <2>1, <2>2, <2>3
<1>7. p < h \/ p > e
  BY <1>1, <1>2, <1>4, <1>6
<1> QED BY <1>5, <1>7 DEF e, p
-----------------------------------------------------------------------------
\* Nodes from depth d on.
Deep(s, d) == Inside(s) /\ \A k \in Nodes(s) : s[k].depth >= d

\* One such node.
LEMMA DeepOne ==
  ASSUME NEW x, DOMAIN x = {"id", "name", "type", "depth", "data"}, x.depth \in 1 .. 5,
         NEW d \in 1 .. 5, x.depth >= d
  PROVE  Deep(<<x>>, d)
<1>1. IsSeq(<<x>>) /\ Len(<<x>>) = 1 /\ <<x>>[1] = x
  BY OneIs
<1>2. Nodes(<<x>>) = {1}
  BY DEF Nodes
<1>3. \A k \in Nodes(<<x>>) : <<x>>[k] = x
  BY <1>1, <1>2
<1> QED BY <1>1, <1>3 DEF Deep, Inside

\* Some, then others.
LEMMA DeepJoined ==
  ASSUME NEW s, NEW t, NEW d \in 1 .. 5, Deep(s, d), Deep(t, d)
  PROVE  Deep(s \o t, d)
<1> DEFINE u == s \o t
<1>1. /\ IsSeq(s) /\ IsSeq(t) /\ Len(s) \in Nat /\ Len(t) \in Nat
      /\ Nodes(s) = 1 .. Len(s) /\ Nodes(t) = 1 .. Len(t)
  BY DEF Deep, Inside, IsSeq, Nodes
<1>2. u = s \o t
  OBVIOUS
<1> HIDE DEF u
<1>3. /\ IsSeq(u) /\ Len(u) = Len(s) + Len(t)
      /\ \A k \in 1 .. Len(s) : u[k] = s[k]
      /\ \A k \in 1 .. Len(t) : u[Len(s) + k] = t[k]
  <2>1. Joined(s, t, u)
    BY <1>1, <1>2, JoinedIs
  <2> QED BY <2>1 DEF Joined
<1>4. Nodes(u) = 1 .. Len(s) + Len(t)
  BY <1>3 DEF IsSeq, Nodes
<1>5. ASSUME NEW k \in Nodes(u)
      PROVE  (\E i \in Nodes(s) : u[k] = s[i]) \/ (\E i \in Nodes(t) : u[k] = t[i])
  <2>1. CASE k <= Len(s)
    BY <1>1, <1>3, <1>4, <2>1
  <2>2. CASE Len(s) < k
    <3>1. k - Len(s) \in Nodes(t) /\ Len(s) + (k - Len(s)) = k
      BY <1>1, <1>4, <2>2
    <3>2. u[k] = t[k - Len(s)]
      BY <1>1, <1>3, <3>1
    <3> QED BY <3>1, <3>2
  <2> QED BY <1>1, <1>4, <2>1, <2>2
<1>6. Deep(u, d)
  BY <1>3, <1>5 DEF Deep, Inside
<1> QED BY <1>6 DEF u

\* Where the scenario and the hidden nodes stand.
LEMMA DepthIs ==
  Depth("SCENARIO") = 0 /\ Depth("PUBLIC") = 1 /\ Depth("COMMON") = 2 /\ Depth("DEFAULT") = 3
  BY DEF Depth, Apps

\* The hidden nodes of a zone and of a domain.
LEMMA HiddenAreDeep ==
  ASSUME NEW name
  PROVE  Deep(createDefaultNL(name), 3) /\ Deep(createDefaultZone(name), 2)
<1>1. ASSUME NEW n, NEW type \in {"COMMON", "DEFAULT"}, NEW d \in 1 .. 5, Depth(type) >= d
      PROVE  Deep(<<HiddenNode(n, type)>>, d)
  <2> DEFINE x == HiddenNode(n, type)
  <2>1. DOMAIN x = {"id", "name", "type", "depth", "data"} /\ x.depth = Depth(type)
    BY DEF HiddenNode, Node
  <2>2. Depth(type) \in 1 .. 5
    BY DepthIs
  <2> HIDE DEF x
  <2>3. Deep(<<x>>, d)
    BY <1>1, <2>1, <2>2, DeepOne
  <2> QED BY <2>3 DEF x
<1>2. Depth("COMMON") = 2 /\ Depth("DEFAULT") = 3
  BY DepthIs
<1>3. ASSUME NEW n, NEW d \in {2, 3} PROVE Deep(createDefaultNL(n), d)
  <2>1. d \in 1 .. 5 /\ Depth("DEFAULT") >= d /\ "DEFAULT" \in {"COMMON", "DEFAULT"}
    BY <1>2
  <2> QED BY <1>1, <2>1, Zenon DEF createDefaultNL
<1>4. Deep(<<HiddenNode(name \o "-COMMON", "COMMON")>>, 2)
  <2>1. 2 \in 1 .. 5 /\ Depth("COMMON") >= 2 /\ "COMMON" \in {"COMMON", "DEFAULT"}
    BY <1>2
  <2> QED BY <1>1, <2>1, Zenon
<1>5. Deep(createDefaultZone(name), 2)
  <2> DEFINE zone == name \o "-COMMON"
  <2> HIDE DEF zone
  <2>1. Deep(createDefaultNL(zone), 2) /\ 2 \in 1 .. 5
    BY <1>3
  <2> QED BY <1>4, <2>1, DeepJoined, Zenon DEF createDefaultZone, zone
<1> QED BY <1>3, <1>5

\* A new element comes with its own zone and network location, below it.
LEMMA BlockIs ==
  ASSUME NEW id, NEW name, NEW type, NEW v
  PROVE  /\ Depth(type) \in 1 .. 5 => Deep(Block(id, name, type, v), Depth(type))
         /\ DOMAIN Block(id, name, type, v)[1] = {"id", "name", "type", "depth", "data"}
<1> DEFINE d == Depth(type)
           x == Node(id, name, type, Created(type, v))
           below == CASE Depth(type) = 1 -> createDefaultZone(name)
                      [] Depth(type) = 2 -> createDefaultNL(name)
                      [] OTHER           -> <<>>
<1>1. Block(id, name, type, v) = <<x>> \o below
  BY DEF Block
<1>2. DOMAIN x = {"id", "name", "type", "depth", "data"} /\ x.depth = d
  BY DEF Node
<1>3. IsSeq(below) /\ (d \in 1 .. 5 => Deep(below, d))
  <2>1. IsSeq(<<>>) /\ Deep(<<>>, d)
    BY DEF Deep, Inside, IsSeq, Nodes
  <2>2. CASE d = 1
    BY <2>2, HiddenAreDeep DEF Deep, Inside
  <2>3. CASE d = 2
    BY <2>3, HiddenAreDeep DEF Deep, Inside
  <2> QED BY <2>1, <2>2, <2>3
<1> HIDE DEF d, x, below
<1>4. d \in 1 .. 5 => Deep(<<x>> \o below, d)
  <2> SUFFICES ASSUME d \in 1 .. 5 PROVE Deep(<<x>> \o below, d)
    OBVIOUS
  <2>1. Deep(<<x>>, d)
    BY <1>2, DeepOne
  <2> QED BY <1>3, <2>1, DeepJoined
<1>5. (<<x>> \o below)[1] = x
  <2>1. IsSeq(<<x>>) /\ Len(<<x>>) = 1 /\ <<x>>[1] = x /\ IsSeq(below) /\ 1 \in 1 .. 1
    BY <1>3, OneIs
  <2>2. Joined(<<x>>, below, <<x>> \o below)
    BY <2>1, JoinedIs
  <2>3. (<<x>> \o below)[1] = <<x>>[1]
    BY <2>1, <2>2, Zenon DEF Joined
  <2> QED BY <2>1, <2>3
<1> QED BY <1>1, <1>2, <1>4, <1>5 DEF d

\* A new scenario is one, of the name it is given.
LEMMA NewIs ==
  ASSUME NEW name, NEW fields
  PROVE  IsScenario(createNewScenario(name, fields)) /\ Name(createNewScenario(name, fields)) = name
<1> DEFINE root == ScenarioNode(name, createElem(fields))
           rest == IF name = "None" THEN <<>> ELSE createDefaultDomain
           a == <<root>>
           t == a \o rest
<1>1. createNewScenario(name, fields) = t
  BY DEF createNewScenario
<1>2. DOMAIN root = {"id", "name", "type", "depth", "data"} /\ root.name = name /\ root.depth = 0
  BY DepthIs DEF ScenarioNode, Node
<1>3. Inside(rest)
  <2>1. Inside(<<>>)
    BY DEF Inside, IsSeq, Nodes
  <2>2. Inside(createDefaultDomain)
    <3> DEFINE x == HiddenNode("PUBLIC", "PUBLIC")
    <3>1. DOMAIN x = {"id", "name", "type", "depth", "data"} /\ x.depth = 1
      BY DepthIs DEF HiddenNode, Node
    <3> HIDE DEF x
    <3>2. Deep(<<x>>, 1)
      BY <3>1, DeepOne
    <3>3. Deep(createDefaultZone("PUBLIC"), 1)
      BY HiddenAreDeep DEF Deep, Inside
    <3>4. Deep(<<x>> \o createDefaultZone("PUBLIC"), 1)
      BY <3>2, <3>3, DeepJoined
    <3> QED BY <3>4 DEF Deep, createDefaultDomain, x
  <2> QED BY <2>1, <2>2
<1> HIDE DEF rest, root
<1>4. IsSeq(a) /\ Len(a) = 1 /\ a[1] = root /\ IsSeq(rest) /\ Len(rest) \in Nat /\ Nodes(rest) = 1 .. Len(rest)
  BY <1>3, OneIs DEF Inside, IsSeq, Nodes
<1> HIDE DEF a
<1>5. t = a \o rest
  OBVIOUS
<1> HIDE DEF t
<1>6. /\ IsSeq(t) /\ Len(t) = Len(a) + Len(rest) /\ \A k \in 1 .. Len(a) : t[k] = a[k]
      /\ \A k \in 1 .. Len(rest) : t[Len(a) + k] = rest[k]
  <2>1. Joined(a, rest, t)
    BY <1>4, <1>5, JoinedIs
  <2> QED BY <2>1 DEF Joined
<1>7. Nodes(t) = 1 .. 1 + Len(rest) /\ t # <<>> /\ t[1] = root
  <2>1. Nodes(t) = 1 .. Len(t)
    BY <1>6 DEF IsSeq, Nodes
  <2> QED BY <1>4, <1>6, <2>1
<1>8. ASSUME NEW k \in Nodes(t)
      PROVE  /\ DOMAIN t[k] = {"id", "name", "type", "depth", "data"}
             /\ t[k].depth \in IF k = 1 THEN {0} ELSE 1 .. 5
  <2>1. CASE k = 1
    BY <1>2, <1>7, <2>1
  <2>2. CASE k # 1
    <3>1. k - 1 \in 1 .. Len(rest) /\ 1 + (k - 1) = k
      BY <1>4, <1>7, <2>2
    <3>2. t[k] = rest[k - 1]
      BY <1>4, <1>6, <3>1
    <3> QED BY <1>3, <1>4, <2>2, <3>1, <3>2 DEF Inside
  <2> QED BY <2>1, <2>2
<1> QED BY <1>1, <1>2, <1>6, <1>7, <1>8 DEF IsScenario, IsSeq, Name
-----------------------------------------------------------------------------
\* t has these nodes of s as they were, each in the same node.
Holds(s, t, nodes) ==
  \A k \in nodes : Stays(s, t, k)

\* t is s with elements added.
Grown(s, t) == SameName(s, t) /\ Holds(s, t, 2 .. Len(s))

\* Nothing is added.
LEMMA GrownSame == ASSUME NEW s, IsScenario(s) PROVE Grown(s, s)
  BY DEF Grown, SameName, Holds, Stays

\* One element after the other.
LEMMA GrownOn ==
  ASSUME NEW s, NEW t, NEW u, Grown(s, t), Grown(t, u)
  PROVE  Grown(s, u)
<1>1. SameName(s, u)
  BY DEF Grown, SameName
<1>2. ASSUME NEW k \in 2 .. Len(s)
      PROVE  Stays(s, u, k)
  <2>1. PICK i \in 2 .. Len(t) : t[i] = s[k] /\ t[Above(t, i)] = s[Above(s, k)]
    BY DEF Grown, Holds, Stays
  <2>2. PICK j \in 2 .. Len(u) : u[j] = t[i] /\ u[Above(u, j)] = t[Above(t, i)]
    BY DEF Grown, Holds, Stays
  <2> QED BY <2>1, <2>2 DEF Stays
<1> QED BY <1>1, <1>2 DEF Grown, Holds

\* An element is added behind what its parent contains, all else stays.
LEMMA AddGrows ==
  ASSUME NEW s, IsScenario(s), NEW id, NEW name, NEW type, NEW parent, NEW v
  PROVE  Grown(s, addElementToScenario(s, id, name, type, parent, v))
<1> DEFINE homes == {k \in Nodes(s) : s[k].depth < 5 /\ s[k].name = ParentName(type, parent)}
           block == Block(id, name, type, v)
           h == Min(homes)
           e == BlockEnd(s, h)
           d == s[h].depth + 1
           x == [block[1] EXCEPT !.depth = d]
           new == IF d = Depth(type) THEN block ELSE <<x>>
           t == addElementToScenario(s, id, name, type, parent, v)
<1>1. /\ Len(s) \in Nat /\ Nodes(s) = 1 .. Len(s)
      /\ \A k \in Nodes(s) : s[k].depth \in 0 .. 5
  BY ScenarioIs
<1>2. t = IF homes = {} THEN s ELSE Splice(s, e, new, e)
  BY DEF addElementToScenario, Splice
<1>3. CASE homes = {}
  BY <1>2, <1>3, GrownSame
<1>4. CASE homes # {}
  <2>1. h \in homes
    <3>1. homes \in SUBSET (1 .. Len(s))
      BY <1>1
    <3> HIDE DEF homes
    <3> QED BY <1>1, <1>4, <3>1, NumberBelow
  <2>2. h \in 1 .. Len(s) /\ s[h].depth < 5
    <3> HIDE DEF h
    <3> QED BY <1>1, <2>1
  <2>3. d \in 1 .. 5 /\ d > s[h].depth
    <3> HIDE DEF h
    <3> QED BY <1>1, <2>2
  <2>4. Deep(new, d)
    <3>1. CASE d = Depth(type)
      <4> HIDE DEF d, block
      <4> QED BY <2>3, <3>1, BlockIs DEF block
    <3>2. CASE d # Depth(type)
      <4>1. DOMAIN block[1] = {"id", "name", "type", "depth", "data"}
        BY BlockIs
      <4> HIDE DEF d, block
      <4>2. DOMAIN x = {"id", "name", "type", "depth", "data"} /\ x.depth = d
        BY <4>1
      <4> HIDE DEF x
      <4>3. Deep(<<x>>, d)
        BY <2>3, <4>2, DeepOne
      <4> QED BY <3>2, <4>3
    <3> QED BY <3>1, <3>2
  <2>5. e \in h .. Len(s)
    <3> HIDE DEF h
    <3> QED BY <2>2, BlockEndIs
  <2>6. \A k \in 1 .. Len(s) : k > e /\ Above(s, k) <= e => s[k].depth <= s[h].depth
    <3> HIDE DEF h
    <3> QED BY <2>2, BehindBlock
  <2>7. t = Splice(s, e, new, e)
    BY <1>2, <1>4
  <2> HIDE DEF homes, h, e, d, new, t, x, block
  <2>8. /\ e \in 1 .. Len(s) /\ e \in e .. Len(s)
        /\ Inside(new) /\ IsSeq(new) /\ \A i \in 1 .. Len(new) : new[i].depth >= d /\ new[i].depth \in 1 .. 5
    <3>1. IsSeq(new) /\ \A i \in Nodes(new) : new[i].depth >= d /\ new[i].depth \in 1 .. 5
      BY <2>4 DEF Deep, Inside
    <3>2. Nodes(new) = 1 .. Len(new)
      BY <3>1 DEF IsSeq, Nodes
    <3> QED BY <1>1, <2>2, <2>4, <2>5, <3>1, <3>2 DEF Deep
  <2>9. /\ SameName(s, t) /\ Len(new) \in Nat /\ Len(t) = e + Len(new) + (Len(s) - e)
        /\ \A k \in 1 .. e : t[k] = s[k]
    <3>1. Spliced(s, e, new, e, t)
      BY <2>7, <2>8, SpliceIs
    <3> QED BY <3>1 DEF Spliced
  <2>10. ASSUME NEW k \in 2 .. Len(s)
         PROVE  Stays(s, t, k)
    <3>1. CASE k <= e
      <4>1. IsScenario(t) /\ e <= Len(t) /\ k \in 2 .. e /\ k \in 2 .. Len(t)
            /\ \A i \in 1 .. e : t[i].depth = s[i].depth
        BY <1>1, <2>8, <2>9, <3>1 DEF SameName
      <4>2. Above(t, k) = Above(s, k)
        BY <2>8, <4>1, BeforeSplice
      <4>3. Above(s, k) \in 1 .. e
        <5>1. Encloses(s, Above(s, k), k)
          BY AboveIs
        <5> QED BY <2>8, <4>1, <5>1 DEF Encloses
      <4>4. t[k] = s[k] /\ t[Above(t, k)] = s[Above(s, k)]
        BY <2>9, <4>1, <4>2, <4>3
      <4> QED BY <4>1, <4>4 DEF Stays
    <3>2. CASE e < k
      <4>1. k \in 1 .. Len(s) /\ (Above(s, k) <= e \/ Above(s, k) > e)
        <5>1. Encloses(s, Above(s, k), k)
          BY AboveIs
        <5> QED BY <1>1, <2>8, <5>1 DEF Encloses
      <4>2. ASSUME Above(s, k) <= e, NEW i \in 1 .. Len(new) PROVE new[i].depth >= s[k].depth
        <5>1. s[k].depth <= s[h].depth
          BY <2>6, <3>2, <4>1, <4>2
        <5>2. s[k].depth \in Int /\ s[h].depth \in Int /\ new[i].depth >= d /\ new[i].depth \in Int
          BY <1>1, <2>2, <2>8
        <5> QED BY <2>3, <5>1, <5>2
      <4>3. Above(s, k) <= e => NoneAbove(new, s, k)
        BY <4>2 DEF NoneAbove
      <4> QED BY <2>7, <2>8, <3>2, <4>1, <4>3, BehindSplice
    <3> QED BY <1>1, <2>8, <3>1, <3>2
  <2>11. Grown(s, t)
    BY <2>9, <2>10 DEF Grown, Holds
  <2> QED BY <2>11 DEF t
<1> QED BY <1>3, <1>4

\* What is left when the first of the nodes found is removed with what it contains.
Without(s, t, found) ==
  /\ SameName(s, t)
  /\ found = {} => t = s
  /\ found # {} => /\ Min(found) \in found /\ \A k \in found : Min(found) <= k
                   /\ Holds(s, t, {i \in 2 .. Len(s) : i < Min(found) \/ i > BlockEnd(s, Min(found))})

\* An element is removed by its name.
LEMMA RemoveKeeps ==
  ASSUME NEW s, IsScenario(s), NEW name, NEW t, t = removeElementFromScenario(s, name),
         NEW found, found = {k \in 2 .. Len(s) : s[k].name = name}
  PROVE  Without(s, t, found)
<1> DEFINE k == Min(found)
           m == k - 1
           e == BlockEnd(s, k)
<1>1. Len(s) \in Nat /\ Nodes(s) = 1 .. Len(s)
  BY ScenarioIs
<1>2. t = IF found = {} THEN s ELSE SubSeq(s, 1, m) \o SubSeq(s, e + 1, Len(s))
  BY DEF removeElementFromScenario
<1>3. CASE found = {}
  BY <1>2, <1>3 DEF Without, SameName
<1>4. CASE found # {}
  <2>1. k \in found /\ k \in 2 .. Len(s) /\ \A i \in found : k <= i
    <3>1. found \in SUBSET Nat /\ found \subseteq 2 .. Len(s)
      BY <1>1
    <3>2. k \in found /\ \A i \in found : k <= i
      BY <1>4, <3>1, MinIs
    <3> QED BY <3>1, <3>2
  <2>2. e \in k .. Len(s) /\ k \in 1 .. Len(s)
    <3> HIDE DEF k
    <3> QED BY <1>1, <2>1, BlockEndIs
  <2>3. \A i \in 1 .. Len(s) : i > e => Above(s, i) < k \/ Above(s, i) > e
    <3> HIDE DEF k
    <3> QED BY <2>2, BehindBlock
  <2>4. PICK new : new = <<>>
    OBVIOUS
  <2>5. Inside(new) /\ Len(new) = 0
    BY <2>4 DEF Inside, IsSeq, Nodes
  <2> HIDE DEF k, e
  <2>6. m \in 1 .. Len(s) /\ e \in m .. Len(s) /\ m + 1 = k
    BY <1>1, <2>1, <2>2
  <2> HIDE DEF m
  <2>7. t = Splice(s, m, new, e)
    <3>1. SubSeq(s, 1, m) \o new = SubSeq(s, 1, m)
      <4> DEFINE S == {s[i] : i \in Nodes(s)}
      <4>1. s \in Seq(S)
        BY ScenarioIs DEF IsSeq
      <4> HIDE DEF S
      <4>2. SubSeq(s, 1, m) \in Seq(S)
        BY <1>1, <2>6, <4>1
      <4> QED BY <2>4, <4>2
    <3> QED BY <1>2, <1>4, <3>1 DEF Splice
  <2>8. /\ SameName(s, t) /\ Len(t) = m + Len(new) + (Len(s) - e)
        /\ \A i \in 1 .. m : t[i] = s[i]
    <3>1. Spliced(s, m, new, e, t)
      BY <2>5, <2>6, <2>7, SpliceIs
    <3> QED BY <3>1 DEF Spliced
  <2>9. ASSUME NEW i \in 2 .. Len(s), i < k \/ i > e
        PROVE  Stays(s, t, i)
    <3>1. CASE i < k
      <4>1. IsScenario(t) /\ m <= Len(t) /\ i \in 2 .. m /\ i \in 2 .. Len(t)
            /\ \A n \in 1 .. m : t[n].depth = s[n].depth
        BY <1>1, <2>5, <2>6, <2>8, <3>1 DEF SameName
      <4>2. Above(t, i) = Above(s, i)
        BY <2>6, <4>1, BeforeSplice
      <4>3. Above(s, i) \in 1 .. m
        <5>1. Encloses(s, Above(s, i), i)
          BY AboveIs
        <5> QED BY <2>6, <4>1, <5>1 DEF Encloses
      <4>4. t[i] = s[i] /\ t[Above(t, i)] = s[Above(s, i)]
        BY <2>8, <4>1, <4>2, <4>3
      <4> QED BY <4>1, <4>4 DEF Stays
    <3>2. CASE i > e
      <4>1. i \in 1 .. Len(s) /\ (Above(s, i) <= m \/ Above(s, i) > e)
        <5>1. Encloses(s, Above(s, i), i) /\ i \in 1 .. Len(s)
          BY <1>1, AboveIs
        <5>2. Above(s, i) \in Int
          BY <5>1 DEF Encloses
        <5> QED BY <1>1, <2>3, <2>6, <3>2, <5>1, <5>2
      <4>2. Above(s, i) <= m => NoneAbove(new, s, i)
        BY <2>5 DEF NoneAbove
      <4>3. Inside(new) /\ m \in 1 .. Len(s) /\ e \in m .. Len(s)
        BY <2>5, <2>6
      <4> QED BY <2>7, <3>2, <4>1, <4>2, <4>3, BehindSplice
    <3> QED BY <2>9, <3>1, <3>2
  <2>10. Holds(s, t, {i \in 2 .. Len(s) : i < k \/ i > e})
    BY <2>9 DEF Holds
  <2> QED BY <1>4, <2>1, <2>8, <2>10 DEF Without, k, e
<1> QED BY <1>3, <1>4

\* What an update leaves of a node: its id and its place; in a renamed element
\* the nodes that bear its name are renamed.
UpdatedTo(s, t, found) ==
  /\ SameName(s, t) /\ Len(t) = Len(s) /\ t[1].id = s[1].id
  /\ \A i \in 1 .. Len(s) : t[i].depth = s[i].depth /\ t[i].type = s[i].type
  /\ \A i \in 2 .. Len(s) :
        \/ t[i] = s[i]
        \/ found # {} /\ i = Min(found) /\ t[i].id = s[i].id
        \/ /\ found # {} /\ i \in (Min(found) + 1) .. BlockEnd(s, Min(found))
           /\ s[i].id \in HiddenIn(s[Min(found)].name)

\* Three sequences in a row.
InARow(a, b, c) == (a \o b) \o c = a \o (b \o c)

LEMMA ThreeJoined ==
  ASSUME NEW S, NEW a \in Seq(S), NEW b \in Seq(S), NEW c \in Seq(S)
  PROVE  InARow(a, b, c)
  BY ConcatAssociative DEF InARow

\* A node inside a renamed element.
LEMMA RenamedIs ==
  ASSUME NEW e, NEW name, NEW n, DOMAIN n = {"id", "name", "type", "depth", "data"},
         NEW r, r = WithDefault(e, name, n)
  PROVE  /\ DOMAIN r = DOMAIN n /\ r.depth = n.depth /\ r.type = n.type
         /\ r = n \/ n.id \in HiddenIn(e.name)
<1>1. ASSUME NEW to, NEW u, u = Renamed(n, to) PROVE DOMAIN u = DOMAIN n /\ u.depth = n.depth /\ u.type = n.type
  BY <1>1 DEF Renamed
<1>2. CASE e.depth = 1 /\ n.id = e.name \o "-COMMON"
  BY <1>1, <1>2 DEF WithDefault, HiddenIn
<1>3. CASE e.depth = 1 /\ n.id = e.name \o "-COMMON-DEFAULT"
  BY <1>1, <1>3 DEF WithDefault, HiddenIn
<1>4. CASE e.depth = 2 /\ n.id = e.name \o "-DEFAULT"
  BY <1>1, <1>4 DEF WithDefault, HiddenIn
<1>5. CASE /\ ~(e.depth = 1 /\ n.id = e.name \o "-COMMON")
           /\ ~(e.depth = 1 /\ n.id = e.name \o "-COMMON-DEFAULT")
           /\ ~(e.depth = 2 /\ n.id = e.name \o "-DEFAULT")
  BY <1>5, Zenon DEF WithDefault
<1> QED BY <1>2, <1>3, <1>4, <1>5

\* An update of the scenario writes its first node, one of an element that
\* element, and renames what is hidden in it.
LEMMA UpdateKeeps ==
  ASSUME NEW s, IsScenario(s), NEW id, NEW name, NEW v, NEW t, t = updateElementInScenario(s, id, name, v),
         NEW found, found = {k \in 2 .. Len(s) : s[k].id = id}
  PROVE  UpdatedTo(s, t, found)
<1> DEFINE k == Min(found)
           m == k - 1
           e == BlockEnd(s, k)
           x == [s[k] EXCEPT !.name = name, !.data = Updated(s[k], v)]
           inside == [j \in 1 .. (e - k) |-> WithDefault(s[k], name, s[k + j])]
           y == Updated(s[1], v)
<1>1. /\ Len(s) \in Nat /\ Len(s) >= 1 /\ IsSeq(s) /\ Nodes(s) = 1 .. Len(s)
      /\ \A i \in 2 .. Len(s) : s[i].depth \in 1 .. 5
  BY ScenarioIs
<1>2. \A i \in 1 .. Len(s) : DOMAIN s[i] = {"id", "name", "type", "depth", "data"}
  BY <1>1 DEF IsScenario
<1>3. t = IF Name(s) = name THEN [s EXCEPT ![1].data = y]
          ELSE IF found = {} THEN s
          ELSE SubSeq(s, 1, m) \o <<x>> \o inside \o SubSeq(s, e + 1, Len(s))
  BY DEF updateElementInScenario
<1>4. CASE Name(s) = name
  <2> HIDE DEF y
  <2> DEFINE z == [s[1] EXCEPT !.data = y]
             S == {s[j] : j \in Nodes(s)} \cup {z}
  <2>1. t = [s EXCEPT ![1] = z]
    BY <1>3, <1>4
  <2>2. /\ DOMAIN z = {"id", "name", "type", "depth", "data"} /\ z.name = s[1].name
        /\ z.depth = s[1].depth /\ z.type = s[1].type /\ z.id = s[1].id
    BY <1>1, <1>2
  <2>3. s \in Seq(S) /\ z \in S
    BY DEF IsScenario
  <2> HIDE DEF z, S
  <2>4. t \in Seq(S) /\ t # <<>> /\ t[1] = z /\ Len(t) = Len(s) /\ \A i \in 2 .. Len(s) : t[i] = s[i]
    BY <1>1, <2>1, <2>3
  <2>5. IsSeq(t) /\ Nodes(t) = 1 .. Len(s)
    BY <1>1, <2>4, SeqIs DEF Nodes
  <2>6. IsScenario(t)
    <3>1. ASSUME NEW i \in Nodes(t)
          PROVE  /\ DOMAIN t[i] = {"id", "name", "type", "depth", "data"}
                 /\ t[i].depth \in IF i = 1 THEN {0} ELSE 1 .. 5
      <4>1. CASE i = 1
        BY <2>2, <2>4, <4>1, ScenarioIs
      <4>2. CASE i # 1
        BY <1>1, <1>2, <2>4, <2>5, <4>2
      <4> QED BY <4>1, <4>2
    <3> QED BY <2>4, <2>5, <3>1 DEF IsScenario, IsSeq
  <2>7. SameName(s, t)
    BY <2>2, <2>4, <2>6 DEF SameName, Name
  <2>8. \A i \in 1 .. Len(s) : t[i].depth = s[i].depth /\ t[i].type = s[i].type
    BY <1>1, <2>2, <2>4
  <2> QED BY <2>2, <2>4, <2>7, <2>8 DEF UpdatedTo
<1>5. CASE Name(s) # name /\ found = {}
  <2>1. t = s
    BY <1>3, <1>5
  <2> QED BY <2>1 DEF UpdatedTo, SameName
<1>6. CASE Name(s) # name /\ found # {}
  <2>1. k \in 2 .. Len(s)
    <3>1. found \in SUBSET Nat /\ found \subseteq 2 .. Len(s)
      BY <1>1
    <3>2. k \in found
      BY <1>6, <3>1, MinIs
    <3> QED BY <3>1, <3>2
  <2>2. e \in k .. Len(s)
    <3> HIDE DEF k
    <3>1. k \in 1 .. Len(s)
      BY <1>1, <2>1
    <3> QED BY <3>1, BlockEndIs
  <2> HIDE DEF k, e
  <2>3. m \in 1 .. Len(s) /\ e \in m .. Len(s) /\ k \in Nat /\ e \in Nat
    BY <1>1, <2>1, <2>2
  <2>4. /\ DOMAIN x = {"id", "name", "type", "depth", "data"} /\ x.depth = s[k].depth
        /\ x.type = s[k].type /\ x.id = s[k].id
    <3>1. DOMAIN s[k] = {"id", "name", "type", "depth", "data"}
      BY <1>1, <1>2, <2>1
    <3> HIDE DEF y
    <3> QED BY <3>1
  <2>5. ASSUME NEW j \in 1 .. (e - k)
        PROVE  /\ k + j \in 2 .. Len(s) /\ DOMAIN inside[j] = {"id", "name", "type", "depth", "data"}
               /\ inside[j].depth = s[k + j].depth /\ inside[j].type = s[k + j].type
               /\ inside[j] = s[k + j] \/ s[k + j].id \in HiddenIn(s[k].name)
    <3>1. k + j \in 2 .. Len(s) /\ k + j \in 1 .. Len(s)
      BY <1>1, <2>1, <2>2
    <3>2. inside[j] = WithDefault(s[k], name, s[k + j])
      OBVIOUS
    <3>3. PICK n, r : n = s[k + j] /\ r = inside[j]
      OBVIOUS
    <3>4. DOMAIN n = {"id", "name", "type", "depth", "data"}
      BY <1>2, <3>1, <3>3
    <3>5. r = WithDefault(s[k], name, n)
      BY <3>2, <3>3
    <3> HIDE DEF inside
    <3>6. /\ DOMAIN r = DOMAIN n /\ r.depth = n.depth /\ r.type = n.type
          /\ r = n \/ n.id \in HiddenIn(s[k].name)
      BY <3>4, <3>5, RenamedIs
    <3> QED BY <3>1, <3>3, <3>4, <3>6
  <2>6. IsSeq(inside) /\ Len(inside) = e - k
    <3> DEFINE S == {WithDefault(s[k], name, s[k + j]) : j \in 1 .. (e - k)}
    <3>1. e - k \in Nat
      BY <1>1, <2>1, <2>2
    <3>2. inside \in Seq(S) /\ Len(inside) = e - k
      BY <3>1
    <3> QED BY <3>2, SeqIs
  <2> HIDE DEF x, inside, y
  <2> DEFINE first == <<x>>
             new == first \o inside
  <2>7. IsSeq(first) /\ Len(first) = 1 /\ first[1] = x
    BY OneIs
  <2>8. t = Splice(s, m, new, e)
    <3> DEFINE a == SubSeq(s, 1, m)
               b == SubSeq(s, e + 1, Len(s))
               S == {s[j] : j \in Nodes(s)} \cup {inside[j] : j \in Nodes(inside)} \cup {x}
    <3>1. s \in Seq(S) /\ inside \in Seq(S) /\ first \in Seq(S)
      BY <1>1, <2>6 DEF IsSeq
    <3> HIDE DEF S, m
    <3>2. a \in Seq(S)
      BY <1>1, <2>3, <3>1
    <3> HIDE DEF a, b, first
    <3>3. InARow(a, first, inside)
      BY <3>1, <3>2, ThreeJoined
    <3>4. t = ((a \o first) \o inside) \o b
      BY <1>3, <1>6 DEF a, b, first, m
    <3> QED BY <3>3, <3>4 DEF InARow, Splice, a, b, first, m
  <2> HIDE DEF first
  <2>9. new = first \o inside
    OBVIOUS
  <2> HIDE DEF new
  <2>10. /\ IsSeq(new) /\ Len(new) = 1 + (e - k) /\ new[1] = x
         /\ \A j \in 1 .. (e - k) : new[1 + j] = inside[j]
    <3>1. Joined(first, inside, new)
      BY <2>6, <2>7, <2>9, JoinedIs
    <3> QED BY <2>6, <2>7, <3>1 DEF Joined
  <2>11. ASSUME NEW i \in 1 .. Len(new)
         PROVE  /\ m + i \in k .. e /\ DOMAIN new[i] = {"id", "name", "type", "depth", "data"}
                /\ new[i].depth = s[m + i].depth /\ new[i].type = s[m + i].type
                /\ \/ new[i] = s[m + i]
                   \/ m + i = k /\ new[i].id = s[m + i].id
                   \/ m + i \in (k + 1) .. e /\ s[m + i].id \in HiddenIn(s[k].name)
    <3>1. CASE i = 1
      <4>1. m + i = k /\ new[i] = x /\ k \in k .. e
        BY <2>1, <2>2, <2>3, <2>10, <3>1
      <4> HIDE DEF m
      <4> QED BY <2>4, <4>1
    <3>2. CASE i # 1
      <4> DEFINE j == i - 1
      <4>1. j \in 1 .. (e - k) /\ 1 + j = i /\ k + j = m + i /\ k + j \in (k + 1) .. e
        <5>1. i \in 1 .. 1 + (e - k) /\ i # 1
          BY <2>10, <3>2
        <5>2. j \in 1 .. (e - k)
          BY <2>3, <5>1
        <5> QED BY <2>3, <5>1, <5>2
      <4> HIDE DEF j, m
      <4>2. new[i] = inside[j]
        BY <2>10, <4>1
      <4>3. k + j \in k .. e
        BY <2>3, <4>1
      <4> QED BY <2>5, <4>1, <4>2, <4>3
    <3> QED BY <3>1, <3>2
  <2>12. Inside(new)
    <3>1. Nodes(new) = 1 .. Len(new)
      BY <2>10 DEF IsSeq, Nodes
    <3>2. ASSUME NEW i \in Nodes(new)
          PROVE  DOMAIN new[i] = {"id", "name", "type", "depth", "data"} /\ new[i].depth \in 1 .. 5
      <4>1. m + i \in k .. e /\ new[i].depth = s[m + i].depth
            /\ DOMAIN new[i] = {"id", "name", "type", "depth", "data"}
        BY <2>11, <3>1
      <4> HIDE DEF m
      <4>2. m + i \in 2 .. Len(s)
        BY <1>1, <2>1, <2>2, <2>3, <4>1
      <4> QED BY <1>1, <4>1, <4>2
    <3> QED BY <2>10, <3>2 DEF Inside
  <2> HIDE DEF m
  <2>13. Spliced(s, m, new, e, t)
    BY <2>3, <2>8, <2>12, SpliceIs
  <2>14. /\ SameName(s, t) /\ Len(new) = e - m /\ Len(t) = Len(s)
         /\ \A i \in 1 .. m : t[i] = s[i]
         /\ \A i \in 1 .. Len(new) : t[m + i] = new[i]
    <3>1. Len(new) = e - m
      BY <2>3, <2>10 DEF m
    <3>2. m + (e - m) + (Len(s) - e) = Len(s)
      BY <1>1, <2>3
    <3> QED BY <2>13, <3>1, <3>2 DEF Spliced
  <2>15. ASSUME NEW i \in (e + 1) .. Len(s) PROVE t[i] = s[i]
    <3>1. i + m + (e - m) - e = i
      BY <1>1, <2>3
    <3>2. t[i + m + Len(new) - e] = s[i]
      BY <2>13, Zenon DEF Spliced
    <3> QED BY <2>14, <3>1, <3>2
  <2>16. ASSUME NEW i \in 1 .. Len(s)
         PROVE  /\ t[i].depth = s[i].depth /\ t[i].type = s[i].type
                /\ \/ t[i] = s[i]
                   \/ i = k /\ t[i].id = s[i].id
                   \/ i \in (k + 1) .. e /\ s[i].id \in HiddenIn(s[k].name)
    <3>1. CASE i <= m
      BY <2>3, <2>14, <3>1
    <3>2. CASE m < i /\ i <= e
      <4> DEFINE j == i - m
      <4>1. j \in 1 .. Len(new) /\ m + j = i
        BY <2>3, <2>14, <3>2
      <4> HIDE DEF j
      <4>2. t[i] = new[j]
        BY <2>14, <4>1
      <4> QED BY <2>11, <4>1, <4>2
    <3>3. CASE e < i
      BY <1>1, <2>3, <2>15, <3>3
    <3> QED BY <1>1, <2>3, <3>1, <3>2, <3>3
  <2>17. t[1] = s[1]
    BY <2>3, <2>14
  <2> QED BY <1>6, <2>14, <2>16, <2>17 DEF UpdatedTo, k, e
<1> QED BY <1>4, <1>5, <1>6

\* f[i] is the scenario with the copies up to node i.
Copies(f, n, s, shown, top, name, parent, v, ids) ==
  f = [k \in 1 .. n |-> IF k < top THEN s
                        ELSE cloneElement(s, shown, top, name, parent, v, ids, f[k - 1], k)]

\* One copy more.
LEMMA OneCopyMore ==
  ASSUME NEW n \in Nat, NEW f, NEW s, NEW shown, NEW top \in 2 .. Len(s), NEW name, NEW parent, NEW v, NEW ids,
         Copies(f, n, s, shown, top, name, parent, v, ids)
  PROVE  \E g : Copies(g, n + 1, s, shown, top, name, parent, v, ids)
<1> DEFINE More(i, g) == IF i < top THEN s
                         ELSE cloneElement(s, shown, top, name, parent, v, ids, g[i - 1], i)
           g == [i \in 1 .. n + 1 |-> IF i = n + 1 THEN More(n + 1, f) ELSE f[i]]
<1>1. ASSUME NEW i \in 1 .. n + 1
      PROVE  g[i] = More(i, g)
  <2>1. CASE i = n + 1
    <3>1. g[i] = More(n + 1, f) /\ i - 1 = n
      BY <2>1
    <3>2. i >= top => g[i - 1] = f[i - 1]
      BY <2>1
    <3>3. top \in Int
      OBVIOUS
    <3> HIDE DEF g
    <3> QED BY <2>1, <3>1, <3>2, <3>3
  <2>2. CASE i # n + 1
    <3>1. i \in 1 .. n
      BY <2>2
    <3>2. f[i] = More(i, f)
      BY <3>1, Zenon DEF Copies
    <3>3. g[i] = f[i] /\ (i >= top => g[i - 1] = f[i - 1])
      BY <3>1
    <3>4. top \in Int
      OBVIOUS
    <3> HIDE DEF g
    <3> QED BY <3>1, <3>2, <3>3, <3>4
  <2> QED BY <2>1, <2>2
<1>2. g = [i \in 1 .. n + 1 |-> g[i]]
  OBVIOUS
<1> HIDE DEF g
<1>3. g = [i \in 1 .. n + 1 |-> More(i, g)]
  BY <1>1, <1>2, Zenon
<1>4. Copies(g, n + 1, s, shown, top, name, parent, v, ids)
  BY <1>3, Zenon DEF Copies
<1> QED BY <1>4

\* A copy is an element that is added.
LEMMA CopyGrows ==
  ASSUME NEW s, NEW shown, NEW top, NEW name, NEW parent, NEW v, NEW ids, NEW t, IsScenario(t), NEW k
  PROVE  Grown(t, cloneElement(s, shown, top, name, parent, v, ids, t, k))
  BY AddGrows, GrownSame DEF cloneElement

\* The recursive function of the copies exists, and every value of it is the
\* scenario with elements added.
LEMMA CloneGrows ==
  ASSUME NEW s, IsScenario(s), NEW shown, NEW id, NEW name, NEW parent, NEW v, NEW ids
  PROVE  Grown(s, cloneElementInScenario(s, shown, id, name, parent, v, ids))
<1> DEFINE found == {k \in 2 .. Len(s) : s[k].id = id}
           top == Min(found)
           n == Len(s)
           r == CHOOSE f : f = [k \in Nodes(s) |->
                  IF k < top THEN s ELSE cloneElement(s, shown, top, name, parent, v, ids, f[k - 1], k)]
           t == cloneElementInScenario(s, shown, id, name, parent, v, ids)
<1>1. IsSeq(s) /\ n \in Nat /\ Nodes(s) = 1 .. n
  BY ScenarioIs
<1>2. t = IF found = {} THEN s ELSE r[BlockEnd(s, top)]
  BY Zenon DEF cloneElementInScenario
<1>3. CASE found = {}
  BY <1>2, <1>3, GrownSame
<1>4. CASE found # {}
  <2>1. found \in SUBSET (1 .. n) /\ found \subseteq 2 .. n
    BY <1>1
  <2>2. top \in 2 .. n
    <3> HIDE DEF found
    <3>1. top \in found
      BY <1>1, <1>4, <2>1, NumberBelow
    <3> QED BY <2>1, <3>1
  <2>3. BlockEnd(s, top) \in 1 .. n
    <3> HIDE DEF top
    <3>1. top \in 1 .. Len(s)
      BY <1>1, <2>2
    <3>2. BlockEnd(s, top) \in top .. Len(s)
      BY <3>1, BlockEndIs
    <3> QED BY <1>1, <2>2, <3>2
  <2> HIDE DEF found, top
  <2> DEFINE Is(f, m) == Copies(f, m, s, shown, top, name, parent, v, ids)
             T == {m \in 0 .. n : \E f : Is(f, m)}
             NoCopies == [k \in 1 .. 0 |-> s]
  <2>4. 0 \in T
    <3>1. NoCopies = [k \in 1 .. 0 |-> IF k < top THEN s
                    ELSE cloneElement(s, shown, top, name, parent, v, ids, NoCopies[k - 1], k)]
      OBVIOUS
    <3>2. Is(NoCopies, 0)
      <4> HIDE DEF NoCopies
      <4> QED BY <3>1, Zenon DEF Copies
    <3> HIDE DEF Is, NoCopies
    <3> QED BY <1>1, <3>2
  <2>5. ASSUME NEW m \in 0 .. n, m \in T, m < n
        PROVE  m + 1 \in T
    <3>1. m \in Nat /\ \E f : Is(f, m)
      BY <2>5
    <3>2. \E f : Is(f, m + 1)
      BY <2>2, <3>1, OneCopyMore, Zenon
    <3> HIDE DEF Is
    <3> QED BY <1>1, <2>5, <3>2
  <2>6. n \in T
    <3>1. \A m \in 0 .. n : m \in T
      <4> HIDE DEF T, n
      <4> QED BY <1>1, <2>4, <2>5, UpTo
    <3> HIDE DEF T, n
    <3> QED BY <1>1, <3>1
  <2>7. \E f : Is(f, n)
    BY <2>6
  <2>8. r = [k \in 1 .. n |->
               IF k < top THEN s ELSE cloneElement(s, shown, top, name, parent, v, ids, r[k - 1], k)]
    <3>1. \E f : f = [k \in Nodes(s) |->
               IF k < top THEN s ELSE cloneElement(s, shown, top, name, parent, v, ids, f[k - 1], k)]
      BY <1>1, <2>7, Zenon DEF Copies
    <3>2. r = [k \in Nodes(s) |->
               IF k < top THEN s ELSE cloneElement(s, shown, top, name, parent, v, ids, r[k - 1], k)]
      BY <3>1, Zenon
    <3> HIDE DEF r, n
    <3> QED BY <1>1, <3>2, Zenon
  <2> HIDE DEF r, n, T, Is, NoCopies
  <2>13. \A k \in 1 .. n :
            r[k] = IF k < top THEN s ELSE cloneElement(s, shown, top, name, parent, v, ids, r[k - 1], k)
    BY <2>8
  <2> DEFINE G == {m \in 0 .. n : m = 0 \/ Grown(s, r[m])}
  <2>9. ASSUME NEW m \in 0 .. n, m \in G, m < n
        PROVE  m + 1 \in G
    <3>1. m + 1 \in 1 .. n /\ top \in Int /\ m \in Int
      BY <1>1, <2>2, <2>9
    <3>2. r[m + 1] = IF m + 1 < top THEN s
                     ELSE cloneElement(s, shown, top, name, parent, v, ids, r[m + 1 - 1], m + 1)
      <4> DEFINE w == m + 1
      <4>1. w \in 1 .. n
        BY <3>1
      <4> HIDE DEF w
      <4>2. r[w] = IF w < top THEN s ELSE cloneElement(s, shown, top, name, parent, v, ids, r[w - 1], w)
        BY <2>13, <4>1
      <4> QED BY <4>2 DEF w
    <3>3. CASE m + 1 < top
      BY <3>1, <3>2, <3>3, GrownSame
    <3>4. CASE ~(m + 1 < top)
      <4>1. m # 0 /\ m + 1 - 1 = m
        BY <2>2, <3>1, <3>4
      <4>2. Grown(s, r[m])
        BY <2>9, <4>1
      <4>3. r[m + 1] = cloneElement(s, shown, top, name, parent, v, ids, r[m], m + 1)
        BY <3>2, <3>4, <4>1
      <4>4. Grown(r[m], r[m + 1])
        BY <4>2, <4>3, CopyGrows DEF Grown, SameName
      <4>5. Grown(s, r[m + 1])
        BY <4>2, <4>4, GrownOn
      <4> QED BY <3>1, <4>5
    <3> QED BY <3>3, <3>4
  <2>10. \A m \in 0 .. n : m \in G
    <3>1. 0 \in G
      BY <1>1
    <3> HIDE DEF G
    <3> QED BY <1>1, <2>9, <3>1, UpTo
  <2>11. Grown(s, r[BlockEnd(s, top)])
    <3>1. BlockEnd(s, top) \in G /\ BlockEnd(s, top) # 0
      <4> HIDE DEF G
      <4> QED BY <1>1, <2>3, <2>10
    <3> QED BY <3>1
  <2>12. Grown(s, t)
    <3> HIDE DEF t
    <3> QED BY <1>2, <1>4, <2>11
  <2> QED BY <2>12
<1> QED BY <1>3, <1>4
-----------------------------------------------------------------------------
\* What the page says, whatever calls are under way.
TruePage ==
  /\ (page = "LOADED" /\ "edited" \notin tale) =>
        /\ Name(scenario) \in DOMAIN stored
        /\ version # "old" => stored[Name(scenario)] = scenario
        /\ version \notin {"old", "none"} => versions[Name(scenario)] = version
  /\ (page = "NEW" /\ tale \intersect {"lost", "refused", "retyped"} = {}) =>
        Name(scenario) \notin DOMAIN stored

Operations == {"new", "open", "create", "set", "delete", "import"}

\* A call carries a scenario under the name it is for, and so does its answer.
IsCall(c) ==
  /\ c = [op |-> c.op, name |-> c.name, doc |-> c.doc, version |-> c.version, at |-> c.at,
          answer |-> c.answer, gives |-> c.gives]
  /\ c.op \in Operations /\ c.answer \in {"none", "ok", "error"}
  /\ c.op \in {"create", "set"} => IsScenario(c.doc) /\ Name(c.doc) = c.name
  /\ c.op = "open" /\ c.answer = "ok" => IsScenario(c.gives) /\ Name(c.gives) = c.name

\* What the only call under way finds when its callback runs.
Pending(c) ==
  /\ c.op \in {"create", "set"} =>
        /\ scenario = c.doc /\ version = c.version
        /\ c.answer = "ok" => /\ c.name \in DOMAIN stored /\ stored[c.name] = c.doc
                              /\ versions[c.name] = "current" /\ c.version \in Supported
  /\ c.op = "import" =>
        /\ Name(scenario) = c.name /\ "edited" \in tale
        /\ c.answer = "error" => c.name \notin DOMAIN stored
  /\ c.op \in {"new", "open"} => TruePage
  /\ c.op = "new" /\ c.answer = "error" => c.name \notin DOMAIN stored
  /\ c.op = "open" /\ c.answer = "ok" =>
        c.name \in DOMAIN stored /\ c.gives = stored[c.name] /\ c.version = versions[c.name]

ServerKeepsNames == \A n \in DOMAIN stored : IsScenario(stored[n]) /\ Name(stored[n]) = n

\* Calls that do not cross: there is one, or none.
InTurn ==
  "raced" \notin tale =>
    /\ calls = {} => TruePage
    /\ \A c, d \in calls : c = d
    /\ \A c \in calls : Pending(c)

PageInv ==
  /\ IsScenario(scenario) /\ ServerKeepsNames
  /\ \A c \in calls : IsCall(c)
  /\ InTurn

\* At first the page shows a scenario of the server.
LEMMA PageInvInit == CpInit => PageInv
<1> SUFFICES ASSUME CpInit PROVE PageInv
  OBVIOUS
<1>1. /\ game \in DOMAIN Games /\ stored = AtFirst[game] /\ scenario = stored[Games[game].open]
      /\ page = "LOADED" /\ calls = {} /\ tale = {} /\ version = versions[Games[game].open]
  BY DEF CpInit, Game
<1>2. /\ Games[game].open \in DOMAIN stored
      /\ \A n \in DOMAIN stored : IsScenario(stored[n]) /\ Name(stored[n]) = n
  BY <1>1, GamesAssumption DEF GamesAssumption
<1>3. IsScenario(scenario) /\ ServerKeepsNames
  BY <1>1, <1>2 DEF ServerKeepsNames
<1>4. TruePage
  BY <1>1, <1>2 DEF TruePage
<1> QED BY <1>1, <1>3, <1>4 DEF PageInv, InTurn

\* The form alone changes nothing of this.
LEMMA FormKeeps ==
  ASSUME PageInv, UNCHANGED <<scenario, page, calls, server, version, tale>>
  PROVE  PageInv'
  BY DEF PageInv, InTurn, ServerKeepsNames, Pending, TruePage, server

\* A changed scenario keeps its name.
LEMMA ScenarioKeeps ==
  ASSUME PageInv, SameName(scenario, scenario'), UNCHANGED <<page, calls, server, version>>,
         tale' = tale \union ({"edited"} \union Busy)
  PROVE  PageInv'
<1>1. IsScenario(scenario') /\ Name(scenario') = Name(scenario)
  BY DEF SameName
<1>2. ASSUME "raced" \notin tale' PROVE calls' = {} /\ TruePage'
  <2>1. calls = {} /\ "raced" \notin tale
    BY <1>2 DEF Busy
  <2>2. TruePage
    BY <2>1 DEF PageInv, InTurn
  <2>3. "edited" \in tale' /\ tale \subseteq tale'
    OBVIOUS
  <2> QED BY <1>1, <2>1, <2>2, <2>3 DEF TruePage, server, server
<1> QED BY <1>1, <1>2 DEF PageInv, InTurn, ServerKeepsNames, server

\* The form of a new or an opened element is applied.
LEMMA SaveElementKeeps == ASSUME PageInv, onSaveElement PROVE PageInv'
<1>1. SameName(scenario, scenario')
  <2>1. IsScenario(scenario)
    BY DEF PageInv
  <2>2. CASE form.mode = "NEW"
    BY <2>1, <2>2, AddGrows DEF Grown, onSaveElement, changeScenario
  <2>3. CASE form.mode # "NEW"
    <3>1. scenario' = updateElementInScenario(scenario, form.id, form.name, form.vals)
      BY <2>3 DEF onSaveElement, changeScenario
    <3>2. PICK found : found = {k \in 2 .. Len(scenario) : scenario[k].id = form.id}
      OBVIOUS
    <3>3. UpdatedTo(scenario, scenario', found)
      BY <2>1, <3>1, <3>2, UpdateKeeps
    <3> QED BY <3>3 DEF UpdatedTo
  <2> QED BY <2>2, <2>3
<1> QED BY <1>1, ScenarioKeeps DEF onSaveElement, OnScenario, Note

\* The form of a copy is applied.
LEMMA CloneElementKeeps == ASSUME PageInv, onApplyCloneElement PROVE PageInv'
<1>1. SameName(scenario, scenario')
  BY CloneGrows DEF Grown, PageInv, onApplyCloneElement, changeScenario
<1> QED BY <1>1, ScenarioKeeps DEF onApplyCloneElement, OnScenario, Note

\* The opened element is deleted.
LEMMA DeleteElementKeeps == ASSUME PageInv, onDeleteElement PROVE PageInv'
<1>1. SameName(scenario, scenario')
  <2>1. PICK found : found = {k \in 2 .. Len(scenario) : scenario[k].name = form.name}
    OBVIOUS
  <2>2. IsScenario(scenario) /\ scenario' = removeElementFromScenario(scenario, form.name)
    BY DEF PageInv, onDeleteElement, changeScenario
  <2>3. Without(scenario, scenario', found)
    BY <2>1, <2>2, RemoveKeeps
  <2> QED BY <2>3 DEF Without
<1> QED BY <1>1, ScenarioKeeps DEF onDeleteElement, OnScenario, Note

\* The call that is sent when none is under way.
Sent(op, name, doc, of) ==
  [op |-> op, name |-> name, doc |-> doc, version |-> of, at |-> left, answer |-> "none", gives |-> <<>>]

\* What is sent is a call.
LEMMA SentIsCall ==
  ASSUME NEW op \in Operations, NEW name, NEW doc, NEW of,
         op \in {"create", "set"} => IsScenario(doc) /\ Name(doc) = name
  PROVE  IsCall(Sent(op, name, doc, of))
  BY DEF Sent, IsCall

\* A call that is sent while others are under way makes the story a race.
LEMMA SendKeeps ==
  ASSUME PageInv, NEW c, calls' = calls \union {c}, IsCall(c),
         stored' = stored, IsScenario(scenario'),
         "raced" \notin tale' => "raced" \notin tale /\ calls = {},
         calls = {} /\ TruePage => Pending(c)'
  PROVE  PageInv'
<1>1. ASSUME "raced" \notin tale' PROVE calls' = {c} /\ Pending(c)'
  <2>1. calls = {} /\ TruePage
    BY <1>1 DEF PageInv, InTurn
  <2> QED BY <2>1
<1>2. \A x \in calls' : IsCall(x)
  BY DEF PageInv
<1>3. InTurn'
  BY <1>1 DEF InTurn
<1> QED BY <1>2, <1>3 DEF PageInv, ServerKeepsNames

\* A dialog that changes nothing itself.
LEMMA AskKeeps ==
  ASSUME PageInv, NEW op \in {"new", "open", "delete"}, NEW name, Send(op, name, <<>>, "none"), Note(Busy),
         UNCHANGED <<scenario, page, server, version>>
  PROVE  PageInv'
<1>1. PICK c : c = Sent(op, name, <<>>, "none")
  OBVIOUS
<1>2. calls' = calls \union {c} /\ tale' = tale \union Busy
  BY <1>1 DEF Send, Note, Sent
<1>3. IsCall(c) /\ c.op = op /\ c.answer = "none"
  BY <1>1, SentIsCall DEF Sent, Operations
<1>4. "raced" \notin tale' => "raced" \notin tale /\ calls = {}
  BY <1>2 DEF Busy
<1>5. calls = {} /\ TruePage => Pending(c)'
  <2> SUFFICES ASSUME calls = {}, TruePage PROVE Pending(c)'
    OBVIOUS
  <2>1. tale' = tale
    BY <1>2 DEF Busy
  <2>2. TruePage'
    BY <2>1 DEF TruePage, server
  <2> QED BY <1>3, <2>2 DEF Pending
<1>6. IsScenario(scenario') /\ stored' = stored
  BY DEF PageInv, server
<1> QED BY <1>2, <1>3, <1>4, <1>5, <1>6, SendKeeps

\* What is sent to be saved is what the page shows, under the new name.
LEMMA SaveKeeps == ASSUME PageInv, saveScenario PROVE PageInv'
<1>1. PICK name : /\ Send(IF page = "NEW" \/ name # Name(scenario) THEN "create" ELSE "set", name,
                          [scenario EXCEPT ![1].name = name, ![1].id = name], version)
                  /\ scenario' = [scenario EXCEPT ![1].name = name, ![1].id = name]
  BY DEF saveScenario
<1>2. tale' = (tale \ {"edited"}) \union Busy /\ stored' = stored /\ page' = page /\ version' = version
  BY DEF saveScenario, server
<1>3. IsScenario(scenario') /\ Name(scenario') = name
  <2> DEFINE z == [scenario[1] EXCEPT !.name = name, !.id = name]
             S == {scenario[j] : j \in Nodes(scenario)} \cup {z}
             t == [scenario EXCEPT ![1] = z]
  <2>1. IsScenario(scenario)
    BY DEF PageInv
  <2>2. /\ Len(scenario) \in Nat /\ Len(scenario) >= 1 /\ Nodes(scenario) = 1 .. Len(scenario)
        /\ scenario[1].depth = 0
        /\ \A i \in Nodes(scenario) : /\ DOMAIN scenario[i] = {"id", "name", "type", "depth", "data"}
                                      /\ scenario[i].depth \in IF i = 1 THEN {0} ELSE 1 .. 5
    BY <2>1, ScenarioIs DEF IsScenario
  <2>3. DOMAIN z = {"id", "name", "type", "depth", "data"} /\ z.name = name /\ z.depth = 0
    BY <2>2
  <2>4. scenario \in Seq(S) /\ z \in S
    BY <2>1 DEF IsScenario
  <2>5. scenario' = t
    <3> HIDE DEF S, z
    <3> QED BY <1>1, <2>2 DEF Nodes, z
  <2> HIDE DEF z, S
  <2>6. t \in Seq(S) /\ t # <<>> /\ t[1] = z /\ Nodes(t) = Nodes(scenario)
        /\ \A i \in Nodes(scenario) : i # 1 => t[i] = scenario[i]
    BY <2>2, <2>4 DEF Nodes
  <2> HIDE DEF t
  <2>7. IsSeq(t)
    BY <2>6, SeqIs
  <2>8. \A i \in Nodes(t) : /\ DOMAIN t[i] = {"id", "name", "type", "depth", "data"}
                            /\ t[i].depth \in IF i = 1 THEN {0} ELSE 1 .. 5
    BY <2>2, <2>3, <2>6
  <2> QED BY <2>3, <2>5, <2>6, <2>7, <2>8 DEF IsScenario, IsSeq, Name
<1>4. PICK op \in {"create", "set"} : Send(op, name, scenario', version)
  BY <1>1
<1>5. PICK c : c = Sent(op, name, scenario', version)
  OBVIOUS
<1>6. calls' = calls \union {c}
  BY <1>4, <1>5 DEF Send, Sent
<1>7. IsCall(c)
  BY <1>3, <1>5, SentIsCall DEF Operations
<1>8. c.op = op /\ c.name = name /\ c.doc = scenario' /\ c.answer = "none" /\ c.version = version
  BY <1>5 DEF Sent
<1>9. "raced" \notin tale' => "raced" \notin tale /\ calls = {}
  BY <1>2 DEF Busy
<1>10. Pending(c)'
  BY <1>2, <1>8 DEF Pending
<1> QED BY <1>2, <1>3, <1>6, <1>7, <1>9, <1>10, SendKeeps

\* An import shows the file before anybody answers.
LEMMA ImportKeeps == ASSUME PageInv, onScenarioInputChange PROVE PageInv'
<1>1. PICK file : Send("import", file, <<>>, "none") /\ changeScenario(createNewScenario(file, Game.fields))
  BY DEF onScenarioInputChange
<1>2. tale' = tale \union ({"edited"} \union Busy) /\ stored' = stored
  BY DEF onScenarioInputChange, Note, server
<1>3. PICK c : c = Sent("import", file, <<>>, "none")
  OBVIOUS
<1>4. calls' = calls \union {c}
  BY <1>1, <1>3 DEF Send, Sent
<1>5. IsCall(c)
  BY <1>3, SentIsCall DEF Operations
<1>6. c.op = "import" /\ c.name = file /\ c.answer = "none"
  BY <1>3 DEF Sent
<1>7. IsScenario(scenario') /\ Name(scenario') = file
  BY <1>1, NewIs DEF changeScenario
<1>8. "raced" \notin tale' => "raced" \notin tale /\ calls = {}
  BY <1>2 DEF Busy
<1>9. Pending(c)'
  <2>1. "edited" \in tale'
    BY <1>2
  <2>2. Name(scenario)' = file
    BY <1>7 DEF Name
  <2> QED BY <1>6, <2>1, <2>2 DEF Pending
<1> QED BY <1>2, <1>4, <1>5, <1>7, <1>8, <1>9, SendKeeps

\* The server serves the one call: its answer says what it now has.
LEMMA ServeKeeps == ASSUME PageInv, Serve PROVE PageInv'
<1>1. PICK c \in calls : c.answer = "none" /\
        LET has == c.name \in DOMAIN stored
            ok  == /\ c.op \in {"create", "set"} => c.version \in Supported
                   /\ IF c.op = "create" THEN ~has ELSE has
            all == DOMAIN stored \union {c.name}
        IN  /\ CASE ok /\ c.op \in {"create", "set"} ->
                      /\ stored' = [n \in all |-> IF n = c.name THEN c.doc ELSE stored[n]]
                      /\ versions' = [n \in all |-> IF n = c.name THEN "current" ELSE versions[n]]
                 [] ok /\ c.op = "delete" ->
                      /\ stored' = [n \in DOMAIN stored \ {c.name} |-> stored[n]]
                      /\ versions' = [n \in DOMAIN stored \ {c.name} |-> versions[n]]
                 [] OTHER -> UNCHANGED server
            /\ calls' = (calls \ {c}) \union
                        {[c EXCEPT !.answer = IF ok THEN "ok" ELSE "error",
                                   !.gives = IF ok /\ c.op = "open" THEN stored[c.name] ELSE <<>>,
                                   !.version = IF ok /\ c.op = "open" THEN versions[c.name] ELSE @]}
  BY DEF Serve
<1>2. scenario' = scenario /\ page' = page /\ tale' = tale /\ version' = version
  BY DEF Serve
<1>3. IsCall(c) /\ ServerKeepsNames /\ IsScenario(scenario) /\ \A x \in calls : IsCall(x)
  BY DEF PageInv
<1> DEFINE has == c.name \in DOMAIN stored
           ok  == /\ c.op \in {"create", "set"} => c.version \in Supported
                  /\ IF c.op = "create" THEN ~has ELSE has
           put == [n \in DOMAIN stored \union {c.name} |-> IF n = c.name THEN c.doc ELSE stored[n]]
           new == [n \in DOMAIN stored \union {c.name} |-> IF n = c.name THEN "current" ELSE versions[n]]
           rest == [n \in DOMAIN stored \ {c.name} |-> stored[n]]
<1>4. /\ stored' = IF ok /\ c.op \in {"create", "set"} THEN put
                   ELSE IF ok /\ c.op = "delete" THEN rest ELSE stored
      /\ ok /\ c.op \in {"create", "set"} => versions' = new
      /\ ~ok \/ c.op \notin {"create", "set", "delete"} => versions' = versions
  BY <1>1 DEF server
<1>5. PICK d : d = [c EXCEPT !.answer = IF ok THEN "ok" ELSE "error",
                             !.gives = IF ok /\ c.op = "open" THEN stored[c.name] ELSE <<>>,
                             !.version = IF ok /\ c.op = "open" THEN versions[c.name] ELSE @]
  OBVIOUS
<1>6. /\ d = [op |-> c.op, name |-> c.name, doc |-> c.doc,
              version |-> IF ok /\ c.op = "open" THEN versions[c.name] ELSE c.version,
              at |-> c.at, answer |-> IF ok THEN "ok" ELSE "error",
              gives |-> IF ok /\ c.op = "open" THEN stored[c.name] ELSE <<>>]
      /\ calls' = (calls \ {c}) \union {d}
  BY <1>1, <1>3, <1>5 DEF IsCall
<1>7. /\ DOMAIN put = DOMAIN stored \cup {c.name} /\ put[c.name] = c.doc
      /\ \A n \in DOMAIN stored : n # c.name => put[n] = stored[n]
      /\ new[c.name] = "current"
  OBVIOUS
<1>8. ServerKeepsNames'
  <2>1. CASE ok /\ c.op \in {"create", "set"}
    <3>1. IsScenario(c.doc) /\ Name(c.doc) = c.name
      BY <1>3, <2>1 DEF IsCall
    <3>2. stored' = put
      BY <1>4, <2>1
    <3> HIDE DEF put
    <3> QED BY <1>3, <1>7, <3>1, <3>2 DEF ServerKeepsNames
  <2>2. CASE ok /\ c.op = "delete"
    BY <1>3, <1>4, <2>2 DEF ServerKeepsNames
  <2>3. CASE ~(ok /\ c.op \in {"create", "set"}) /\ ~(ok /\ c.op = "delete")
    BY <1>3, <1>4, <2>3 DEF ServerKeepsNames
  <2> QED BY <2>1, <2>2, <2>3
<1>9. IsCall(d)
  <2>1. ok /\ c.op = "open" => IsScenario(stored[c.name]) /\ Name(stored[c.name]) = c.name
    BY <1>3 DEF ServerKeepsNames
  <2> HIDE DEF ok, has
  <2> QED BY <1>3, <1>6, <2>1 DEF IsCall
<1>10. \A x \in calls' : IsCall(x)
  BY <1>3, <1>6, <1>9
<1>11. ASSUME "raced" \notin tale' PROVE calls' = {d} /\ Pending(d)'
  <2>1. Pending(c) /\ calls = {c}
    BY <1>1, <1>2, <1>11 DEF PageInv, InTurn
  <2>2. calls' = {d}
    BY <1>6, <2>1
  <2>3. Pending(d)'
    <3> HIDE DEF put, rest, new
    <3>1. d.op = c.op /\ d.name = c.name /\ d.doc = c.doc /\ (d.answer = "ok" <=> ok) /\ (d.answer = "error" <=> ~ok)
          /\ (ok /\ c.op = "open" => d.gives = stored[c.name] /\ d.version = versions[c.name])
          /\ (c.op # "open" => d.version = c.version)
      <4> HIDE DEF ok
      <4> QED BY <1>6
    <3>2. CASE c.op \in {"create", "set"}
      BY <1>2, <1>4, <1>7, <2>1, <3>1, <3>2 DEF Pending
    <3>3. CASE c.op \notin {"create", "set", "delete"}
      <4>1. stored' = stored /\ versions' = versions
        BY <1>4, <3>3
      <4>2. TruePage => TruePage'
        BY <1>2, <4>1 DEF TruePage
      <4> QED BY <1>2, <2>1, <3>1, <3>3, <4>1, <4>2 DEF Pending
    <3>4. CASE c.op = "delete"
      BY <3>1, <3>4 DEF Pending
    <3> QED BY <3>2, <3>3, <3>4
  <2> QED BY <2>2, <2>3
<1>12. InTurn'
  BY <1>11 DEF InTurn
<1> QED BY <1>2, <1>3, <1>8, <1>10, <1>12 DEF PageInv

\* The page shows another scenario after the callback.
Replaces(c, ok) == (c.op = "open" /\ ok) \/ (c.op = "new" /\ ~ok /\ typed # NoName)

\* The callback of the one call: the page becomes what the answer says.
LEMMA CallbackKeeps ==
  ASSUME PageInv, NEW c \in calls, NEW ok \in BOOLEAN, Callback(c, ok),
         ok => c.answer = "ok",
         ~ok => c.answer = "error" \/ "lost" \in tale',
         "raced" \notin tale' => "raced" \notin tale,
         ~ok /\ c.op \in {"create", "set"} => tale' \cap {"lost", "refused"} # {},
         ~ok /\ c.op = "new" /\ typed # NoName /\ typed # c.name => tale' \cap {"lost", "retyped"} # {},
         "lost" \in tale => "lost" \in tale', "refused" \in tale => "refused" \in tale',
         ~Replaces(c, ok) => ("edited" \in tale => "edited" \in tale') /\ ("retyped" \in tale => "retyped" \in tale')
  PROVE  PageInv'
<1>1. calls' = calls \ {c} /\ stored' = stored /\ versions' = versions
  BY DEF Callback, server
<1>2. IsCall(c) /\ ServerKeepsNames /\ IsScenario(scenario) /\ \A x \in calls : IsCall(x)
  BY DEF PageInv
<1>3. ASSUME "raced" \notin tale' PROVE calls = {c} /\ calls' = {} /\ Pending(c)
  BY <1>1, <1>3 DEF PageInv, InTurn
<1>4. SUFFICES ASSUME TRUE PROVE IsScenario(scenario') /\ ("raced" \notin tale' => TruePage')
  BY <1>1, <1>2, <1>3 DEF PageInv, InTurn, ServerKeepsNames
<1>5. CASE c.op \in {"create", "set", "import"}
  <2>1. scenario' = scenario /\ version' = version /\ page' = IF ok THEN "LOADED" ELSE "NEW"
    BY <1>5 DEF Callback, setPageState
  <2>2. ASSUME "raced" \notin tale' PROVE TruePage'
    <3>1. Pending(c)
      BY <1>3, <2>2
    <3>2. CASE c.op \in {"create", "set"}
      BY <1>1, <1>2, <2>1, <3>1, <3>2 DEF Pending, TruePage, IsCall, Supported, Versions
    <3>3. CASE c.op = "import"
      BY <1>1, <1>2, <2>1, <3>1, <3>3 DEF Pending, TruePage, Replaces
    <3> QED BY <1>5, <3>2, <3>3
  <2> QED BY <1>2, <2>1, <2>2
<1>6. CASE c.op = "delete"
  <2>1. scenario' = createNewScenario("None", Game.fields) /\ page' = "IDLE"
    BY <1>6 DEF Callback, setPageState, changeScenario
  <2> QED BY <2>1, NewIs DEF TruePage
<1>7. CASE c.op = "new"
  <2>1. CASE ok \/ typed = NoName
    <3>1. scenario' = scenario /\ page' = page /\ version' = version
      BY <1>7, <2>1 DEF Callback
    <3>2. ("edited" \in tale => "edited" \in tale') /\ ("retyped" \in tale => "retyped" \in tale')
      BY <1>7, <2>1 DEF Replaces
    <3> QED BY <1>1, <1>2, <1>3, <1>7, <3>1, <3>2 DEF Pending, TruePage
  <2>2. CASE ~ok /\ typed # NoName
    <3>1. scenario' = createNewScenario(typed, Game.fields) /\ page' = "NEW"
      BY <1>7, <2>2 DEF Callback, setPageState, changeScenario
    <3>2. IsScenario(scenario') /\ Name(scenario)' = typed
      BY <3>1, NewIs DEF Name
    <3> QED BY <1>1, <1>3, <1>7, <2>2, <3>1, <3>2 DEF Pending, TruePage
  <2> QED BY <2>1, <2>2
<1>8. CASE c.op = "open"
  <2>1. CASE ok
    <3>1. scenario' = c.gives /\ version' = c.version /\ page' = "LOADED"
      BY <1>8, <2>1 DEF Callback, setPageState, changeScenario
    <3>2. IsScenario(scenario') /\ Name(scenario)' = c.name
      BY <1>2, <1>8, <2>1, <3>1 DEF Name, IsCall
    <3> QED BY <1>1, <1>3, <1>8, <2>1, <3>1, <3>2 DEF Pending, TruePage
  <2>2. CASE ~ok
    <3>1. scenario' = scenario /\ page' = page /\ version' = version
      BY <1>8, <2>2 DEF Callback
    <3>2. ("edited" \in tale => "edited" \in tale') /\ ("retyped" \in tale => "retyped" \in tale')
      BY <1>8, <2>2 DEF Replaces
    <3> QED BY <1>1, <1>2, <1>3, <1>8, <3>1, <3>2 DEF Pending, TruePage
  <2> QED BY <2>1, <2>2
<1> QED BY <1>2, <1>5, <1>6, <1>7, <1>8 DEF IsCall, Operations

\* An answer comes.
LEMMA AnsweredKeeps == ASSUME PageInv, Answered PROVE PageInv'
<1>1. PICK c \in calls :
        /\ c.answer # "none" /\ Callback(c, c.answer = "ok")
        /\ tale' = (tale \ IF Replaced(c) THEN {"edited", "retyped"} ELSE {})
                   \union (IF c.op = "new" /\ Replaced(c) /\ typed # c.name THEN {"retyped"} ELSE {})
                   \union IF c.op \in {"create", "set"} /\ c.answer = "error"
                          THEN {"refused"} ELSE {}
  BY DEF Answered
<1>2. c.answer \in {"ok", "error"}
  BY <1>1 DEF PageInv, IsCall
<1>3. PICK ok \in BOOLEAN : ok <=> c.answer = "ok"
  OBVIOUS
<1>4. Callback(c, ok)
  BY <1>1, <1>3
<1>5. /\ "raced" \notin tale' => "raced" \notin tale
      /\ ~ok /\ c.op \in {"create", "set"} => tale' \cap {"lost", "refused"} # {}
      /\ "lost" \in tale => "lost" \in tale'
      /\ "refused" \in tale => "refused" \in tale'
      /\ ~ok /\ c.op = "new" /\ typed # NoName /\ typed # c.name => tale' \cap {"lost", "retyped"} # {}
      /\ ~Replaces(c, ok) => ("edited" \in tale => "edited" \in tale') /\ ("retyped" \in tale => "retyped" \in tale')
  BY <1>1, <1>2, <1>3 DEF Replaced, Replaces
<1> QED BY <1>2, <1>3, <1>4, <1>5, CallbackKeeps

\* No answer comes.
LEMMA LostKeeps == ASSUME PageInv, Lost PROVE PageInv'
<1>1. PICK c \in calls : Callback(c, FALSE)
  BY DEF Lost
<1>2. tale' = tale \union {"lost"}
  BY DEF Lost, Note
<1> QED BY <1>1, <1>2, CallbackKeeps

\* Every step keeps the invariant.
LEMMA PageInvNext == PageInv /\ [CpNext]_cpVars => PageInv'
<1> SUFFICES ASSUME PageInv, [CpNext]_cpVars PROVE PageInv'
  OBVIOUS
<1>1. CASE EditForm
  BY <1>1, FormKeeps DEF EditForm, OnForm, onNewElement, onEditElement, onCancelElement,
                         onElementTypeChange, onUpdateElement, onCloneElement
<1>2. CASE ApplyForm
  BY <1>2, SaveElementKeeps, CloneElementKeeps, DeleteElementKeeps DEF ApplyForm
<1>3. CASE NewScenarioDialog
  BY <1>3, AskKeeps DEF NewScenarioDialog
<1>4. CASE OpenScenarioDialog
  BY <1>4, AskKeeps DEF OpenScenarioDialog
<1>5. CASE deleteScenario
  BY <1>5, AskKeeps DEF deleteScenario
<1>6. CASE UNCHANGED cpVars
  BY <1>6, FormKeeps DEF cpVars, server
<1>7. CASE changeScenarioName
  BY <1>7, FormKeeps DEF changeScenarioName
<1> QED BY <1>1, <1>2, <1>3, <1>4, <1>5, <1>6, <1>7, SaveKeeps, ImportKeeps, ServeKeeps, AnsweredKeeps, LostKeeps
        DEF CpNext, Dialogs

(* The scenarios keep their form and their names, and as long as calls do  *)
(* not cross, the one under way knows what the page and the server have.   *)
THEOREM PageInvariant == CpSpec => []PageInv
  BY PageInvInit, PageInvNext, PTL DEF CpSpec

(* The page says LOADED only of a scenario the server has, as it is shown   *)
(* and of its version, and NEW only of one it does not have: unless calls   *)
(* crossed, the scenario was changed since or is of an old version, an      *)
(* answer was lost, a save refused or another name typed meanwhile.         *)
THEOREM PageStaysTrue == CpSpec => []PageIsTrue
<1>1. PageInv => PageIsTrue
  BY DEF PageInv, InTurn, TruePage, PageIsTrue
<1> QED BY <1>1, PageInvariant, PTL
-----------------------------------------------------------------------------
\* The elements a step must not touch stand behind the scenario itself.
LEMMA OthersAre ==
  ASSUME IsScenario(scenario)
  PROVE  /\ Others \subseteq 2 .. Len(scenario) /\ Others \subseteq Shown(scenario)
         /\ Below \subseteq 2 .. Len(scenario) /\ Below \subseteq Shown(scenario)
         /\ Others \cap Opened = {} /\ Below \cap Opened = {}
<1>1. Nodes(scenario) = 1 .. Len(scenario) /\ Len(scenario) \in Nat
  BY ScenarioIs
<1>2. ASSUME NEW k \in Below PROVE k \in 2 .. Len(scenario)
  <2>1. k \in 1 .. Len(scenario) /\ k \notin Opened
    BY <1>1 DEF Below, Shown
  <2>2. PICK j \in Opened : j <= k
    BY DEF Below, InOpened
  <2>3. j \in 1 .. Len(scenario)
    BY <1>1, <2>2 DEF Opened, Shown
  <2> QED BY <1>1, <2>1, <2>2, <2>3
<1>3. ASSUME NEW k \in Others PROVE k \in 2 .. Len(scenario)
  BY <1>1 DEF Others, Shown
<1>4. ASSUME NEW k \in Others PROVE k \notin Opened
  <2>1. k \in 1 .. Len(scenario) /\ ~InOpened(k)
    BY <1>1 DEF Others, Shown
  <2>2. BlockEnd(scenario, k) \in k .. Len(scenario)
    BY <2>1, BlockEndIs
  <2> QED BY <1>1, <2>1, <2>2 DEF InOpened
<1> QED BY <1>2, <1>3, <1>4 DEF Others, Below

\* What stays with all that it is made of is kept.
LEMMA HeldIsKept ==
  ASSUME NEW t, NEW nodes, NEW some \in SUBSET nodes, Holds(scenario, t, nodes)
  PROVE  Kept(t, some)
<1>1. ASSUME NEW k \in some
      PROVE  \E j \in 2 .. Len(t) : /\ Element(t, j) = Element(scenario, k)
                                    /\ t[Above(t, j)].type \notin Hidden => Place(t, j) = Place(scenario, k)
  <2>1. PICK j \in 2 .. Len(t) : t[j] = scenario[k] /\ t[Above(t, j)] = scenario[Above(scenario, k)]
    BY DEF Holds, Stays
  <2> QED BY <2>1 DEF Element, Place
<1> QED BY <1>1 DEF Kept

\* A new element or a copy leaves all others.
LEMMA GrownIsKept ==
  ASSUME IsScenario(scenario), Grown(scenario, scenario')
  PROVE  Kept(scenario', Others) /\ Kept(scenario', Below)
  BY OthersAre, HeldIsKept DEF Grown

\* An update leaves the shown nodes but the one that is opened.
LEMMA UpdatedIsKept ==
  ASSUME IsScenario(scenario), Distinct(scenario), form # NoForm,
         NEW found, found = {k \in 2 .. Len(scenario) : scenario[k].id = form.id},
         NEW t, UpdatedTo(scenario, t, found),
         NEW some \in SUBSET (2 .. Len(scenario)), some \subseteq Shown(scenario), some \cap Opened = {}
  PROVE  Kept(t, some)
<1>1. Nodes(scenario) = 1 .. Len(scenario) /\ Len(scenario) \in Nat
  BY ScenarioIs
<1>2. IsScenario(t) /\ Len(t) = Len(scenario) /\ t[1].id = scenario[1].id
      /\ \A i \in 1 .. Len(scenario) : t[i].depth = scenario[i].depth /\ t[i].type = scenario[i].type
  BY DEF UpdatedTo, SameName
<1>3. found # {} => Min(found) \in found /\ Min(found) \in 1 .. Len(scenario)
  <2>1. found \in SUBSET (1 .. Len(scenario))
    BY <1>1
  <2> QED BY <1>1, <2>1, NumberBelow
<1>4. ASSUME NEW i \in 2 .. Len(scenario), i \in Shown(scenario)
      PROVE  t[i] = scenario[i] \/ (i \in Opened /\ t[i].id = scenario[i].id)
  <2>1. CASE found # {} /\ i = Min(found) /\ t[i].id = scenario[i].id
    <3>1. scenario[i].id = form.id
      BY <1>3, <2>1
    <3> QED BY <1>4, <2>1, <3>1 DEF Opened
  <2>2. CASE found # {} /\ scenario[i].id \in HiddenIn(scenario[Min(found)].name)
    <3>1. scenario[Min(found)].name \in NamesOf(scenario)
      BY <1>1, <1>3, <2>2 DEF NamesOf
    <3>2. scenario[i].id \in {scenario[k].id : k \in Shown(scenario)}
      BY <1>4
    <3>3. scenario[i].id \in UNION {HiddenIn(n) : n \in NamesOf(scenario)}
      BY <2>2, <3>1
    <3> QED BY <3>2, <3>3 DEF Distinct
  <2> QED BY <2>1, <2>2 DEF UpdatedTo
<1>5. ASSUME NEW k \in some
      PROVE  \E j \in 2 .. Len(t) : /\ Element(t, j) = Element(scenario, k)
                                    /\ t[Above(t, j)].type \notin Hidden => Place(t, j) = Place(scenario, k)
  <2>1. k \in 2 .. Len(scenario) /\ k \in Shown(scenario) /\ k \notin Opened /\ k \in 2 .. Len(t)
    BY <1>2
  <2>2. Element(t, k) = Element(scenario, k)
    BY <1>4, <2>1 DEF Element
  <2>3. PICK p : p = Above(scenario, k)
    OBVIOUS
  <2>4. p \in 1 .. Len(scenario)
    <3>1. Encloses(scenario, p, k)
      BY <2>1, <2>3, AboveIs
    <3> QED BY <1>1, <2>1, <3>1 DEF Encloses
  <2>5. Above(t, k) = p
    <3>1. Len(scenario) \in 1 .. Len(scenario) /\ Len(scenario) <= Len(t)
      BY <1>1, <1>2, <2>1
    <3> QED BY <1>2, <2>1, <2>3, <3>1, BeforeSplice
  <2>6. ASSUME t[p].type \notin Hidden PROVE t[p].id = scenario[p].id
    <3>1. p \in Shown(scenario)
      BY <1>1, <1>2, <2>4, <2>6 DEF Shown
    <3>2. p = 1 \/ p \in 2 .. Len(scenario)
      BY <1>1, <2>4
    <3> QED BY <1>2, <1>4, <3>1, <3>2
  <2> QED BY <2>1, <2>2, <2>3, <2>5, <2>6 DEF Place
<1> QED BY <1>5 DEF Kept

\* What is removed is the opened element, when it is removed under its name.
LEMMA RemovedIsOpened ==
  ASSUME IsScenario(scenario), Distinct(scenario),
         scenario' = removeElementFromScenario(scenario, form.name),
         NEW o \in Opened, scenario[o].name = form.name
  PROVE  Kept(scenario', Others)
<1>1. Nodes(scenario) = 1 .. Len(scenario) /\ Len(scenario) \in Nat
  BY ScenarioIs
<1>2. PICK found : found = {k \in 2 .. Len(scenario) : scenario[k].name = form.name}
  OBVIOUS
<1>3. /\ found = {} => scenario' = scenario
      /\ found # {} => /\ Min(found) \in found
                       /\ Holds(scenario, scenario', {i \in 2 .. Len(scenario) :
                                     i < Min(found) \/ i > BlockEnd(scenario, Min(found))})
  <2>1. Without(scenario, scenario', found)
    BY <1>2, RemoveKeeps
  <2> QED BY <2>1 DEF Without
<1>4. CASE found = {}
  <2>1. Grown(scenario, scenario')
    BY <1>3, <1>4, GrownSame
  <2> QED BY <2>1, GrownIsKept
<1>5. CASE found # {}
  <2> DEFINE k == Min(found)
             nodes == {i \in 2 .. Len(scenario) : i < k \/ i > BlockEnd(scenario, k)}
  <2>1. k \in 1 .. Len(scenario) /\ scenario[k].name = form.name
    <3> HIDE DEF k
    <3> QED BY <1>1, <1>2, <1>3, <1>5 DEF k
  <2>2. Holds(scenario, scenario', nodes)
    BY <1>3, <1>5
  <2> HIDE DEF k
  <2>3. o = k
    BY <1>1, <2>1 DEF Distinct, Opened
  <2>4. ASSUME NEW i \in Others PROVE i \in nodes
    <3>1. i \in 2 .. Len(scenario) /\ ~(k <= i /\ i <= BlockEnd(scenario, k))
      BY <2>3, OthersAre DEF Others, InOpened
    <3>2. BlockEnd(scenario, k) \in Int
      BY <1>1, <2>1, BlockEndIs
    <3> QED BY <1>1, <2>1, <3>1, <3>2
  <2> HIDE DEF nodes
  <2> QED BY <2>2, <2>4, HeldIsKept
<1> QED BY <1>4, <1>5

\* What a step of the form leaves.
Spares ==
  /\ \/ Kept(scenario', Others)
     \/ did' = "delete" /\ \A k \in Opened : scenario[k].name # form.name
  /\ did' # "delete" => Kept(scenario', Below)

\* Every step but those of the form leaves did at nothing, or as it is.
LEMMA FormSpares ==
  ASSUME PageInv, CpNext, did' # "nothing", Distinct(scenario)
  PROVE  did' = did \/ Spares
<1>1. IsScenario(scenario)
  BY DEF PageInv
<1>2. CASE onSaveElement
  <2>1. did' = "save" /\ form # NoForm
    BY <1>2 DEF onSaveElement, OnScenario, NoForm
  <2>2. CASE form.mode = "NEW"
    <3>1. Grown(scenario, scenario')
      BY <1>1, <1>2, <2>2, AddGrows DEF onSaveElement, changeScenario
    <3> QED BY <1>1, <3>1, GrownIsKept DEF Spares
  <2>3. CASE form.mode # "NEW"
    <3>1. scenario' = updateElementInScenario(scenario, form.id, form.name, form.vals)
      BY <1>2, <2>3 DEF onSaveElement, changeScenario
    <3>2. PICK found : found = {k \in 2 .. Len(scenario) : scenario[k].id = form.id}
      OBVIOUS
    <3>3. UpdatedTo(scenario, scenario', found)
      BY <1>1, <3>1, <3>2, UpdateKeeps
    <3>4. Kept(scenario', Others)
      BY <1>1, <2>1, <3>2, <3>3, OthersAre, UpdatedIsKept
    <3>5. Kept(scenario', Below)
      BY <1>1, <2>1, <3>2, <3>3, OthersAre, UpdatedIsKept
    <3> QED BY <3>4, <3>5 DEF Spares
  <2> QED BY <2>2, <2>3
<1>3. CASE onApplyCloneElement
  <2>1. Grown(scenario, scenario')
    BY <1>1, <1>3, CloneGrows DEF onApplyCloneElement, changeScenario
  <2> QED BY <1>1, <2>1, GrownIsKept DEF Spares
<1>4. CASE onDeleteElement
  <2>1. did' = "delete" /\ scenario' = removeElementFromScenario(scenario, form.name)
    BY <1>4 DEF onDeleteElement, OnScenario, changeScenario
  <2> QED BY <1>1, <2>1, RemovedIsOpened DEF Spares
<1>5. CASE EditForm
  BY <1>5 DEF EditForm, OnForm, onNewElement, onEditElement, onCancelElement, onElementTypeChange,
              onUpdateElement, onCloneElement
<1>6. CASE Dialogs
  BY <1>6 DEF Dialogs, Send, changeScenarioName, NewScenarioDialog, OpenScenarioDialog, saveScenario, deleteScenario,
              onScenarioInputChange
<1>7. CASE Serve \/ Answered \/ Lost
  BY <1>7 DEF Serve, Answered, Lost, Callback
<1> QED BY <1>2, <1>3, <1>4, <1>5, <1>6, <1>7 DEF CpNext, ApplyForm

(* A step of the form touches the element it is open on: every other one    *)
(* keeps its id, name, type, data and place.                                *)
THEOREM OthersAreSpared == CpSpec => OnlyTheOpened
<1>1. PageInv /\ [CpNext]_cpVars =>
        [(did' # "nothing" /\ Distinct(scenario)) =>
            /\ \/ Kept(scenario', Others)
               \/ did' = "delete" /\ \A k \in Opened : scenario[k].name # form.name
            /\ did' # "delete" => Kept(scenario', Below)]_did
  BY FormSpares DEF Spares, cpVars
<1> QED BY <1>1, PageInvariant, PTL DEF CpSpec, OnlyTheOpened
-----------------------------------------------------------------------------
(* The calls.                                                               *)

(* The way of a path through the tables.                                    *)
IsPath(p) == p \in Seq({p[k] : k \in DOMAIN p})

\* at is the way of the first n keys of a path.
Leads(at, n, tables, of, path) ==
  at = [k \in 1 .. n |->
          IF k = 1 THEN of
          ELSE IF Has(tables, at[k - 1], path[k - 1]) THEN tables[at[k - 1]][path[k - 1]].of ELSE NoModel]

\* One key more.
LEMMA OneKeyMore ==
  ASSUME NEW n \in Nat, NEW at, NEW tables, NEW of, NEW path, Leads(at, n, tables, of, path)
  PROVE  \E to : Leads(to, n + 1, tables, of, path)
<1> DEFINE More(i, g) == IF i = 1 THEN of
                         ELSE IF Has(tables, g[i - 1], path[i - 1]) THEN tables[g[i - 1]][path[i - 1]].of
                         ELSE NoModel
           to == [i \in 1 .. n + 1 |-> IF i = n + 1 THEN More(n + 1, at) ELSE at[i]]
<1>1. ASSUME NEW i \in 1 .. n + 1
      PROVE  to[i] = More(i, to)
  <2>1. CASE i = n + 1
    <3>1. to[i] = More(n + 1, at) /\ i - 1 = n
      BY <2>1
    <3>2. i # 1 => to[i - 1] = at[i - 1]
      <4>1. i # 1 => i - 1 \in 1 .. n + 1 /\ i - 1 # n + 1
        BY <2>1
      <4> HIDE DEF More
      <4> QED BY <4>1
    <3> HIDE DEF to
    <3> QED BY <2>1, <3>1, <3>2
  <2>2. CASE i # n + 1
    <3>1. i \in 1 .. n
      BY <2>2
    <3>2. at[i] = More(i, at)
      BY <3>1, Zenon DEF Leads
    <3>3. to[i] = at[i] /\ (i # 1 => to[i - 1] = at[i - 1])
      <4>1. i # n + 1 /\ (i # 1 => i - 1 \in 1 .. n + 1 /\ i - 1 # n + 1)
        BY <2>2, <3>1
      <4> HIDE DEF More
      <4> QED BY <4>1
    <3> HIDE DEF to
    <3> QED BY <3>1, <3>2, <3>3
  <2> QED BY <2>1, <2>2
<1>2. to = [i \in 1 .. n + 1 |-> to[i]]
  OBVIOUS
<1> HIDE DEF to
<1>3. to = [i \in 1 .. n + 1 |-> More(i, to)]
  BY <1>1, <1>2, Zenon
<1>4. Leads(to, n + 1, tables, of, path)
  BY <1>3, Zenon DEF Leads
<1> QED BY <1>4

\* The recursive function of the way exists.
LEMMA WayLeads ==
  ASSUME NEW tables, NEW of, NEW path, IsPath(path)
  PROVE  /\ Len(path) \in Nat /\ DOMAIN path = 1 .. Len(path)
         /\ Leads(Way(tables, of, path), Len(path), tables, of, path)
<1> DEFINE n == Len(path)
           T == {m \in 0 .. n : \E f : Leads(f, m, tables, of, path)}
           nothing == [k \in 1 .. 0 |-> of]
<1>1. n \in Nat /\ DOMAIN path = 1 .. n
  BY DEF IsPath
<1>2. 0 \in T
  <2>1. nothing = [k \in 1 .. 0 |->
          IF k = 1 THEN of
          ELSE IF Has(tables, nothing[k - 1], path[k - 1]) THEN tables[nothing[k - 1]][path[k - 1]].of ELSE NoModel]
    OBVIOUS
  <2>2. Leads(nothing, 0, tables, of, path)
    <3> HIDE DEF nothing
    <3> QED BY <2>1, Zenon DEF Leads
  <2> HIDE DEF nothing
  <2> QED BY <1>1, <2>2
<1>3. ASSUME NEW m \in 0 .. n, m \in T, m < n
      PROVE  m + 1 \in T
  <2>1. m \in Nat /\ \E f : Leads(f, m, tables, of, path)
    BY <1>3
  <2>2. \E f : Leads(f, m + 1, tables, of, path)
    BY <2>1, OneKeyMore, Zenon
  <2> QED BY <1>1, <1>3, <2>2
<1>4. \E f : Leads(f, n, tables, of, path)
  <2>1. \A m \in 0 .. n : m \in T
    <3> HIDE DEF T, n
    <3> QED BY <1>1, <1>2, <1>3, UpTo
  <2>2. n \in 0 .. n
    BY <1>1
  <2>3. n \in T
    <3> HIDE DEF T, n
    <3> QED BY <2>1, <2>2
  <2> QED BY <2>3
<1> HIDE DEF n
<1>5. Way(tables, of, path) = CHOOSE at : Leads(at, n, tables, of, path)
  <2>1. Way(tables, of, path) =
          CHOOSE at : at = [k \in DOMAIN path |->
            IF k = 1 THEN of
            ELSE IF Has(tables, at[k - 1], path[k - 1]) THEN tables[at[k - 1]][path[k - 1]].of ELSE NoModel]
    BY Zenon DEF Way
  <2> QED BY <1>1, <2>1, Zenon DEF Leads
<1>6. Leads(Way(tables, of, path), n, tables, of, path)
  BY <1>4, <1>5, Zenon
<1> QED BY <1>1, <1>6 DEF n

\* The first key is one of the first model, every other of the model that the
\* key before it leads to.
LEMMA WayIs ==
  ASSUME NEW tables, NEW of, NEW path, IsPath(path)
  PROVE  /\ Len(path) \in Nat /\ DOMAIN path = 1 .. Len(path)
         /\ \A k \in 1 .. Len(path) :
              /\ k = 1 => Way(tables, of, path)[k] = of
              /\ k # 1 /\ Has(tables, Way(tables, of, path)[k - 1], path[k - 1])
                   => Way(tables, of, path)[k] = FieldAt(tables, of, path, k - 1).of
<1> DEFINE at == Way(tables, of, path)
<1>1. Len(path) \in Nat /\ DOMAIN path = 1 .. Len(path) /\ Leads(at, Len(path), tables, of, path)
  BY WayLeads
<1>2. ASSUME NEW k \in 1 .. Len(path)
      PROVE  at[k] = IF k = 1 THEN of
                     ELSE IF Has(tables, at[k - 1], path[k - 1]) THEN tables[at[k - 1]][path[k - 1]].of ELSE NoModel
  <2> HIDE DEF at
  <2> QED BY <1>1, <1>2, Zenon DEF Leads
<1> QED BY <1>1, <1>2 DEF FieldAt

(* All keys of a path are in the tables, all but the last lead to a model.  *)
OnWay(tables, of, path) ==
  \A k \in 1 .. Len(path) :
    /\ Has(tables, Way(tables, of, path)[k], path[k])
    /\ k < Len(path) => FieldAt(tables, of, path, k).kind = "model"

\* Such a path is known to its end, and no other is.
LEMMA KnownIs ==
  ASSUME NEW tables, NEW of, NEW path, IsPath(path)
  PROVE  Known(tables, of, path) = Len(path) <=>
           \A k \in 1 .. Len(path) : Has(tables, Way(tables, of, path)[k], path[k])
<1> DEFINE T == {k \in DOMAIN path : ~Has(tables, Way(tables, of, path)[k], path[k])}
           S == T \union {Len(path) + 1}
<1>1. Len(path) \in Nat /\ DOMAIN path = 1 .. Len(path)
  BY WayIs
<1>2. S \in SUBSET Nat /\ S # {} /\ T \subseteq 1 .. Len(path)
  BY <1>1
<1>3. Known(tables, of, path) = Min(S) - 1
  BY DEF Known
<1>4. Min(S) \in S /\ \A k \in S : Min(S) <= k
  <2> HIDE DEF S
  <2> QED BY <1>2, MinIs
<1>5. Min(S) \in Nat
  <2> HIDE DEF T
  <2> QED BY <1>1, <1>2, <1>4
<1>6. Known(tables, of, path) = Len(path) <=> Min(S) = Len(path) + 1
  <2> HIDE DEF S
  <2> QED BY <1>1, <1>3, <1>5
<1>7. Min(S) = Len(path) + 1 <=> T = {}
  <2> DEFINE m == Min(S)
  <2>1. m \in T \union {Len(path) + 1} /\ \A k \in T : m <= k
    BY <1>4
  <2>2. T = {} => m = Len(path) + 1
    BY <2>1
  <2>3. m = Len(path) + 1 => T = {}
    <3> HIDE DEF m, T
    <3> QED BY <1>1, <1>2, <2>1
  <2> QED BY <2>2, <2>3
<1> QED BY <1>1, <1>6, <1>7

\* Two ways along the same keys meet as long as the fields lead on alike.
LEMMA WaysMeet ==
  ASSUME NEW a, NEW b, NEW of, NEW p, NEW q, IsPath(p), IsPath(q), Len(q) <= Len(p),
         \A k \in 1 .. Len(q) : q[k] = p[k],
         \A k \in 1 .. Len(q) : k < Len(q) =>
           /\ Has(a, Way(a, of, p)[k], p[k]) /\ Has(b, Way(a, of, p)[k], p[k])
           /\ a[Way(a, of, p)[k]][p[k]].of = b[Way(a, of, p)[k]][p[k]].of
  PROVE  \A k \in 1 .. Len(q) : Way(b, of, q)[k] = Way(a, of, p)[k]
<1> DEFINE A == Way(a, of, p)
           B == Way(b, of, q)
           n == Len(q)
           T == {k \in 0 .. n : k = 0 \/ B[k] = A[k]}
<1>1. /\ Len(p) \in Nat /\ n \in Nat
      /\ \A k \in 1 .. Len(p) :
           /\ k = 1 => A[k] = of
           /\ k # 1 /\ Has(a, A[k - 1], p[k - 1]) => A[k] = a[A[k - 1]][p[k - 1]].of
      /\ \A k \in 1 .. n :
           /\ k = 1 => B[k] = of
           /\ k # 1 /\ Has(b, B[k - 1], q[k - 1]) => B[k] = b[B[k - 1]][q[k - 1]].of
  BY WayIs DEF FieldAt
<1>2. \A k \in 1 .. n : k < n => Has(a, A[k], p[k]) /\ Has(b, A[k], p[k]) /\ a[A[k]][p[k]].of = b[A[k]][p[k]].of
  OBVIOUS
<1> HIDE DEF A, B
<1>3. ASSUME NEW k \in 0 .. n, k \in T, k < n
      PROVE  k + 1 \in T
  <2>1. k + 1 \in 1 .. n /\ k + 1 \in 1 .. Len(p) /\ k + 1 \in 0 .. n /\ k + 1 - 1 = k
    BY <1>1, <1>3
  <2>2. CASE k = 0
    BY <1>1, <2>1, <2>2
  <2>3. CASE k # 0
    <3>1. k \in 1 .. n /\ B[k] = A[k] /\ q[k] = p[k]
      BY <1>3, <2>3
    <3>2. Has(a, A[k], p[k]) /\ Has(b, A[k], p[k]) /\ a[A[k]][p[k]].of = b[A[k]][p[k]].of
      BY <1>2, <1>3, <3>1
    <3>3. k + 1 # 1
      BY <2>1, <3>1
    <3>4. A[k + 1] = a[A[k]][p[k]].of
      BY <1>1, <2>1, <3>2, <3>3
    <3>5. B[k + 1] = b[A[k]][p[k]].of
      BY <1>1, <2>1, <3>1, <3>2, <3>3
    <3> QED BY <2>1, <3>2, <3>4, <3>5
  <2> QED BY <2>2, <2>3
<1>4. 0 \in T
  BY <1>1
<1>5. \A k \in 0 .. n : k \in T
  <2> HIDE DEF T, n
  <2> QED BY <1>1, <1>3, <1>4, UpTo
<1>6. ASSUME NEW k \in 1 .. n PROVE B[k] = A[k]
  <2>1. k \in 0 .. n /\ k # 0
    BY <1>1
  <2> QED BY <1>5, <2>1
<1> QED BY <1>6 DEF A, B

\* Without its last key a path leads the same way.
LEMMA CutWay ==
  ASSUME NEW a, NEW of, NEW p, IsPath(p), p # <<>>, OnWay(a, of, p)
  PROVE  LET q == SubSeq(p, 1, Len(p) - 1)
         IN  /\ IsPath(q) /\ Len(q) = Len(p) - 1 /\ Len(p) \in Nat /\ Len(p) >= 1
             /\ OnWay(a, of, q)
             /\ q # <<>> => /\ FieldAt(a, of, q, Len(q)) = FieldAt(a, of, p, Len(p) - 1)
                            /\ FieldAt(a, of, q, Len(q)).kind = "model"
<1> DEFINE q == SubSeq(p, 1, Len(p) - 1)
           S == {p[k] : k \in DOMAIN p}
<1>1. p \in Seq(S)
  BY DEF IsPath
<1> HIDE DEF S
<1>2. Len(p) \in Nat /\ Len(p) >= 1
  BY <1>1
<1>3. q \in Seq(S) /\ Len(q) = Len(p) - 1 /\ \A k \in 1 .. Len(q) : q[k] = p[k]
  <2>1. PICK e \in Nat : e = Len(p) - 1
    BY <1>2
  <2>2. e <= Len(p) /\ q = SubSeq(p, 1, e)
    BY <1>2, <2>1
  <2> HIDE DEF q
  <2>3. q \in Seq(S)
    BY <1>1, <1>2, <2>2
  <2>4. Len(q) = e
    BY <1>1, <1>2, <2>2
  <2>5. \A k \in 1 .. e : q[k] = p[k]
    BY <1>1, <1>2, <2>2
  <2> QED BY <2>1, <2>3, <2>4, <2>5
<1>4. IsPath(q)
  <2> HIDE DEF q
  <2> QED BY <1>3 DEF IsPath
<1> HIDE DEF q
<1>5. \A k \in 1 .. Len(q) : k \in 1 .. Len(p) /\ k < Len(p)
  BY <1>2, <1>3
<1>6. \A k \in 1 .. Len(q) : Has(a, Way(a, of, p)[k], p[k]) /\ FieldAt(a, of, p, k).kind = "model"
  BY <1>5 DEF OnWay
<1>7. \A k \in 1 .. Len(q) : Way(a, of, q)[k] = Way(a, of, p)[k]
  <2>1. Len(q) <= Len(p)
    BY <1>2, <1>3
  <2>2. \A k \in 1 .. Len(q) : k < Len(q) =>
          /\ Has(a, Way(a, of, p)[k], p[k]) /\ Has(a, Way(a, of, p)[k], p[k])
          /\ a[Way(a, of, p)[k]][p[k]].of = a[Way(a, of, p)[k]][p[k]].of
    BY <1>6
  <2>3. \A k \in 1 .. Len(q) : q[k] = p[k]
    BY <1>3
  <2> QED BY <1>4, <2>1, <2>2, <2>3, WaysMeet
<1>8. \A k \in 1 .. Len(q) : FieldAt(a, of, q, k) = FieldAt(a, of, p, k)
  BY <1>3, <1>7 DEF FieldAt
<1>9. OnWay(a, of, q)
  BY <1>3, <1>6, <1>7, <1>8 DEF OnWay
<1>10. q # <<>> => Len(q) \in 1 .. Len(q)
  BY <1>2, <1>3
<1> QED BY <1>2, <1>3, <1>4, <1>6, <1>8, <1>9, <1>10 DEF q

(* Two tables that lead on alike from the models in types.                  *)
Alike(a, b, types) ==
  \A m \in types :
    /\ m \in DOMAIN a /\ m \in DOMAIN b /\ DOMAIN a[m] = DOMAIN b[m]
    /\ \A k \in DOMAIN a[m] :
         /\ a[m][k].of = b[m][k].of /\ (a[m][k].kind = "model" <=> b[m][k].kind = "model")
         /\ a[m][k].kind = "model" => a[m][k].of \in types

\* The models and the structs do, in both directions.
LEMMA MirrorIsAlike ==
  ASSUME NEW models, NEW structs, NEW types, Mirror(models, structs, types)
  PROVE  Alike(models, structs, types) /\ Alike(structs, models, types)
<1>1. ASSUME NEW m \in types
      PROVE  /\ m \in DOMAIN models /\ m \in DOMAIN structs /\ DOMAIN models[m] = DOMAIN structs[m]
             /\ \A k \in DOMAIN models[m] :
                  /\ models[m][k].of = structs[m][k].of
                  /\ models[m][k].kind = "model" <=> structs[m][k].kind = "model"
                  /\ models[m][k].kind = "model" => models[m][k].of \in types
  BY <1>1 DEF Mirror, SameField
<1> QED BY <1>1 DEF Alike

\* In tables that lead on alike a path leads the same way.
LEMMA SameWay ==
  ASSUME NEW a, NEW b, NEW types, Alike(a, b, types), NEW of \in types, NEW p, IsPath(p), OnWay(a, of, p)
  PROVE  /\ \A k \in 1 .. Len(p) : /\ Way(b, of, p)[k] = Way(a, of, p)[k] /\ Way(a, of, p)[k] \in types
                                   /\ p[k] \in DOMAIN a[Way(a, of, p)[k]]
         /\ OnWay(b, of, p)
<1> DEFINE A == Way(a, of, p)
           n == Len(p)
           T == {k \in 0 .. n : k = 0 \/ A[k] \in types}
<1>1. /\ n \in Nat
      /\ \A k \in 1 .. n :
           /\ k = 1 => A[k] = of
           /\ k # 1 /\ Has(a, A[k - 1], p[k - 1]) => A[k] = a[A[k - 1]][p[k - 1]].of
  BY WayIs DEF FieldAt
<1>2. \A k \in 1 .. n : Has(a, A[k], p[k]) /\ (k < n => a[A[k]][p[k]].kind = "model")
  BY DEF OnWay, FieldAt
<1> HIDE DEF A
<1>3. ASSUME NEW k \in 0 .. n, k \in T, k < n
      PROVE  k + 1 \in T
  <2>1. k + 1 \in 1 .. n /\ k + 1 \in 0 .. n /\ k + 1 - 1 = k
    BY <1>1, <1>3
  <2>2. CASE k = 0
    BY <1>1, <2>1, <2>2
  <2>3. CASE k # 0
    <3>1. k \in 1 .. n /\ A[k] \in types /\ k + 1 # 1
      BY <1>3, <2>3
    <3>2. Has(a, A[k], p[k]) /\ a[A[k]][p[k]].kind = "model"
      BY <1>2, <1>3, <3>1
    <3>3. A[k + 1] = a[A[k]][p[k]].of
      BY <1>1, <2>1, <3>1, <3>2
    <3>4. a[A[k]][p[k]].of \in types
      BY <3>1, <3>2 DEF Alike, Has
    <3> QED BY <2>1, <3>3, <3>4
  <2> QED BY <2>2, <2>3
<1>4. 0 \in T
  BY <1>1
<1>5. \A k \in 0 .. n : k \in T
  <2> HIDE DEF T, n
  <2> QED BY <1>1, <1>3, <1>4, UpTo
<1>6. ASSUME NEW k \in 1 .. n
      PROVE  /\ A[k] \in types /\ Has(b, A[k], p[k]) /\ p[k] \in DOMAIN a[A[k]]
             /\ a[A[k]][p[k]].of = b[A[k]][p[k]].of
             /\ k < n => b[A[k]][p[k]].kind = "model"
  <2>1. k \in 0 .. n /\ k # 0
    BY <1>1
  <2>2. A[k] \in types
    BY <1>5, <2>1
  <2>3. Has(a, A[k], p[k]) /\ (k < n => a[A[k]][p[k]].kind = "model")
    BY <1>2
  <2> QED BY <2>2, <2>3 DEF Alike, Has
<1>7. \A k \in 1 .. n : Way(b, of, p)[k] = A[k]
  <2>1. n <= n
    BY <1>1
  <2> QED BY <1>2, <1>6, <2>1, WaysMeet DEF A
<1>8. OnWay(b, of, p)
  BY <1>6, <1>7 DEF OnWay, FieldAt
<1> QED BY <1>6, <1>7, <1>8 DEF A
-----------------------------------------------------------------------------
(* What becomes of a document on its way.                                   *)

(* A document of a type: its path is in the tables, and its value of the    *)
(* class of the last key.                                                   *)
Fits(tables, of, d) ==
  /\ d = Doc(d.path, d.leaf) /\ IsPath(d.path)
  /\ \/ d.path = <<>> /\ d.leaf = "eobj"
     \/ /\ d.path # <<>> /\ OnWay(tables, of, d.path)
        /\ d.leaf \in ValuesOf(FieldAt(tables, of, d.path, Len(d.path)))

IsField(f) == f.kind \in {"text", "int", "float", "flag", "dict", "model"} /\ f.deep \in Nat

\* No value is the mark of a failure.
LEMMA ValuesAre ==
  ASSUME NEW f, IsField(f), NEW v \in ValuesOf(f)
  PROVE  v \notin {"error", "null", "nan", "none"}
  BY DEF IsField, ValuesOf, Texty, Numeric, Integral

\* What is left of a model without its last key.
LEMMA ModelValue ==
  ASSUME NEW f, IsField(f), f.kind = "model"
  PROVE  "eobj" \in ValuesOf(f)
  BY DEF IsField, ValuesOf

\* A value of a struct's field is converted to itself, and a value of a
\* model's field can be read unless it is a fraction.
LEMMA ValuesConvert ==
  ASSUME NEW f, NEW g, SameField(f, g)
  PROVE  /\ IsField(f) /\ IsField(g)
         /\ \A v \in ValuesOf(g) : convertToType(f, v) = v /\ v \in ValuesOf(f)
         /\ \A v \in ValuesOf(f) : Readable(g, v) \/ v = "frac"
         /\ \A v \in ValuesOf(f) : Readable(g, v) => v \in ValuesOf(g)
<1>1. IsField(f) /\ IsField(g) /\ f.deep = g.deep /\ (f.kind = g.kind \/ (f.kind = "float" /\ g.kind = "int"))
  BY DEF SameField, IsField
<1>2. ASSUME NEW v \in ValuesOf(f) PROVE v # "null"
  BY <1>1, <1>2, ValuesAre
<1>3. CASE f.deep > 0
  BY <1>1, <1>2, <1>3 DEF ValuesOf, convertToType, Readable
<1>4. CASE ~ (f.deep > 0)
  <2>1. f.deep = 0 /\ g.deep = 0
    BY <1>1, <1>4 DEF IsField
  <2> QED BY <1>1, <1>2, <2>1 DEF IsField, ValuesOf, convertToType, Readable, Texty, Numeric, Integral
<1> QED BY <1>1, <1>3, <1>4

\* Whether two documents say the same hangs on the value and on how many keys
\* lead to it.
LEMMA SameIs ==
  ASSUME NEW c, NEW d, IsPath(c.path), IsPath(d.path), c.leaf = d.leaf, Len(c.path) = Len(d.path)
  PROVE  Same(c, d)
<1>1. \A p : IsPath(p) => Len(p) \in Nat /\ (p = <<>> <=> Len(p) = 0) /\ (p # <<>> => Len(SubSeq(p, 1, Len(p) - 1)) = Len(p) - 1)
  <2> SUFFICES ASSUME NEW p, IsPath(p)
               PROVE  Len(p) \in Nat /\ (p = <<>> <=> Len(p) = 0) /\ (p # <<>> => Len(SubSeq(p, 1, Len(p) - 1)) = Len(p) - 1)
    OBVIOUS
  <2> DEFINE S == {p[k] : k \in DOMAIN p}
  <2>1. p \in Seq(S)
    BY DEF IsPath
  <2> HIDE DEF S
  <2>2. Len(p) \in Nat /\ (p = <<>> <=> Len(p) = 0)
    BY <2>1
  <2>3. ASSUME p # <<>> PROVE Len(SubSeq(p, 1, Len(p) - 1)) = Len(p) - 1
    <3>1. Len(p) - 1 \in Nat
      BY <2>2, <2>3
    <3> PICK e \in Nat : e = Len(p) - 1
      BY <3>1
    <3>2. Len(SubSeq(p, 1, e)) = e
      BY <2>1, <2>2, <3>1
    <3> QED BY <3>2
  <2> QED BY <2>2, <2>3
<1>2. c.path = <<>> <=> d.path = <<>>
  BY <1>1
<1>3. c.path # <<>> => Len(SubSeq(c.path, 1, Len(c.path) - 1)) = Len(SubSeq(d.path, 1, Len(d.path) - 1))
  BY <1>1, <1>2
<1> QED BY <1>2, <1>3 DEF Same, Trimmed, WithoutLeaf, Doc

\* The fields along a path are fields.
FieldsAre(tables, types) == \A m \in types : \A k \in DOMAIN tables[m] : IsField(tables[m][k])

\* An encoded document fits as well, and says the same.
LEMMA EncodeFits ==
  ASSUME NEW structs, NEW types, FieldsAre(structs, types), Alike(structs, structs, types),
         NEW of \in types, NEW d, Fits(structs, of, d)
  PROVE  LET e == Encode(structs, of, d)
         IN  Fits(structs, of, e) /\ Trimmed(e) = Trimmed(d)
<1> DEFINE p == d.path
           q == SubSeq(p, 1, Len(p) - 1)
           e == Encode(structs, of, d)
<1>1. CASE e = d
  BY <1>1
<1>2. CASE e # d
  <2>1. e = WithoutLeaf(d) /\ p # <<>> /\ d.leaf \in Empties
    BY <1>2 DEF Encode, Trimmed
  <2>2. e.path = q /\ e.leaf = "eobj" /\ e = Doc(e.path, e.leaf)
    BY <2>1 DEF WithoutLeaf, Doc
  <2>3. Trimmed(e) = e /\ Trimmed(d) = e
    BY <2>1, <2>2 DEF Trimmed, Empties
  <2>4. IsPath(p) /\ OnWay(structs, of, p)
    BY <2>1 DEF Fits
  <2>5. /\ IsPath(q) /\ OnWay(structs, of, q) /\ Len(q) \in Nat
        /\ q # <<>> => FieldAt(structs, of, q, Len(q)).kind = "model" /\ Len(q) \in 1 .. Len(q)
    <3>1. IsPath(q) /\ OnWay(structs, of, q) /\ (q # <<>> => FieldAt(structs, of, q, Len(q)).kind = "model")
      BY <2>1, <2>4, CutWay
    <3> HIDE DEF q
    <3>2. Len(q) \in Nat /\ (q # <<>> => Len(q) \in 1 .. Len(q))
      BY <3>1 DEF IsPath
    <3> QED BY <3>1, <3>2
  <2>6. ASSUME q # <<>> PROVE "eobj" \in ValuesOf(FieldAt(structs, of, q, Len(q)))
    <3> HIDE DEF q
    <3>1. /\ Way(structs, of, q)[Len(q)] \in types
          /\ q[Len(q)] \in DOMAIN structs[Way(structs, of, q)[Len(q)]]
      BY <2>5, <2>6, SameWay
    <3>2. IsField(FieldAt(structs, of, q, Len(q)))
      BY <3>1 DEF FieldsAre, FieldAt
    <3> QED BY <2>5, <2>6, <3>2, ModelValue
  <2> HIDE DEF e, q
  <2>7. Fits(structs, of, e)
    BY <2>2, <2>5, <2>6 DEF Fits
  <2> QED BY <2>3, <2>7 DEF e
<1> QED BY <1>1, <1>2

\* The fields that the last key of a path has on both sides.
LEMMA LastFields ==
  ASSUME NEW models, NEW structs, NEW types, Mirror(models, structs, types), NEW of \in types,
         NEW p, IsPath(p), p # <<>>, OnWay(structs, of, p)
  PROVE  /\ Known(models, of, p) = Len(p) /\ Len(p) \in Nat /\ Len(p) \in 1 .. Len(p) /\ Len(p) # 0
         /\ OnWay(models, of, p)
         /\ SameField(FieldAt(models, of, p, Len(p)), FieldAt(structs, of, p, Len(p)))
<1>1. Len(p) \in Nat /\ Len(p) \in 1 .. Len(p) /\ Len(p) # 0
  BY DEF IsPath
<1>2. Alike(structs, models, types)
  BY MirrorIsAlike
<1>3. /\ \A k \in 1 .. Len(p) : /\ Way(models, of, p)[k] = Way(structs, of, p)[k] /\ Way(structs, of, p)[k] \in types
                                /\ p[k] \in DOMAIN structs[Way(structs, of, p)[k]]
      /\ OnWay(models, of, p)
  BY <1>2, SameWay
<1>4. Known(models, of, p) = Len(p)
  BY <1>3, KnownIs DEF OnWay
<1> DEFINE m == Way(structs, of, p)[Len(p)]
           k == p[Len(p)]
<1>5. m \in types /\ k \in DOMAIN structs[m] /\ Way(models, of, p)[Len(p)] = m
  BY <1>1, <1>3
<1>6. SameField(models[m][k], structs[m][k])
  <2> HIDE DEF m, k
  <2> QED BY <1>5 DEF Mirror
<1> QED BY <1>1, <1>3, <1>4, <1>5, <1>6 DEF FieldAt

\* What a client makes of a document has the same value behind as many keys,
\* and the same keys where the models keep them.
LEMMA ConstructIs ==
  ASSUME NEW models, NEW structs, NEW types, Mirror(models, structs, types), NEW of \in types,
         NEW b, Fits(structs, of, b)
  PROVE  LET c == constructFromObject(models, of, b)
         IN  /\ c.leaf = b.leaf /\ IsPath(c.path) /\ Len(c.path) = Len(b.path)
             /\ OwnNames(models, types) => c = b
<1> DEFINE p == b.path
           n == Len(p)
           c == constructFromObject(models, of, b)
           f == FieldAt(models, of, p, n)
           g == FieldAt(structs, of, p, n)
           props == [k \in 1 .. n |-> FieldAt(models, of, p, k).prop]
<1>1. CASE p = <<>>
  BY <1>1 DEF constructFromObject, Fits
<1>2. CASE p # <<>>
  <2>1. IsPath(p) /\ OnWay(structs, of, p) /\ b.leaf \in ValuesOf(g) /\ b = Doc(p, b.leaf)
    BY <1>2 DEF Fits
  <2>2. Known(models, of, p) = n /\ n \in Nat /\ n # 0 /\ OnWay(models, of, p) /\ SameField(f, g)
    BY <1>2, <2>1, LastFields
  <2>3. convertToType(f, b.leaf) = b.leaf /\ b.leaf # "error"
    <3> HIDE DEF f, g
    <3> QED BY <2>1, <2>2, ValuesConvert, ValuesAre
  <2>4. c = Doc(props, b.leaf)
    <3> HIDE DEF f
    <3>1. c = LET v == convertToType(FieldAt(models, of, p, n), b.leaf)
              IN  IF v = "error" THEN Doc(<<>>, v) ELSE Doc(props, v)
      BY <1>2, <2>2 DEF constructFromObject
    <3> QED BY <2>3, <3>1 DEF f
  <2>5. IsPath(props) /\ Len(props) = n
    <3>1. props \in Seq({props[k] : k \in 1 .. n}) /\ DOMAIN props = 1 .. n
      BY <2>2
    <3> HIDE DEF props, n
    <3>2. Len(props) = n
      BY <2>2, <3>1
    <3> QED BY <3>1, <3>2 DEF IsPath
  <2>6. ASSUME OwnNames(models, types) PROVE props = p
    <3>1. Alike(models, structs, types)
      BY MirrorIsAlike
    <3>2. \A k \in 1 .. n : Way(models, of, p)[k] \in types /\ p[k] \in DOMAIN models[Way(models, of, p)[k]]
      BY <2>1, <2>2, <3>1, SameWay
    <3>3. \A k \in 1 .. n : FieldAt(models, of, p, k).prop = p[k]
      BY <2>6, <3>2 DEF OwnNames, FieldAt
    <3>4. p = [k \in 1 .. n |-> p[k]]
      BY <2>1 DEF IsPath
    <3> HIDE DEF p
    <3> QED BY <3>3, <3>4
  <2> HIDE DEF c, props, p, n
  <2>7. c.leaf = b.leaf /\ c.path = props
    BY <2>4 DEF Doc
  <2>8. OwnNames(models, types) => c = b
    BY <2>1, <2>4, <2>6
  <2> QED BY <2>5, <2>7, <2>8 DEF c, p, n
<1> QED BY <1>1, <1>2

\* What a server reads of a document that a client holds is that document, or
\* nothing because of a fraction.
LEMMA DecodeIs ==
  ASSUME NEW models, NEW structs, NEW types, Mirror(models, structs, types), NEW of \in types,
         NEW h, Fits(models, of, h)
  PROVE  LET d == Decode(structs, of, h)
         IN  \/ d = h /\ d.leaf # "error" /\ Fits(structs, of, h)
             \/ d.leaf = "error" /\ h.leaf = "frac"
<1> DEFINE p == h.path
           n == Len(p)
           d == Decode(structs, of, h)
           f == FieldAt(models, of, p, n)
           g == FieldAt(structs, of, p, n)
<1>1. CASE p = <<>>
  BY <1>1 DEF Decode, Fits
<1>2. CASE p # <<>>
  <2>1. IsPath(p) /\ OnWay(models, of, p) /\ h.leaf \in ValuesOf(f) /\ h = Doc(p, h.leaf)
    BY <1>2 DEF Fits
  <2>2. OnWay(structs, of, p)
    BY <2>1, MirrorIsAlike, SameWay
  <2>3. n \in Nat /\ n # 0 /\ SameField(f, g) /\ Known(structs, of, p) = n
    <3>1. n \in Nat /\ n # 0 /\ SameField(f, g)
      BY <1>2, <2>1, <2>2, LastFields
    <3>2. Known(structs, of, p) = n
      BY <2>1, <2>2, KnownIs DEF OnWay
    <3> QED BY <3>1, <3>2
  <2>4. d = IF Readable(g, h.leaf) THEN h ELSE Doc(<<>>, "error")
    BY <1>2, <2>3 DEF Decode
  <2> HIDE DEF f, g
  <2>5. h.leaf # "error" /\ (Readable(g, h.leaf) \/ h.leaf = "frac") /\ (Readable(g, h.leaf) => h.leaf \in ValuesOf(g))
    BY <2>1, <2>3, ValuesConvert, ValuesAre
  <2>6. Readable(g, h.leaf) => Fits(structs, of, h)
    BY <1>2, <2>1, <2>2, <2>5 DEF Fits, g
  <2> QED BY <2>4, <2>5, <2>6 DEF Doc
<1> QED BY <1>1, <1>2

\* A document that fits a struct fits the model of it.
LEMMA FitsBack ==
  ASSUME NEW models, NEW structs, NEW types, Mirror(models, structs, types), NEW of \in types,
         NEW b, Fits(structs, of, b)
  PROVE  Fits(models, of, b)
<1>1. CASE b.path = <<>>
  BY <1>1 DEF Fits
<1>2. CASE b.path # <<>>
  <2> DEFINE f == FieldAt(models, of, b.path, Len(b.path))
             g == FieldAt(structs, of, b.path, Len(b.path))
  <2>1. IsPath(b.path) /\ OnWay(structs, of, b.path) /\ b.leaf \in ValuesOf(g)
    BY <1>2 DEF Fits
  <2>2. OnWay(models, of, b.path) /\ SameField(f, g)
    BY <1>2, <2>1, LastFields
  <2>3. b.leaf \in ValuesOf(f)
    <3> HIDE DEF f, g
    <3> QED BY <2>1, <2>2, ValuesConvert
  <2> QED BY <1>2, <2>1, <2>2, <2>3 DEF Fits
<1> QED BY <1>1, <1>2

\* Nor is such a document one of those that stand for something else.
LEMMA FitsIsNot ==
  ASSUME NEW tables, NEW types, FieldsAre(tables, types), Alike(tables, tables, types),
         NEW of \in types, NEW d, Fits(tables, of, d)
  PROVE  d.leaf \notin {"error", "null", "nan", "none"} /\ d # None
<1>1. CASE d.path = <<>> /\ d.leaf = "eobj"
  BY <1>1 DEF None
<1>2. CASE ~ (d.path = <<>> /\ d.leaf = "eobj")
  <2> DEFINE p == d.path
             n == Len(p)
             m == Way(tables, of, p)[n]
  <2>1. p # <<>> /\ IsPath(p) /\ OnWay(tables, of, p) /\ d.leaf \in ValuesOf(FieldAt(tables, of, p, n))
    BY <1>2 DEF Fits
  <2>2. n \in 1 .. n
    <3> HIDE DEF p
    <3> QED BY <2>1 DEF IsPath
  <2>3. m \in types /\ p[n] \in DOMAIN tables[m]
    <3> HIDE DEF p
    <3> QED BY <2>1, <2>2, SameWay
  <2>4. IsField(FieldAt(tables, of, p, n))
    BY <2>3 DEF FieldsAre, FieldAt
  <2>5. d.leaf \notin {"error", "null", "nan", "none"}
    <3> HIDE DEF p
    <3> QED BY <2>1, <2>4, ValuesAre
  <2> QED BY <2>5 DEF None
<1> QED BY <1>1, <1>2

\* Where the tables of a client mirror those of a server, they hold fields.
LEMMA MirrorFields ==
  ASSUME NEW models, NEW structs, NEW types, Mirror(models, structs, types)
  PROVE  /\ FieldsAre(models, types) /\ Alike(models, models, types)
         /\ FieldsAre(structs, types) /\ Alike(structs, structs, types)
<1>1. ASSUME NEW m \in types
      PROVE  /\ m \in DOMAIN models /\ m \in DOMAIN structs /\ DOMAIN models[m] = DOMAIN structs[m]
             /\ \A k \in DOMAIN models[m] : SameField(models[m][k], structs[m][k])
             /\ \A k \in DOMAIN models[m] : models[m][k].kind = "model" => models[m][k].of \in types
  BY <1>1 DEF Mirror
<1>2. FieldsAre(models, types) /\ FieldsAre(structs, types)
  BY <1>1, ValuesConvert DEF FieldsAre
<1>3. Alike(models, structs, types) /\ Alike(structs, models, types)
  BY MirrorIsAlike
<1> QED BY <1>2, <1>3 DEF Alike

\* Models that keep every key under its own name are kept as they are.
LEMMA OwnProperties ==
  ASSUME NEW models, NEW structs, NEW types, Mirror(models, structs, types), OwnNames(models, types)
  PROVE  Mirror(Properties(models), structs, types)
<1>1. ASSUME NEW m \in types
      PROVE  /\ m \in DOMAIN Properties(models) /\ DOMAIN Properties(models)[m] = DOMAIN models[m]
             /\ \A p \in DOMAIN models[m] : Properties(models)[m][p] = models[m][p]
  <2> DEFINE R == {models[m][k] : k \in DOMAIN models[m]}
             K == {models[m][k].prop : k \in DOMAIN models[m]}
             g == [p \in K |-> CHOOSE f \in R : f.prop = p]
  <2>1. m \in DOMAIN models /\ \A k \in DOMAIN models[m] : models[m][k].prop = k
    BY <1>1 DEF Mirror, OwnNames
  <2>2. m \in DOMAIN Properties(models) /\ Properties(models)[m] = g
    BY <2>1, Zenon DEF Properties
  <2>3. K = DOMAIN models[m]
    BY <2>1
  <2>4. ASSUME NEW p \in DOMAIN models[m]
        PROVE  (CHOOSE f \in R : f.prop = p) = models[m][p]
    <3>1. models[m][p] \in R /\ models[m][p].prop = p
      BY <2>1
    <3>2. \A f \in R : f.prop = p => f = models[m][p]
      BY <2>1
    <3> HIDE DEF R
    <3> QED BY <3>1, <3>2
  <2>5. \A p \in DOMAIN models[m] : g[p] = models[m][p]
    BY <2>3, <2>4, Zenon
  <2>6. DOMAIN g = DOMAIN models[m]
    BY <2>3, Zenon
  <2> HIDE DEF g
  <2> QED BY <2>2, <2>5, <2>6
<1> HIDE DEF Properties
<1> QED BY <1>1 DEF Mirror
-----------------------------------------------------------------------------
(* The two calls of a talk.                                                 *)

\* A load has one route, and both ends know what it gives.
LEMMA LoadFacts ==
  ASSUME NEW sent, TablesAgree(Clients, Servers, Talks, sent), NEW t \in Talks, t.load # NoOp
  PROVE  LET op     == Clients[t.from].operations[t.load]
             end    == Servers[t.from]
             models == Clients[t.from].models
         IN  /\ t.load \in DOMAIN end.routes
             /\ \A h \in DOMAIN end.routes :
                  (end.routes[h].verb = op.verb /\ <<end.base, end.routes[h].path>> = Url(t.from, op))
                     <=> h = t.load
             /\ op.gives = end.routes[t.load].gives /\ op.gives.of # NoModel
             /\ op.gives.of \in DOMAIN models /\ Mirror(models, end.structs, DOMAIN models)
<1>1. ClientAgrees(Clients[t.from], Servers[t.from], sent[t.from])
  BY DEF TablesAgree, TalkAgrees
<1>2. /\ t.load \in DOMAIN Clients[t.from].operations
      /\ Clients[t.from].operations[t.load].gives.of # NoModel
  BY DEF TablesAgree, TalkAgrees
<1>3. SameOperation(Clients[t.from], Servers[t.from], t.load)
  BY <1>1, <1>2 DEF ClientAgrees
<1> QED BY <1>1, <1>2, <1>3 DEF ClientAgrees, SameOperation, Url

\* A save has one route, and both ends know what it takes.
LEMMA SaveFacts ==
  ASSUME NEW sent, TablesAgree(Clients, Servers, Talks, sent), NEW t \in Talks, t.save # NoOp
  PROVE  LET op     == Clients[t.into].operations[t.save]
             end    == Servers[t.into]
             models == Clients[t.into].models
         IN  /\ t.save \in DOMAIN end.routes
             /\ \A h \in DOMAIN end.routes :
                  (end.routes[h].verb = op.verb /\ <<end.base, end.routes[h].path>> = Url(t.into, op))
                     <=> h = t.save
             /\ op.takes.of # NoModel => /\ op.takes.of = end.routes[t.save].takes.of
                                    /\ op.takes.of \in sent[t.into]
             /\ Mirror(Properties(models), end.structs, sent[t.into])
<1>1. ClientAgrees(Clients[t.into], Servers[t.into], sent[t.into])
  BY DEF TablesAgree, TalkAgrees
<1>2. t.save \in DOMAIN Clients[t.into].operations
  BY DEF TablesAgree, TalkAgrees
<1>3. /\ SameOperation(Clients[t.into], Servers[t.into], t.save)
      /\ Clients[t.into].operations[t.save].takes.of \in sent[t.into] \union {NoModel}
  BY <1>1, <1>2 DEF ClientAgrees
<1>4. Mirror(Properties(Clients[t.into].models), Servers[t.into].structs, sent[t.into])
  BY <1>1, OwnProperties DEF ClientAgrees
<1> QED BY <1>1, <1>3, <1>4 DEF ClientAgrees, SameOperation, Url

(* What a talk loads and saves.                                             *)
Given(t) == Clients[t.from].operations[t.load].gives
Taken(t) == Clients[t.into].operations[t.save].takes

KeptFits(t, d) == Fits(Servers[t.from].structs, Given(t).of, d)
HeldFits(t, d) == Fits(Properties(Clients[t.into].models), Taken(t).of, d)

\* A talk that loads and saves does both with one type of documents.
LEMMA LoopFacts ==
  ASSUME NEW sent, TablesAgree(Clients, Servers, Talks, sent), NEW t \in Talks, t.load # NoOp, t.save # NoOp
  PROVE  /\ t.load # t.save /\ Given(t).deep = 0
         /\ Given(t).of \in sent[t.from] /\ Taken(t).of = Given(t).of /\ Taken(t).of # NoModel
         /\ Servers[t.from].structs = Servers[t.into].structs
         /\ Mirror(Clients[t.from].models, Servers[t.from].structs, sent[t.from])
         /\ OwnNames(Clients[t.from].models, sent[t.from])
<1>1. ClientAgrees(Clients[t.from], Servers[t.from], sent[t.from])
  BY DEF TablesAgree, TalkAgrees
<1>2. TalkAgrees(Clients, Servers, sent, t)
  BY DEF TablesAgree
<1> QED BY <1>1, <1>2 DEF ClientAgrees, TalkAgrees, Given, Taken

\* What the frontend makes of the answer says what the server has.
LEMMA LoadIs ==
  ASSUME NEW sent, TablesAgree(Clients, Servers, Talks, sent), NEW t \in Talks, t.load # NoOp,
         NEW k, KeptFits(t, k)
  PROVE  LET c == deserialize(Clients[t.from].models, Given(t), Encode(Servers[t.from].structs, Given(t).of, k))
         IN  /\ c.leaf # "error" /\ c # None /\ Same(c, k)
             /\ t.save # NoOp => HeldFits(t, c)
<1> DEFINE models == Clients[t.from].models
           structs == Servers[t.from].structs
           of == Given(t).of
           b == Encode(structs, of, k)
           c == deserialize(models, Given(t), b)
<1>1. of # NoModel /\ of \in DOMAIN models /\ Mirror(models, structs, DOMAIN models)
  BY LoadFacts DEF Given
<1>2. FieldsAre(structs, DOMAIN models) /\ Alike(structs, structs, DOMAIN models)
  BY <1>1, MirrorFields
<1> HIDE DEF models, structs, of
<1>3. Fits(structs, of, k)
  BY DEF KeptFits, structs, of
<1>4. Fits(structs, of, b) /\ Trimmed(b) = Trimmed(k)
  BY <1>1, <1>2, <1>3, EncodeFits
<1>5. b.leaf \notin {"error", "null", "nan", "none"}
  <2> HIDE DEF b
  <2> QED BY <1>1, <1>2, <1>4, FitsIsNot
<1>6. c = constructFromObject(models, of, b)
  <2> HIDE DEF b
  <2> QED BY <1>1, <1>5 DEF deserialize, of
<1> HIDE DEF b, c
<1>7. c.leaf = b.leaf /\ IsPath(c.path) /\ Len(c.path) = Len(b.path)
  <2>1. PICK types : of \in types /\ Mirror(models, structs, types)
    BY <1>1
  <2>2. Fits(structs, of, b)
    BY <1>4
  <2>3. LET e == constructFromObject(models, of, b)
        IN  e.leaf = b.leaf /\ IsPath(e.path) /\ Len(e.path) = Len(b.path)
    BY <2>1, <2>2, ConstructIs
  <2> QED BY <1>6, <2>3
<1>8. Same(c, k)
  <2>1. IsPath(b.path)
    BY <1>4 DEF Fits
  <2>2. Same(c, b)
    BY <1>7, <2>1, SameIs
  <2> QED BY <1>4, <2>2 DEF Same
<1>9. c.leaf # "error" /\ c # None
  BY <1>5, <1>7 DEF None
<1>10. ASSUME t.save # NoOp PROVE HeldFits(t, c)
  <2>1. /\ Given(t).of \in sent[t.from] /\ Taken(t).of = Given(t).of /\ Taken(t).of # NoModel
        /\ Servers[t.from].structs = Servers[t.into].structs
        /\ Mirror(Clients[t.from].models, Servers[t.from].structs, sent[t.from])
        /\ OwnNames(Clients[t.from].models, sent[t.from])
    BY <1>10, LoopFacts
  <2>2. c = b
    <3>1. /\ of \in sent[t.from] /\ Mirror(models, structs, sent[t.from])
          /\ OwnNames(models, sent[t.from])
      BY <2>1 DEF models, structs, of
    <3>2. PICK types : of \in types /\ Mirror(models, structs, types) /\ OwnNames(models, types)
      BY <3>1
    <3>3. Fits(structs, of, b)
      BY <1>4
    <3>4. constructFromObject(models, of, b) = b
      BY <3>2, <3>3, ConstructIs
    <3> QED BY <1>6, <3>4
  <2>3. /\ Taken(t).of \in sent[t.into]
        /\ Mirror(Properties(Clients[t.into].models), Servers[t.into].structs, sent[t.into])
    BY <1>10, <2>1, SaveFacts DEF Taken
  <2>4. Fits(Servers[t.into].structs, Taken(t).of, c)
    BY <1>4, <2>1, <2>2 DEF structs, of
  <2> QED BY <2>3, <2>4, FitsBack DEF HeldFits
<1> QED BY <1>8, <1>9, <1>10 DEF c, b, models, structs, of

\* What the server makes of the body is what the frontend holds, unless it
\* is a fraction.
LEMMA SaveIs ==
  ASSUME NEW sent, TablesAgree(Clients, Servers, Talks, sent), NEW t \in Talks, t.save # NoOp,
         Taken(t).of # NoModel, NEW h, HeldFits(t, h)
  PROVE  LET d == Decode(Servers[t.into].structs, Taken(t).of, h)
         IN  /\ h # None /\ Written(h) = h
             /\ \/ d = h /\ d.leaf # "error" /\ (t.load # NoOp => KeptFits(t, d))
                \/ d.leaf = "error" /\ h.leaf = "frac"
<1> DEFINE models == Properties(Clients[t.into].models)
           structs == Servers[t.into].structs
           of == Taken(t).of
           d == Decode(structs, of, h)
<1>1. of \in sent[t.into] /\ Mirror(models, structs, sent[t.into])
  BY SaveFacts DEF Taken
<1>2. FieldsAre(models, sent[t.into]) /\ Alike(models, models, sent[t.into])
  BY <1>1, MirrorFields
<1> HIDE DEF models, structs, of
<1>3. Fits(models, of, h)
  BY DEF HeldFits, models, of
<1>4. h # None /\ Written(h) = h
  BY <1>1, <1>2, <1>3, FitsIsNot DEF Written
<1>5. \/ d = h /\ d.leaf # "error" /\ Fits(structs, of, h)
      \/ d.leaf = "error" /\ h.leaf = "frac"
  <2>1. PICK types : of \in types /\ Mirror(models, structs, types)
    BY <1>1
  <2> QED BY <1>3, <2>1, DecodeIs
<1>6. ASSUME t.load # NoOp, Fits(structs, of, h) PROVE KeptFits(t, h)
  <2>1. Taken(t).of = Given(t).of /\ Servers[t.from].structs = Servers[t.into].structs
    BY <1>6, LoopFacts
  <2> QED BY <1>6, <2>1 DEF KeptFits, structs, of
<1> HIDE DEF d
<1>7. d = h /\ Fits(structs, of, h) => (t.load # NoOp => KeptFits(t, d))
  BY <1>6
<1> QED BY <1>4, <1>5, <1>7 DEF d, structs, of

\* A document to start with fits, or is a list that is null.
LEMMA StartFits ==
  ASSUME NEW tables, NEW body, NEW d, IsDoc(tables, body, d), body.of # NoModel
  PROVE  \/ Fits(tables, body.of, d)
         \/ body.deep > 0 /\ d = Doc(<<>>, "null")
<1>1. CASE d.path = <<>>
  BY <1>1 DEF IsDoc
<1>2. CASE d.path # <<>>
  <2> DEFINE p == d.path
             at == Way(tables, body.of, p)
  <2>1. IsPath(p) /\ d = Doc(p, d.leaf)
    BY Zenon DEF IsDoc, IsPath
  <2>2. /\ Known(tables, body.of, p) = Len(p)
        /\ \A k \in 1..(Len(p) - 1) : FieldAt(tables, body.of, p, k).kind = "model"
        /\ d.leaf \in ValuesOf(FieldAt(tables, body.of, p, Len(p)))
    BY <1>2 DEF IsDoc
  <2> HIDE DEF p
  <2>3. Len(p) \in Nat
    BY <2>1 DEF IsPath
  <2>4. \A k \in 1 .. Len(p) : Has(tables, at[k], p[k])
    BY <2>1, <2>2, KnownIs, Zenon
  <2>5. \A k \in 1 .. Len(p) : k < Len(p) => k \in 1 .. (Len(p) - 1)
    BY <2>3
  <2>6. OnWay(tables, body.of, p)
    BY <2>2, <2>4, <2>5 DEF OnWay
  <2> QED BY <1>2, <2>1, <2>2, <2>6 DEF Fits, p
<1> QED BY <1>1, <1>2

\* What the frontend edits still fits.
LEMMA EditFits ==
  ASSUME NEW t, NEW h, HeldFits(t, h), h.path # <<>>,
         NEW v \in ValuesOf(FieldAt(Properties(Clients[t.into].models), Taken(t).of, h.path, Len(h.path)))
  PROVE  HeldFits(t, [h EXCEPT !.leaf = v])
<1>1. h = Doc(h.path, h.leaf) /\ IsPath(h.path)
      /\ OnWay(Properties(Clients[t.into].models), Taken(t).of, h.path)
  BY DEF HeldFits, Fits
<1>2. [h EXCEPT !.leaf = v] = Doc(h.path, v)
  BY <1>1 DEF Doc
<1> QED BY <1>1, <1>2 DEF HeldFits, Fits, Doc
-----------------------------------------------------------------------------
(* The state of a talk. What is kept and what is held fit the tables of     *)
(* both ends; a call under way is about them; and what was told last is     *)
(* true of them.                                                            *)
NullList == Doc(<<>>, "null")

KeptInv ==
  talk.load # NoOp => \/ KeptFits(talk, kept)
                      \/ talk.save = NoOp /\ Given(talk).deep > 0 /\ kept = NullList

HeldInv ==
  talk.save # NoOp => \/ held = None /\ (talk.load = NoOp => Taken(talk).of = NoModel)
                      \/ Taken(talk).of # NoModel /\ HeldFits(talk, held)
                      \/ Taken(talk).of # NoModel /\ talk.load = NoOp /\ held = NullList

RequestOf(c, o, body, ver) ==
  LET op == Clients[c].operations[o]
  IN  [phase |-> "request", client |-> c, name |-> o, verb |-> op.verb, url |-> Url(c, op),
       body |-> body, version |-> ver]

AnswerOf(c, o, says, body, ver) ==
  [phase |-> "answer", client |-> c, name |-> o, says |-> says, by |-> o, body |-> body, version |-> ver]

Loading == talk.load # NoOp /\ wire = RequestOf(talk.from, talk.load, None, "none")

Saving ==
  /\ talk.save # NoOp /\ (talk.load # NoOp => held # None)
  /\ wire = RequestOf(talk.into, talk.save, held, heldVersion)

Loaded ==
  /\ talk.load # NoOp
  /\ wire = AnswerOf(talk.from, talk.load, "ok", Encode(Servers[talk.from].structs, Given(talk).of, kept),
                     keptVersion)

Unlike == talk.load = NoOp /\ Renewed(heldVersion, held.path)

Saved ==
  /\ talk.save # NoOp /\ wire = AnswerOf(talk.into, talk.save, "ok", None, "none")
  /\ held = None \/ kept = held \/ Unlike

Declined ==
  \/ talk.load # NoOp /\ wire = AnswerOf(talk.from, talk.load, "declined", None, "none")
  \/ talk.save # NoOp /\ wire = AnswerOf(talk.into, talk.save, "declined", None, "none")

Misread == /\ talk.save # NoOp /\ wire = AnswerOf(talk.into, talk.save, "misread", None, "none")
           /\ held.leaf = "frac"

OfOther == /\ talk.save # NoOp /\ Taken(talk).of = Scenario /\ heldVersion = "other"
           /\ talk.load # NoOp => keptVersion = "other"

Unsupported == wire = AnswerOf(talk.into, talk.save, "unsupported", None, "none") /\ OfOther

WireInv == wire = NoCall \/ Loading \/ Saving \/ Loaded \/ Saved \/ Declined \/ Misread \/ Unsupported

ToldInv ==
  /\ told = "loaded" => talk.load # NoOp
  /\ told \in {"loaded", "saved"} /\ ~edited /\ held # None => Same(held, kept) \/ (told = "saved" /\ Unlike)
  /\ told = "misread" => held.leaf = "frac"
  /\ told = "unsupported" => OfOther
  /\ told = "unread" => talk.save = NoOp /\ kept = NullList

\* A scenario that is loaded was upgraded, and so was the one that is held.
VersionInv ==
  talk.load # NoOp /\ Given(talk).of = Scenario =>
    /\ keptVersion \in Upgraded
    /\ held # None => heldVersion \in Upgraded /\ (heldVersion = "other" => keptVersion = "other")

RestInv == talk \in Talks /\ KeptInv /\ HeldInv /\ VersionInv /\ WireInv /\ ToldInv

\* A talk starts with a document that fits.
LEMMA TalkInvInit ==
  ASSUME NEW sent, TablesAgree(Clients, Servers, Talks, sent), RcInit
  PROVE  RestInv
<1>1. PICK d \in Starts[talk] : IF talk.load # NoOp THEN kept = d /\ held = None
                                ELSE kept = None /\ held = d
  BY DEF RcInit
<1>2. talk \in Talks /\ wire = NoCall /\ told = "nothing"
  BY DEF RcInit
<1>5. VersionInv
  BY DEF RcInit, VersionInv, Loader, Given
<1>3. CASE talk.load # NoOp
  <2>1. IsDoc(Servers[talk.from].structs, Given(talk), d) /\ Given(talk).of # NoModel
    BY <1>2, <1>3, LoadFacts, StartsAssumption DEF Given
  <2>2. KeptFits(talk, d) \/ (Given(talk).deep > 0 /\ d = NullList)
    BY <2>1, StartFits DEF KeptFits, NullList
  <2>3. talk.save # NoOp => Given(talk).deep = 0
    BY <1>2, <1>3, LoopFacts
  <2>4. talk.save # NoOp => ~ (Given(talk).deep > 0)
    BY <2>3
  <2>5. KeptInv
    BY <1>1, <1>3, <2>2, <2>4 DEF KeptInv
  <2>6. HeldInv /\ held = None
    BY <1>1, <1>3 DEF HeldInv
  <2> QED BY <1>2, <1>5, <2>5, <2>6 DEF RestInv, WireInv, ToldInv
<1>4. CASE talk.load = NoOp
  <2>1. IsDoc(Properties(Clients[talk.into].models), Taken(talk), d)
    BY <1>2, <1>4, StartsAssumption DEF Taken
  <2>2. Taken(talk).of = NoModel => d = None
    BY <2>1 DEF IsDoc
  <2>3. Taken(talk).of # NoModel => HeldFits(talk, d) \/ d = NullList
    BY <2>1, StartFits DEF HeldFits, NullList
  <2>4. HeldInv
    BY <1>1, <1>4, <2>2, <2>3 DEF HeldInv
  <2> QED BY <1>2, <1>4, <1>5, <2>4 DEF RestInv, KeptInv, WireInv, ToldInv
<1> QED BY <1>3, <1>4

\* A body is sent as it is held.
LEMMA SentAsHeld ==
  ASSUME NEW sent, TablesAgree(Clients, Servers, Talks, sent), RestInv, talk.save # NoOp
  PROVE  Written(held) = held
<1>1. CASE held = None
  BY <1>1 DEF None, Written
<1>2. CASE held = NullList
  BY <1>2 DEF NullList, Doc, Written
<1>3. CASE Taken(talk).of # NoModel /\ HeldFits(talk, held)
  BY <1>3, SaveIs DEF RestInv
<1> QED BY <1>1, <1>2, <1>3 DEF RestInv, HeldInv

\* What the server keeps of a scenario is the scenario, but for an upgrade.
LEMMA ValidateIs ==
  ASSUME NEW v, NEW d, NEW k \in ValidateScenario(v, d)
  PROVE  k = d \/ (Renewed(v, d.path) /\ v \notin Upgraded)
<1>1. Renewed(v, d.path) => v \notin Upgraded
  BY DEF Renewed, Upgraded, Older
<1> QED BY <1>1 DEF ValidateScenario

\* A request reaches the handler that the operation is named after, which
\* declines it, answers it with what is kept, or keeps what is held.
LEMMA ServeIs ==
  ASSUME NEW sent, TablesAgree(Clients, Servers, Talks, sent), RestInv, ServeCall
  PROVE  /\ talk' = talk /\ held' = held /\ heldVersion' = heldVersion /\ edited' = edited /\ told' = told
         /\ \/ (Loaded' \/ Declined') /\ kept' = kept /\ keptVersion' = keptVersion
            \/ talk.save # NoOp /\ kept' = kept /\ keptVersion' = keptVersion /\ (Saved' \/ Misread' \/ Unsupported')
            \/ /\ talk.save # NoOp /\ Saved' /\ ~OfOther
               /\ \/ Unlike
                  \/ kept' = held /\ (talk.load # NoOp => KeptFits(talk, held))
               /\ talk.load # NoOp /\ Given(talk).of = Scenario => keptVersion' = "1.5" /\ heldVersion # "other"
<1>1. talk \in Talks /\ wire.phase = "request" /\ (Loading \/ Saving)
  BY DEF RestInv, WireInv, ServeCall, NoCall, Loaded, Saved, Declined, Misread, Unsupported, AnswerOf
<1>2. UNCHANGED <<talk, held, heldVersion, edited, told>>
  BY DEF ServeCall
<1> DEFINE takes(h) == Servers[wire.client].routes[h].takes.of
           Declines(h) == Answer("declined", h, None, "none") /\ UNCHANGED <<kept, keptVersion>>
           HandlerReads(h) == wire.body # None /\ takes(h) # NoModel /\ Store(h)
           HandlerWrites(h) == (wire.body = None \/ takes(h) = NoModel) /\ Fetch(h)
<1>3. \A o : Matching = {o} => Declines(o) \/ HandlerReads(o) \/ HandlerWrites(o)
  BY Zenon DEF ServeCall
<1> HIDE DEF HandlerReads, HandlerWrites
<1>4. CASE Loading
  <2>1. wire = RequestOf(talk.from, talk.load, None, "none") /\ talk.load # NoOp
    BY <1>4 DEF Loading
  <2>2. /\ wire.client = talk.from /\ wire.name = talk.load /\ wire.body = None
        /\ wire.verb = Loader.verb /\ wire.url = Url(talk.from, Loader)
    BY <2>1 DEF RequestOf, Loader
  <2>3. Matching = {talk.load}
    BY <1>1, <2>1, <2>2, LoadFacts DEF Matching, Loader
  <2>4. Servers[talk.from].routes[talk.load].gives = Given(talk) /\ Given(talk).of # NoModel
    BY <1>1, <2>1, LoadFacts DEF Given
  <2>5. CASE HandlerWrites(talk.load)
    <3>1. /\ UNCHANGED <<kept, keptVersion>>
          /\ Answer("ok", talk.load, Encode(Servers[talk.from].structs, Given(talk).of, kept), keptVersion)
      BY <2>1, <2>2, <2>4, <2>5 DEF HandlerWrites, Fetch
    <3>2. wire' = AnswerOf(talk.from, talk.load, "ok", Encode(Servers[talk.from].structs, Given(talk).of, kept),
                           keptVersion)
      BY <2>2, <3>1 DEF Answer, AnswerOf
    <3>3. Loaded'
      BY <1>2, <2>1, <3>1, <3>2 DEF Loaded, AnswerOf, Given
    <3> QED BY <1>2, <3>1, <3>3
  <2>6. CASE Declines(talk.load)
    <3>1. wire' = AnswerOf(talk.from, talk.load, "declined", None, "none")
      BY <2>2, <2>6 DEF Answer, AnswerOf
    <3>2. Declined'
      BY <1>2, <2>1, <3>1 DEF Declined, AnswerOf
    <3> QED BY <1>2, <2>6, <3>2
  <2> QED BY <1>3, <2>2, <2>3, <2>5, <2>6 DEF HandlerReads
<1>5. CASE Saving
  <2>1. /\ wire = RequestOf(talk.into, talk.save, held, heldVersion) /\ talk.save # NoOp
        /\ talk.load # NoOp => held # None
    BY <1>5 DEF Saving
  <2>2. /\ wire.client = talk.into /\ wire.name = talk.save /\ wire.body = held /\ wire.version = heldVersion
        /\ wire.verb = Saver.verb /\ wire.url = Url(talk.into, Saver)
    BY <2>1 DEF RequestOf, Saver
  <2>3. Matching = {talk.save}
    BY <1>1, <2>1, <2>2, SaveFacts DEF Matching, Saver
  <2>4. Taken(talk).of # NoModel => Servers[talk.into].routes[talk.save].takes.of = Taken(talk).of
    BY <1>1, <2>1, SaveFacts DEF Taken
  <2>5. CASE Declines(talk.save)
    <3>1. wire' = AnswerOf(talk.into, talk.save, "declined", None, "none")
      BY <2>2, <2>5 DEF Answer, AnswerOf
    <3>2. Declined'
      BY <1>2, <2>1, <3>1 DEF Declined, AnswerOf
    <3> QED BY <1>2, <2>5, <3>2
  <2>6. CASE held = None /\ ~Declines(talk.save)
    <3>1. HandlerWrites(talk.save) /\ talk.load = NoOp
      BY <1>3, <2>1, <2>2, <2>3, <2>6 DEF HandlerReads
    <3>2. Answer("ok", talk.save, None, "none") /\ UNCHANGED <<kept, keptVersion>>
      BY <3>1 DEF HandlerWrites, Fetch
    <3>3. wire' = AnswerOf(talk.into, talk.save, "ok", None, "none")
      BY <2>2, <3>2 DEF Answer, AnswerOf
    <3>4. Saved'
      BY <1>2, <2>1, <2>6, <3>3 DEF Saved, AnswerOf
    <3> QED BY <1>2, <2>1, <3>2, <3>4
  <2>7. CASE held # None /\ ~Declines(talk.save)
    <3> DEFINE e == Decode(Servers[talk.into].structs, Taken(talk).of, held)
    <3>1. Taken(talk).of # NoModel
      BY <2>1, <2>7 DEF RestInv, HeldInv
    <3>2. \/ e = held /\ e.leaf # "error" /\ (talk.load # NoOp => KeptFits(talk, held))
          \/ e.leaf = "error" /\ held.leaf = "frac"
      <4>1. CASE HeldFits(talk, held)
        BY <1>1, <2>1, <3>1, <4>1, SaveIs
      <4>2. CASE talk.load = NoOp /\ held = NullList
        BY <4>2 DEF NullList, Doc, Decode
      <4> QED BY <2>1, <2>7, <4>1, <4>2 DEF RestInv, HeldInv
    <3>3. Store(talk.save) /\ takes(talk.save) = Taken(talk).of
      BY <1>3, <2>2, <2>3, <2>4, <2>7, <3>1 DEF HandlerReads, HandlerWrites
    <3>4. IF e.leaf = "error" THEN Answer("misread", talk.save, None, "none") /\ UNCHANGED <<kept, keptVersion>>
          ELSE IF Taken(talk).of # Scenario THEN Answer("ok", talk.save, None, "none") /\ Keeps({e}, "none")
          ELSE IF heldVersion = "other"
               THEN Answer("unsupported", talk.save, None, "none") /\ UNCHANGED <<kept, keptVersion>>
          ELSE Answer("ok", talk.save, None, "none") /\ Keeps(ValidateScenario(heldVersion, e), "1.5")
      BY <2>2, <3>3, Zenon DEF Store
    <3>5. \A says : Answer(says, talk.save, None, "none") => wire' = AnswerOf(talk.into, talk.save, says, None, "none")
      BY <2>2 DEF Answer, AnswerOf
    <3>6. talk.load # NoOp => Taken(talk).of = Given(talk).of
      BY <1>1, <2>1, LoopFacts
    <3> HIDE DEF e
    <3>7. CASE e.leaf = "error" /\ held.leaf = "frac"
      <4>1. Misread'
        BY <1>2, <2>1, <3>4, <3>5, <3>7 DEF Misread, AnswerOf
      <4> QED BY <1>2, <2>1, <3>4, <3>7, <4>1
    <3>8. CASE e = held /\ e.leaf # "error" /\ (talk.load # NoOp => KeptFits(talk, held))
      <4>1. CASE Taken(talk).of # Scenario
        <5>1. kept' = held /\ wire' = AnswerOf(talk.into, talk.save, "ok", None, "none")
          BY <3>4, <3>5, <3>8, <4>1 DEF Keeps
        <5>2. Saved' /\ ~OfOther
          BY <1>2, <2>1, <4>1, <5>1 DEF Saved, AnswerOf, OfOther
        <5> QED BY <1>2, <2>1, <3>6, <3>8, <4>1, <5>1, <5>2
      <4>2. CASE Taken(talk).of = Scenario /\ heldVersion = "other"
        <5>1. UNCHANGED <<kept, keptVersion>> /\ wire' = AnswerOf(talk.into, talk.save, "unsupported", None, "none")
          BY <3>4, <3>5, <3>8, <4>2
        <5>2. talk.load # NoOp => keptVersion = "other"
          BY <2>7, <3>6, <4>2 DEF RestInv, VersionInv
        <5>3. Unsupported'
          BY <1>2, <2>1, <4>2, <5>1, <5>2 DEF Unsupported, AnswerOf, OfOther, Taken
        <5> QED BY <1>2, <2>1, <5>1, <5>3
      <4>3. CASE Taken(talk).of = Scenario /\ heldVersion # "other"
        <5>1. /\ kept' \in ValidateScenario(heldVersion, held) /\ keptVersion' = "1.5"
              /\ wire' = AnswerOf(talk.into, talk.save, "ok", None, "none")
          BY <3>4, <3>5, <3>8, <4>3 DEF Keeps
        <5>2. kept' = held \/ (Renewed(heldVersion, held.path) /\ heldVersion \notin Upgraded)
          BY <5>1, ValidateIs
        <5>3. talk.load # NoOp => heldVersion \in Upgraded
          BY <2>7, <3>6, <4>3 DEF RestInv, VersionInv
        <5>4. kept' = held \/ Unlike
          BY <5>2, <5>3 DEF Unlike
        <5>5. Saved' /\ ~OfOther
          BY <1>2, <2>1, <4>3, <5>1, <5>4 DEF Saved, AnswerOf, OfOther, Unlike
        <5> QED BY <1>2, <2>1, <3>8, <4>3, <5>1, <5>4, <5>5
      <4> QED BY <4>1, <4>2, <4>3
    <3> QED BY <3>2, <3>7, <3>8
  <2> QED BY <2>5, <2>6, <2>7
<1> QED BY <1>1, <1>4, <1>5

\* The callback is told what came of the call.
LEMMA ReceiveIs ==
  ASSUME NEW sent, TablesAgree(Clients, Servers, Talks, sent), RestInv, Receive
  PROVE  /\ talk' = talk /\ kept' = kept /\ keptVersion' = keptVersion /\ wire' = NoCall
         /\ \/ /\ told' = "loaded" /\ held' # None /\ Same(held', kept) /\ talk.load # NoOp
               /\ heldVersion' = keptVersion
               /\ talk.save # NoOp => HeldFits(talk, held') /\ Taken(talk).of # NoModel
            \/ /\ held' = held /\ heldVersion' = heldVersion
               /\ \/ told' = "unread" /\ talk.save = NoOp /\ kept = NullList
                  \/ told' = "saved" /\ (held = None \/ kept = held \/ Unlike)
                  \/ told' = "declined"
                  \/ told' = "misread" /\ held.leaf = "frac"
                  \/ told' = "unsupported" /\ OfOther
<1>1. talk \in Talks /\ (Loaded \/ Saved \/ Declined \/ Misread \/ Unsupported)
  BY DEF RestInv, WireInv, Receive, NoCall, Loading, Saving, RequestOf
<1>2. UNCHANGED <<talk, kept, keptVersion>> /\ wire' = NoCall
  BY DEF Receive
<1> DEFINE loading == talk.load # NoOp /\ wire.name = talk.load
           d == IF loading THEN deserialize(Clients[wire.client].models, Loader.gives, wire.body) ELSE None
<1>3. /\ told' = CASE wire.says # "ok"                     -> wire.says
                   [] wire.says = "ok" /\ d.leaf = "error" -> "unread"
                   [] wire.says = "ok" /\ d.leaf # "error" -> IF loading THEN "loaded" ELSE "saved"
      /\ held' = IF told' = "loaded" THEN d ELSE held
      /\ heldVersion' = IF told' = "loaded" THEN wire.version ELSE heldVersion
  BY Zenon DEF Receive
<1> HIDE DEF d
<1>4. CASE Loaded
  <2> DEFINE b == Encode(Servers[talk.from].structs, Given(talk).of, kept)
             c == deserialize(Clients[talk.from].models, Given(talk), b)
  <2>1. /\ talk.load # NoOp /\ wire.name = talk.load /\ wire.client = talk.from /\ wire.says = "ok"
        /\ wire.body = b /\ wire.version = keptVersion
    BY <1>4 DEF Loaded, AnswerOf
  <2>2. d = c
    BY <2>1 DEF d, Loader, Given
  <2>3. CASE KeptFits(talk, kept)
    <3>1. /\ c.leaf # "error" /\ c # None /\ Same(c, kept)
          /\ talk.save # NoOp => HeldFits(talk, c)
      BY <1>1, <2>1, <2>3, LoadIs
    <3>2. talk.save # NoOp => Taken(talk).of # NoModel
      BY <1>1, <2>1, LoopFacts
    <3> HIDE DEF b, c
    <3>3. told' = "loaded" /\ held' = c /\ heldVersion' = keptVersion
      BY <1>3, <2>1, <2>2, <3>1
    <3> QED BY <1>2, <2>1, <3>1, <3>2, <3>3
  <2>4. CASE talk.save = NoOp /\ Given(talk).deep > 0 /\ kept = NullList
    <3>1. b = NullList
      BY <2>4 DEF Encode, NullList, Doc
    <3>2. Given(talk).of # NoModel
      BY <1>1, <2>1, LoadFacts DEF Given
    <3> HIDE DEF b
    <3>3. c.leaf = "error"
      BY <2>4, <3>1, <3>2 DEF deserialize, NullList, Doc
    <3> HIDE DEF c
    <3>4. told' = "unread" /\ held' = held /\ heldVersion' = heldVersion
      BY <1>3, <2>1, <2>2, <3>3
    <3> QED BY <1>2, <2>4, <3>4
  <2> QED BY <2>1, <2>3, <2>4 DEF RestInv, KeptInv
<1>5. CASE Saved
  <2>1. talk.save # NoOp /\ wire.name = talk.save /\ wire.says = "ok" /\ (held = None \/ kept = held \/ Unlike)
    BY <1>5 DEF Saved, AnswerOf
  <2>2. ~loading
    BY <1>1, <2>1, LoopFacts
  <2>3. d.leaf = "none"
    BY <2>2 DEF d, None
  <2>4. told' = "saved" /\ held' = held /\ heldVersion' = heldVersion
    BY <1>3, <2>1, <2>2, <2>3
  <2> QED BY <1>2, <2>1, <2>4
<1>6. CASE Declined \/ Misread \/ Unsupported
  <2>1. \/ wire.says = "declined"
        \/ wire.says = "misread" /\ held.leaf = "frac"
        \/ wire.says = "unsupported" /\ OfOther
    BY <1>6 DEF Declined, Misread, Unsupported, AnswerOf
  <2>2. told' = wire.says /\ held' = held /\ heldVersion' = heldVersion
    BY <1>3, <2>1
  <2> QED BY <1>2, <2>1, <2>2
<1> QED BY <1>1, <1>4, <1>5, <1>6

\* A step preserves the invariant.
LEMMA TalkInvStep ==
  ASSUME NEW sent, TablesAgree(Clients, Servers, Talks, sent), RestInv, [RcNext]_rcVars
  PROVE  RestInv'
<1>1. ASSUME Load PROVE RestInv'
  <2>1. /\ wire = NoCall /\ talk.load # NoOp /\ UNCHANGED <<talk, kept, held, keptVersion, heldVersion, edited>>
        /\ \/ told' = "thrown" /\ wire' = wire
           \/ wire' = RequestOf(talk.from, talk.load, Written(None), "none") /\ told' = told
    BY <1>1 DEF Load, Request, RequestOf
  <2>2. Written(None) = None
    BY DEF Written, None
  <2>3. WireInv'
    BY <2>1, <2>2 DEF WireInv, Loading, RequestOf
  <2>4. KeptInv' /\ HeldInv' /\ VersionInv' /\ ToldInv' /\ talk' \in Talks
    BY <2>1 DEF RestInv, KeptInv, HeldInv, VersionInv, ToldInv, KeptFits, HeldFits, Given, Taken, OfOther, Unlike
  <2> QED BY <2>3, <2>4 DEF RestInv
<1>2. ASSUME Save PROVE RestInv'
  <2>1. /\ wire = NoCall /\ talk.save # NoOp /\ (talk.load # NoOp => held # None)
        /\ UNCHANGED <<talk, kept, held, keptVersion, heldVersion, edited>>
        /\ \/ told' = "thrown" /\ wire' = wire
           \/ wire' = RequestOf(talk.into, talk.save, Written(held), heldVersion) /\ told' = told
    BY <1>2 DEF Save, Request, RequestOf
  <2>2. Written(held) = held
    BY <2>1, SentAsHeld
  <2>3. WireInv'
    BY <2>1, <2>2 DEF WireInv, Saving, RequestOf
  <2>4. KeptInv' /\ HeldInv' /\ VersionInv' /\ ToldInv' /\ talk' \in Talks
    BY <2>1 DEF RestInv, KeptInv, HeldInv, VersionInv, ToldInv, KeptFits, HeldFits, Given, Taken, OfOther, Unlike
  <2> QED BY <2>3, <2>4 DEF RestInv
<1>3. ASSUME Edit PROVE RestInv'
  <2>1. /\ talk.save # NoOp /\ held.path # <<>> /\ wire = NoCall
        /\ edited' = TRUE /\ told' = "nothing" /\ UNCHANGED <<talk, kept, keptVersion, heldVersion, wire>>
    BY <1>3 DEF Edit
  <2>2. PICK v \in ValuesOf(FieldAt(Properties(Clients[talk.into].models), Taken(talk).of, held.path, Len(held.path))) :
          held' = [held EXCEPT !.leaf = v]
    BY <1>3 DEF Edit, Taken, Saver
  <2>3. HeldFits(talk, held) /\ Taken(talk).of # NoModel
    BY <2>1 DEF RestInv, HeldInv, None, NullList, Doc
  <2>4. HeldFits(talk, held') /\ held # None
    BY <2>1, <2>2, <2>3, EditFits DEF None
  <2>5. HeldInv'
    BY <2>1, <2>3, <2>4 DEF HeldInv, HeldFits, Taken
  <2>6. KeptInv' /\ VersionInv' /\ ToldInv' /\ WireInv' /\ talk' \in Talks
    BY <2>1, <2>4 DEF RestInv, KeptInv, VersionInv, ToldInv, WireInv, KeptFits, Given
  <2> QED BY <2>5, <2>6 DEF RestInv
<1>4. ASSUME ServeCall PROVE RestInv'
  <2>1. /\ talk' = talk /\ held' = held /\ heldVersion' = heldVersion /\ edited' = edited /\ told' = told
        /\ \/ (Loaded' \/ Declined') /\ kept' = kept /\ keptVersion' = keptVersion
           \/ talk.save # NoOp /\ kept' = kept /\ keptVersion' = keptVersion /\ (Saved' \/ Misread' \/ Unsupported')
           \/ /\ talk.save # NoOp /\ Saved' /\ ~OfOther
              /\ \/ Unlike
                 \/ kept' = held /\ (talk.load # NoOp => KeptFits(talk, held))
              /\ talk.load # NoOp /\ Given(talk).of = Scenario => keptVersion' = "1.5" /\ heldVersion # "other"
    BY <1>4, ServeIs
  <2>2. WireInv'
    BY <2>1 DEF WireInv
  <2>3. HeldInv' /\ talk' \in Talks
    BY <2>1 DEF RestInv, HeldInv, HeldFits, Taken
  <2>4. CASE kept' = kept /\ keptVersion' = keptVersion
    BY <2>1, <2>2, <2>3, <2>4 DEF RestInv, KeptInv, VersionInv, ToldInv, KeptFits, Given, Taken, OfOther, Unlike
  <2>5. CASE /\ talk.save # NoOp /\ ~OfOther
             /\ Unlike \/ (kept' = held /\ (talk.load # NoOp => KeptFits(talk, held)))
             /\ talk.load # NoOp /\ Given(talk).of = Scenario => keptVersion' = "1.5" /\ heldVersion # "other"
    <3>1. KeptInv'
      BY <2>1, <2>5 DEF KeptInv, KeptFits, Given, Unlike
    <3>2. Same(held, held)
      BY DEF Same
    <3>3. ToldInv'
      BY <2>1, <2>5, <3>2 DEF RestInv, ToldInv, Unlike, OfOther, Taken
    <3>4. VersionInv'
      BY <2>1, <2>5 DEF RestInv, VersionInv, Upgraded, Given
    <3> QED BY <2>2, <2>3, <3>1, <3>3, <3>4 DEF RestInv
  <2> QED BY <2>1, <2>4, <2>5
<1>5. ASSUME Receive PROVE RestInv'
  <2>1. /\ talk' = talk /\ kept' = kept /\ keptVersion' = keptVersion /\ wire' = NoCall
        /\ \/ /\ told' = "loaded" /\ held' # None /\ Same(held', kept) /\ talk.load # NoOp
              /\ heldVersion' = keptVersion
              /\ talk.save # NoOp => HeldFits(talk, held') /\ Taken(talk).of # NoModel
           \/ /\ held' = held /\ heldVersion' = heldVersion
              /\ \/ told' = "unread" /\ talk.save = NoOp /\ kept = NullList
                 \/ told' = "saved" /\ (held = None \/ kept = held \/ Unlike)
                 \/ told' = "declined"
                 \/ told' = "misread" /\ held.leaf = "frac"
                 \/ told' = "unsupported" /\ OfOther
    BY <1>5, ReceiveIs
  <2>2. KeptInv' /\ WireInv' /\ talk' \in Talks
    BY <2>1 DEF RestInv, KeptInv, WireInv, KeptFits, Given
  <2>3. HeldInv'
    BY <2>1 DEF RestInv, HeldInv, HeldFits, Taken
  <2>4. held = kept => Same(held, kept)
    BY DEF Same
  <2>5. VersionInv'
    BY <2>1 DEF RestInv, VersionInv, Given
  <2>6. ToldInv'
    BY <2>1, <2>4 DEF ToldInv, Unlike, OfOther, Taken
  <2> QED BY <2>2, <2>3, <2>5, <2>6 DEF RestInv
<1>6. ASSUME TimeOut PROVE RestInv'
  BY <1>6 DEF TimeOut, RestInv, KeptInv, HeldInv, VersionInv, WireInv, ToldInv, KeptFits, HeldFits, Given, Taken,
              Unlike, OfOther
<1>7. ASSUME UNCHANGED rcVars PROVE RestInv'
  <2>1. WireInv'
    BY <1>7 DEF rcVars, RestInv, WireInv, Loading, Saving, Loaded, Saved, Declined, Misread, Unsupported, Unlike,
                OfOther, Given, Taken
  <2> QED BY <1>7, <2>1 DEF rcVars, RestInv, KeptInv, HeldInv, VersionInv, ToldInv, KeptFits, HeldFits, Given,
                            Taken, Unlike, OfOther
<1> QED BY <1>1, <1>2, <1>3, <1>4, <1>5, <1>6, <1>7 DEF RcNext

(* Where the tables of the clients and of the servers agree, the state of a *)
(* talk is what the fields of both ends allow, whatever call is under way.  *)
THEOREM TalkInvariant ==
  ASSUME NEW CONSTANT sent, TablesAgree(Clients, Servers, Talks, sent)
  PROVE  RcSpec => []RestInv
<1>1. RcInit => RestInv
  BY TalkInvInit
<1>2. RestInv /\ [RcNext]_rcVars => RestInv'
  BY TalkInvStep
<1> QED BY <1>1, <1>2, PTL DEF RcSpec

(* An answer comes from the handler the operation is named after, in every  *)
(* client and server whose tables agree.                                    *)
THEOREM AnswersByName ==
  ASSUME NEW CONSTANT sent, TablesAgree(Clients, Servers, Talks, sent)
  PROVE  RcSpec => []AnsweredByName
<1>1. RestInv => AnsweredByName
  BY DEF RestInv, WireInv, AnsweredByName, NoCall, Loading, Saving, Loaded, Saved, Declined, Misread,
         Unsupported, RequestOf, AnswerOf
<1> QED BY <1>1, TalkInvariant, PTL

(* What was shown on a load or told to be saved is what the server has, on  *)
(* every way through models and structs that agree key by key, whatever was *)
(* declined or lost before; but for what the upgrade of a scenario changes. *)
THEOREM NoFieldIsLost ==
  ASSUME NEW CONSTANT sent, TablesAgree(Clients, Servers, Talks, sent)
  PROVE  RcSpec => []NothingLost
<1>1. RestInv => NothingLost
  BY DEF RestInv, ToldInv, NothingLost, Unlike
<1> QED BY <1>1, TalkInvariant, PTL

(* A document is refused for a fraction or an unsupported version only, an  *)
(* answer unread for a list that is null only.                              *)
THEOREM FailureHasAReason ==
  ASSUME NEW CONSTANT sent, TablesAgree(Clients, Servers, Talks, sent)
  PROVE  RcSpec => []FailureIsExplained
<1>1. RestInv => FailureIsExplained
  BY DEF RestInv, ToldInv, FailureIsExplained, NullList, OfOther
<1> QED BY <1>1, TalkInvariant, PTL
=============================================================================
