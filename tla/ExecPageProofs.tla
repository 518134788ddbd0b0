--------------------------- MODULE ExecPageProofs ---------------------------
(****************************************************************************)
(* Proofs about the execution page: which scenario it shows, where its      *)
(* calls go and what its buttons offer, for any number of sandboxes,        *)
(* scenarios, calls under way and timers, and whatever users do.            *)
(*                                                                          *)
(* Then about its panes: they implement the page, so what is proved of it   *)
(* holds with them; and the events they send, the boxes of the automation   *)
(* and the file that STOP asks for are right up to the named cases, for any *)
(* scenarios, elements, files and modes.                                    *)
(****************************************************************************)
EXTENDS EventPanes, TLAPS

Names == Sandboxes \union {Nothing}

Calls == [op : Reads \union Writes, to : Names, arg : Names \union Scenarios, no : Nat,
          stage : {"sent", "served", "failed"},
          gives : SUBSET (Sandboxes \union Scenarios \union Phases)]

(* What a call is about, by its kind, and what it may bring back.           *)
Suited(c) ==
    /\ c.op \in {"create", "delete"} => c.arg \in Sandboxes
    /\ c.op = "activate" => c.arg \in Scenarios
    /\ c.op = "pods" => c.to \in Sandboxes /\ c.gives \in SUBSET Phases
    /\ c.op = "list" => c.gives \in SUBSET Sandboxes
    /\ c.op = "active" /\ c.stage = "served" => \E s \in Scenarios : c.gives = {s}

(* The types of the variables.                                              *)
TypeOK ==
    /\ session \in DOMAIN Sessions
    /\ server \in Platforms
    /\ sandbox \in Names
    /\ sandboxes \in SUBSET Sandboxes
    /\ base \in Names
    /\ exec \in [scenario : Scenarios \union {Nothing}, of : Names, state : {"IDLE", "DEPLOYED"},
                 ok : BOOLEAN, pods : SUBSET Phases]
    /\ timers \in Nat /\ ticks \in Nat /\ moves \in Nat
    /\ hidden \in BOOLEAN
    /\ page \in Pages
    /\ dialog \in Dialogs \union {Nothing}
    /\ calls \in SUBSET Calls /\ \A c \in calls : Suited(c)
    /\ stray \in {"none", "late", "failed"}

(* The flag that offers to terminate is set of nothing but a scenario that  *)
(* is shown as deployed.                                                    *)
FlagIsShown ==
    /\ exec.ok => exec.state = "DEPLOYED"
    /\ exec.state = "DEPLOYED" => exec.scenario \in Scenarios

IInv == TypeOK /\ FlagIsShown /\ CallsGoToTheSelected /\ ShownIsExplained
-----------------------------------------------------------------------------
(* The calls of the page are about what their kinds say.                    *)
LEMMA ReadsSuit ==
  ASSUME NEW op \in Reads, NEW to \in Names, op = "pods" => to \in Sandboxes
  PROVE  Read(op, to) \in Calls /\ Suited(Read(op, to))
  <1>1. Read(op, to) = [op |-> op, to |-> to, arg |-> Nothing, no |-> 0, stage |-> "sent", gives |-> {}]
    BY DEF Read, Call
  <1>2. Read(op, to) \in Calls
    BY <1>1 DEF Calls, Names
  <1> QED BY <1>1, <1>2 DEF Suited, Reads

LEMMA WritesSuit ==
  ASSUME NEW op \in Writes, NEW to \in Names, NEW arg \in Names \union Scenarios, NEW no \in Nat,
         op \in {"create", "delete"} => arg \in Sandboxes,
         op = "activate" => arg \in Scenarios
  PROVE  Call(op, to, arg, no) \in Calls /\ Suited(Call(op, to, arg, no))
  <1>1. Call(op, to, arg, no)
          = [op |-> op, to |-> to, arg |-> arg, no |-> no, stage |-> "sent", gives |-> {}]
    BY DEF Call
  <1>2. Call(op, to, arg, no) \in Calls
    BY <1>1 DEF Calls
  <1> QED BY <1>1, <1>2 DEF Suited, Writes

LEMMA RefreshSuits ==
  ASSUME NEW b \in Names
  PROVE  refreshScenario(b) \in SUBSET Calls /\ \A c \in refreshScenario(b) : Suited(c)
  BY ReadsSuit DEF refreshScenario, Reads

(* What has a path to it and is up is a sandbox, and plays a scenario.      *)
LEMMA PlaysScenario ==
  ASSUME TypeOK, NEW c, Plays(c)
  PROVE  c.to \in Sandboxes /\ server[c.to].active \in Scenarios
  BY DEF TypeOK, Plays, Has, Platforms

-----------------------------------------------------------------------------
(* The page starts with no scenario and with its path at its sandbox.       *)
LEMMA InitInductive == Init => IInv
  <1> SUFFICES ASSUME Init PROVE IInv
    OBVIOUS
  <1>1. session \in DOMAIN Sessions /\ server \in Platforms /\ sandbox \in Names
        /\ sandboxes \in SUBSET Sandboxes
    BY ExecAssumption DEF Init, ExecAssumption, Session, Names
  <1>2. exec = [scenario |-> Nothing, of |-> Nothing, state |-> "IDLE", ok |-> FALSE, pods |-> {}]
    BY DEF Init, Idle
  <1>3. calls \in SUBSET Calls /\ \A c \in calls : Suited(c)
    BY <1>1, ReadsSuit DEF Init, Reads
  <1>4. hidden \in BOOLEAN
    <2>1. CASE "visibility" \in Session.may
      BY <2>1 DEF Init
    <2>2. CASE "visibility" \notin Session.may
      BY <2>2 DEF Init
    <2> QED BY <2>1, <2>2
  <1>5. TypeOK
    BY <1>1, <1>2, <1>3, <1>4 DEF TypeOK, Init, Names, Pages
  <1> QED BY <1>2, <1>5 DEF IInv, Init, FlagIsShown, CallsGoToTheSelected, ShownIsExplained

-----------------------------------------------------------------------------
(* More calls, or calls that go on, explain what the calls before did.      *)
LEMMA MoreCalls ==
  ASSUME IInv, NEW cs \in SUBSET Calls, \A c \in cs : Suited(c),
         calls' = calls \union cs, UNCHANGED <<sandbox, base, exec, stray>>
  PROVE  /\ calls' \in SUBSET Calls /\ \A c \in calls' : Suited(c)
         /\ FlagIsShown' /\ CallsGoToTheSelected' /\ ShownIsExplained'
  BY DEF IInv, TypeOK, FlagIsShown, CallsGoToTheSelected, ShownIsExplained, Asked

LEMMA SameCalls ==
  ASSUME IInv, UNCHANGED <<sandbox, base, calls, stray, exec>>
  PROVE  FlagIsShown' /\ CallsGoToTheSelected' /\ ShownIsExplained'
  BY DEF IInv, FlagIsShown, CallsGoToTheSelected, ShownIsExplained, Asked

(* A call that is served or lost is still about the same.                   *)
LEMMA CallGoesOn ==
  ASSUME IInv, NEW c \in calls, NEW d \in Calls, Suited(d), d.op = c.op, d.to = c.to,
         calls' = (calls \ {c}) \union {d}, UNCHANGED <<sandbox, base, exec, stray>>
  PROVE  /\ calls' \in SUBSET Calls /\ \A e \in calls' : Suited(e)
         /\ FlagIsShown' /\ CallsGoToTheSelected' /\ ShownIsExplained'
  BY DEF IInv, TypeOK, FlagIsShown, CallsGoToTheSelected, ShownIsExplained, Asked

-----------------------------------------------------------------------------
(* The tab, the pages and the dialogs leave calls and scenario alone.       *)
LEMMA ViewSteps ==
  ASSUME IInv, handleVisibilityChange \/ changeCurrentPage \/ OpenDialog \/ closeDialog
  PROVE  IInv'
  <1>1. FlagIsShown' /\ CallsGoToTheSelected' /\ ShownIsExplained'
    BY SameCalls DEF handleVisibilityChange, changeCurrentPage, OpenDialog, closeDialog
  <1>2. CASE handleVisibilityChange
    <2>1. ticks' \in Nat /\ hidden' \in BOOLEAN /\ moves' \in Nat
      BY <1>2 DEF IInv, TypeOK, handleVisibilityChange, Move, startTimers, stopTimers
    <2>2. TypeOK'
      BY <1>2, <2>1 DEF IInv, TypeOK, handleVisibilityChange, Move
    <2> QED BY <1>1, <2>2 DEF IInv
  <1>3. CASE changeCurrentPage
    <2>1. TypeOK'
      BY <1>3 DEF IInv, TypeOK, changeCurrentPage, Move
    <2> QED BY <1>1, <2>1 DEF IInv
  <1>4. CASE OpenDialog
    <2>1. TypeOK'
      BY <1>4 DEF IInv, TypeOK, OpenDialog
    <2> QED BY <1>1, <2>1 DEF IInv
  <1>5. CASE closeDialog
    <2>1. TypeOK'
      BY <1>5 DEF IInv, TypeOK, closeDialog
    <2> QED BY <1>1, <2>1 DEF IInv
  <1> QED BY <1>2, <1>3, <1>4, <1>5

(* A page that is loaded anew shows nothing and asks about its sandbox.     *)
LEMMA ReloadStep == IInv /\ Reload => IInv'
  <1> SUFFICES ASSUME IInv, Reload PROVE IInv'
    OBVIOUS
  <1>1. calls' \in SUBSET Calls /\ \A c \in calls' : Suited(c)
    BY ReadsSuit DEF IInv, TypeOK, Reload, componentDidMount, Reads
  <1>2. exec' = [scenario |-> Nothing, of |-> Nothing, state |-> "IDLE", ok |-> FALSE, pods |-> {}]
    BY DEF Reload, Idle
  <1>3. TypeOK'
    BY <1>1, <1>2 DEF IInv, TypeOK, Reload, componentDidMount, Move, Names
  <1> QED BY <1>2, <1>3 DEF IInv, Reload, componentDidMount, FlagIsShown, CallsGoToTheSelected,
                           ShownIsExplained

(* The refresh asks for more.                                               *)
LEMMA RefreshStep == IInv /\ startExecPageRefresh => IInv'
  <1> SUFFICES ASSUME IInv, startExecPageRefresh PROVE IInv'
    OBVIOUS
  <1> DEFINE all == {Read("list", Nothing)} \union
                      IF sandbox = Nothing THEN {}
                      ELSE {Read("pods", sandbox)} \union refreshScenario(base)
  <1>1. all \in SUBSET Calls /\ \A c \in all : Suited(c)
    <2>1. Nothing \in Names /\ sandbox \in Names /\ base \in Names
      BY DEF IInv, TypeOK, Names
    <2>2. Read("list", Nothing) \in Calls /\ Suited(Read("list", Nothing))
      BY <2>1, ReadsSuit DEF Reads
    <2>3. sandbox # Nothing => Read("pods", sandbox) \in Calls /\ Suited(Read("pods", sandbox))
      BY <2>1, ReadsSuit DEF Reads, Names
    <2>4. refreshScenario(base) \in SUBSET Calls /\ \A c \in refreshScenario(base) : Suited(c)
      BY <2>1, RefreshSuits
    <2> QED BY <2>2, <2>3, <2>4
  <1>2. Followed(all) \in SUBSET Calls /\ \A c \in Followed(all) : Suited(c)
    BY <1>1 DEF Followed
  <1>3. calls' = calls \union Followed(all)
    BY DEF startExecPageRefresh
  <1>4. UNCHANGED <<session, server, sandbox, sandboxes, base, exec, timers, ticks, hidden, page,
                    dialog, moves, stray>>
    BY DEF startExecPageRefresh
  <1> HIDE DEF all
  <1>5. /\ calls' \in SUBSET Calls /\ \A c \in calls' : Suited(c)
        /\ FlagIsShown' /\ CallsGoToTheSelected' /\ ShownIsExplained'
    BY <1>2, <1>3, <1>4, MoreCalls
  <1>6. TypeOK'
    BY <1>4, <1>5 DEF IInv, TypeOK
  <1> QED BY <1>5, <1>6 DEF IInv

(* The timer sets the flag of nothing but a scenario that is shown.         *)
LEMMA TimerStep == IInv /\ OkToTerminate => IInv'
  <1> SUFFICES ASSUME IInv, OkToTerminate PROVE IInv'
    OBVIOUS
  <1> DEFINE flag == exec.ok \/ exec.state = "DEPLOYED"
  <1>1. flag \in BOOLEAN /\ exec' = [exec EXCEPT !.ok = flag]
    BY Zenon DEF OkToTerminate
  <1>2. flag => exec.state = "DEPLOYED"
    BY DEF IInv, FlagIsShown
  <1> HIDE DEF flag
  <1>3. /\ exec'.ok = flag /\ exec'.state = exec.state
        /\ exec'.scenario = exec.scenario /\ exec'.of = exec.of
    BY <1>1 DEF IInv, TypeOK
  <1>4. TypeOK'
    BY <1>1 DEF IInv, TypeOK, OkToTerminate
  <1> QED BY <1>2, <1>3, <1>4 DEF IInv, OkToTerminate, FlagIsShown, CallsGoToTheSelected,
                                  ShownIsExplained, Asked

-----------------------------------------------------------------------------
(* A sandbox that is selected has its path and its question asked.          *)
LEMMA SelectStep == IInv /\ setSandbox => IInv'
  <1> SUFFICES ASSUME IInv, setSandbox PROVE IInv'
    OBVIOUS
  <1>1. PICK name \in sandboxes : base' = name /\ sandbox' = name /\ calls' = calls \union refreshScenario(name)
    BY DEF setSandbox, setBasepath
  <1>2. name \in Names
    BY DEF IInv, TypeOK, Names
  <1>3. calls' \in SUBSET Calls /\ \A c \in calls' : Suited(c)
    BY <1>1, <1>2, RefreshSuits DEF IInv, TypeOK
  <1>4. TypeOK'
    BY <1>1, <1>2, <1>3 DEF IInv, TypeOK, setSandbox, Move
  <1>5. Read("active", name) \in calls' /\ Read("active", name).op = "active" /\ Read("active", name).to = name
    BY <1>1 DEF refreshScenario, Read, Call
  <1> QED BY <1>1, <1>4, <1>5 DEF IInv, setSandbox, FlagIsShown, CallsGoToTheSelected, ShownIsExplained

(* What is submitted is one more call.                                      *)
LEMMA SubmitTypes ==
  ASSUME IInv, NEW d, NEW c \in Calls, Suited(c), Submit(d, c), sandbox' \in Names,
         stray' \in {"none", "late", "failed"}
  PROVE  TypeOK'
  <1>1. calls' \in SUBSET Calls /\ \A e \in calls' : Suited(e)
    BY DEF IInv, TypeOK, Submit
  <1> QED BY <1>1 DEF IInv, TypeOK, Submit, Move

LEMMA SubmitStep ==
  ASSUME IInv, NEW d, NEW c \in Calls, Suited(c), Submit(d, c), UNCHANGED <<sandbox, stray>>
  PROVE  IInv'
  <1>1. TypeOK'
    BY SubmitTypes DEF IInv, TypeOK
  <1>2. {c} \in SUBSET Calls /\ (\A e \in {c} : Suited(e)) /\ calls' = calls \union {c}
        /\ UNCHANGED <<base, exec>>
    BY DEF Submit
  <1>3. FlagIsShown' /\ CallsGoToTheSelected' /\ ShownIsExplained'
    BY <1>2, MoreCalls
  <1> QED BY <1>1, <1>3 DEF IInv

(* A sandbox that is selected before it is there is so while its creation   *)
(* is under way.                                                            *)
LEMMA CreateStep == IInv /\ createSandbox => IInv'
  <1> SUFFICES ASSUME IInv, createSandbox PROVE IInv'
    OBVIOUS
  <1>1. PICK name \in Sandboxes :
          Submit("create", Call("create", Nothing, name, moves + 1)) /\ sandbox' = name /\ stray' = "none"
    BY DEF createSandbox
  <1> DEFINE c == Call("create", Nothing, name, moves + 1)
  <1>2. c \in Calls /\ Suited(c)
    <2>1. moves + 1 \in Nat /\ Nothing \in Names /\ name \in Names
      BY DEF IInv, TypeOK, Names
    <2> QED BY <2>1, WritesSuit DEF Writes
  <1>3. c.op = "create"
    BY DEF Call
  <1>4. Submit("create", c)
    BY <1>1
  <1> HIDE DEF c
  <1>5. TypeOK'
    BY <1>1, <1>2, <1>4, SubmitTypes DEF Names
  <1>6. Asked("create")'
    BY <1>3, <1>4 DEF Asked, Submit
  <1>7. exec' = exec
    BY <1>4 DEF Submit
  <1> QED BY <1>5, <1>6, <1>7 DEF IInv, FlagIsShown, CallsGoToTheSelected, ShownIsExplained

LEMMA WriteSteps ==
  ASSUME IInv, deleteSandbox \/ onDeployScenario \/ terminateScenario \/ sendEvent
  PROVE  IInv'
  <1>1. moves + 1 \in Nat /\ sandbox \in Names /\ base \in Names /\ Nothing \in Names
    BY DEF IInv, TypeOK, Names
  <1>2. CASE deleteSandbox
    <2>1. /\ Call("delete", Nothing, sandbox, moves + 1) \in Calls
          /\ Suited(Call("delete", Nothing, sandbox, moves + 1))
      BY <1>1, <1>2, WritesSuit DEF deleteSandbox, Writes, Names
    <2> QED BY <1>2, <2>1, SubmitStep DEF deleteSandbox
  <1>3. CASE onDeployScenario
    <2>1. PICK name \in Scenarios :
            Submit("activate", Call("activate", base, name, moves + 1)) /\ UNCHANGED <<sandbox, stray>>
      BY <1>3 DEF onDeployScenario
    <2>2. /\ Call("activate", base, name, moves + 1) \in Calls
          /\ Suited(Call("activate", base, name, moves + 1))
      BY <1>1, WritesSuit DEF Writes
    <2> QED BY <2>1, <2>2, SubmitStep
  <1>4. CASE terminateScenario
    <2>1. /\ Call("terminate", base, Nothing, moves + 1) \in Calls
          /\ Suited(Call("terminate", base, Nothing, moves + 1))
      BY <1>1, WritesSuit DEF Writes
    <2> QED BY <1>4, <2>1, SubmitStep DEF terminateScenario
  <1>5. CASE sendEvent
    <2>1. /\ Call("event", base, Nothing, moves + 1) \in Calls
          /\ Suited(Call("event", base, Nothing, moves + 1))
      BY <1>1, WritesSuit DEF Writes
    <2> QED BY <1>5, <2>1, SubmitStep DEF sendEvent
  <1> QED BY <1>2, <1>3, <1>4, <1>5

-----------------------------------------------------------------------------
(* What the platform does keeps its types, and what it gives is suited.     *)
LEMMA DoesTypes ==
  ASSUME TypeOK, NEW c \in calls, Serves(c)
  PROVE  Does(c) \in Platforms
  <1> USE DEF Platforms
  <1>1. server \in Platforms /\ c \in Calls /\ Suited(c)
    BY DEF TypeOK
  <1> DEFINE Box == [up : BOOLEAN, active : Scenarios \union {Nothing}, pods : SUBSET Phases]
  <1>2. Down \in Box
    <2>1. Down = [up |-> FALSE, active |-> Nothing, pods |-> {}]
      BY DEF Down
    <2> QED BY <2>1
  <1>3. \A d \in Box, b \in BOOLEAN : [d EXCEPT !.up = b] \in Box
    OBVIOUS
  <1>4. CASE c.op = "create"
    <2>1. Does(c) = [server EXCEPT ![c.arg] = [Down EXCEPT !.up = TRUE]]
      BY <1>4 DEF Does
    <2> DEFINE new == [Down EXCEPT !.up = TRUE]
    <2>2. new \in Box
      BY <1>2, <1>3
    <2>3. Does(c) = [server EXCEPT ![c.arg] = new]
      BY <2>1
    <2> HIDE DEF new
    <2> QED BY <1>1, <2>2, <2>3
  <1>5. CASE c.op = "delete"
    <2>1. Does(c) = [server EXCEPT ![c.arg] = Down]
      BY <1>5 DEF Does
    <2> QED BY <1>1, <1>2, <2>1
  <1>6. CASE c.op = "activate"
    <2>1. Does(c) = [server EXCEPT ![c.to].active = c.arg, ![c.to].pods = {"Pending"}]
      BY <1>6 DEF Does
    <2>2. c.to \in Sandboxes /\ c.arg \in Scenarios
      BY <1>1, <1>6 DEF Serves, Has, Suited
    <2> QED BY <1>1, <2>1, <2>2 DEF Phases
  <1>7. CASE c.op = "terminate"
    <2>1. Does(c) = [server EXCEPT ![c.to].active = Nothing, ![c.to].pods = {"Terminating"}]
      BY <1>7 DEF Does
    <2>2. c.to \in Sandboxes
      BY <1>7, PlaysScenario DEF Serves
    <2> QED BY <1>1, <2>1, <2>2 DEF Phases
  <1>8. CASE c.op \notin {"create", "delete", "activate", "terminate"}
    <2>1. Does(c) = server
      BY <1>8 DEF Does
    <2> QED BY <1>1, <2>1
  <1> QED BY <1>4, <1>5, <1>6, <1>7, <1>8

LEMMA GivesSuits ==
  ASSUME TypeOK, NEW c \in calls, Serves(c)
  PROVE  /\ Gives(c) \in SUBSET (Sandboxes \union Scenarios \union Phases)
         /\ c.op = "list" => Gives(c) \in SUBSET Sandboxes
         /\ c.op = "pods" => Gives(c) \in SUBSET Phases
         /\ c.op = "active" => \E s \in Scenarios : Gives(c) = {s}
  <1>1. server \in Platforms /\ c \in Calls /\ Suited(c)
    BY DEF TypeOK
  <1>2. CASE c.op = "list"
    BY <1>2 DEF Gives
  <1>3. CASE c.op = "pods"
    BY <1>1, <1>3 DEF Gives, Suited, Platforms
  <1>4. CASE c.op = "active"
    <2>1. Gives(c) = {server[c.to].active}
      BY <1>4 DEF Gives
    <2>2. server[c.to].active \in Scenarios
      BY <1>4, PlaysScenario DEF Serves
    <2> QED BY <1>4, <2>1, <2>2
  <1>5. CASE c.op \notin {"list", "pods", "active"}
    BY <1>5 DEF Gives
  <1> QED BY <1>2, <1>3, <1>4, <1>5

LEMMA ServeStep == ASSUME IInv, NEW c \in calls, Serve(c) PROVE IInv'
  <1>1. TypeOK /\ c \in Calls /\ Suited(c)
    BY DEF IInv, TypeOK
  <1> DEFINE stage == IF Serves(c) THEN "served" ELSE "failed"
             gives == IF Serves(c) THEN Gives(c) ELSE {}
             d == [c EXCEPT !.stage = stage, !.gives = gives]
  <1>2. calls' = (calls \ {c}) \union {d}
    BY DEF Serve
  <1>3. /\ gives \in SUBSET (Sandboxes \union Scenarios \union Phases)
        /\ stage \in {"served", "failed"}
        /\ c.op = "list" => gives \in SUBSET Sandboxes
        /\ c.op = "pods" => gives \in SUBSET Phases
        /\ c.op = "active" /\ stage = "served" => \E s \in Scenarios : gives = {s}
    BY <1>1, GivesSuits
  <1> HIDE DEF stage, gives
  <1>4. /\ d \in Calls /\ d.op = c.op /\ d.to = c.to /\ d.arg = c.arg
        /\ d.stage = stage /\ d.gives = gives
    BY <1>1, <1>3 DEF Calls
  <1> HIDE DEF d
  <1>5. Suited(d)
    BY <1>1, <1>3, <1>4 DEF Suited
  <1>6. UNCHANGED <<session, sandbox, sandboxes, base, exec, timers, ticks, hidden, page, dialog,
                    moves, stray>>
    BY DEF Serve
  <1>7. /\ calls' \in SUBSET Calls /\ \A e \in calls' : Suited(e)
        /\ FlagIsShown' /\ CallsGoToTheSelected' /\ ShownIsExplained'
    BY <1>2, <1>4, <1>5, <1>6, CallGoesOn
  <1>8. server' \in Platforms
    BY <1>1, DoesTypes DEF Serve, TypeOK
  <1>9. TypeOK'
    BY <1>1, <1>6, <1>7, <1>8 DEF TypeOK
  <1> QED BY <1>7, <1>9 DEF IInv

LEMMA LoseStep == ASSUME IInv, NEW c \in calls, Lose(c) PROVE IInv'
  <1>1. TypeOK /\ c \in Calls /\ Suited(c)
    BY DEF IInv, TypeOK
  <1> DEFINE d == [c EXCEPT !.stage = "failed", !.gives = {}]
  <1>2. calls' = (calls \ {c}) \union {d}
    BY DEF Lose
  <1>3. /\ d \in Calls /\ d.op = c.op /\ d.to = c.to /\ d.arg = c.arg
        /\ d.stage = "failed" /\ d.gives = {}
    BY <1>1 DEF Calls
  <1> HIDE DEF d
  <1>4. Suited(d)
    BY <1>1, <1>3 DEF Suited
  <1>5. UNCHANGED <<session, server, sandbox, sandboxes, base, exec, timers, ticks, hidden, page,
                    dialog, stray>> /\ moves' = moves + 1
    BY DEF Lose, Move
  <1>6. /\ calls' \in SUBSET Calls /\ \A e \in calls' : Suited(e)
        /\ FlagIsShown' /\ CallsGoToTheSelected' /\ ShownIsExplained'
    BY <1>2, <1>3, <1>4, <1>5, CallGoesOn
  <1>7. TypeOK'
    BY <1>1, <1>5, <1>6 DEF TypeOK
  <1> QED BY <1>6, <1>7 DEF IInv

LEMMA PodsStep == IInv /\ MovePods => IInv'
  <1> SUFFICES ASSUME IInv, MovePods PROVE IInv'
    OBVIOUS
  <1>1. PICK s \in Sandboxes : server' = [server EXCEPT ![s].pods = IF @ = {"Pending"} THEN {"Running"} ELSE {}]
    BY DEF MovePods
  <1> DEFINE pods == IF server[s].pods = {"Pending"} THEN {"Running"} ELSE {}
  <1>2. pods \in SUBSET Phases /\ server' = [server EXCEPT ![s].pods = pods]
    BY <1>1 DEF Phases
  <1> HIDE DEF pods
  <1>3. server' \in Platforms
    BY <1>2 DEF IInv, TypeOK, Platforms
  <1>4. TypeOK'
    BY <1>3 DEF IInv, TypeOK, MovePods
  <1> QED BY <1>4, SameCalls DEF IInv, MovePods

-----------------------------------------------------------------------------
(* An answer leaves the calls it leaves, and what the callback asks for.    *)
LEMMA AnswerCalls ==
  ASSUME TypeOK, NEW c \in calls, Answer(c), base' \in Names
  PROVE  calls' \in SUBSET Calls /\ \A e \in calls' : Suited(e)
  <1>1. Refreshed(c) \in SUBSET Calls /\ \A e \in Refreshed(c) : Suited(e)
    BY RefreshSuits DEF Refreshed
  <1> QED BY <1>1 DEF TypeOK, Answer

(* The answer about the active scenario: the page shows it, or turns idle.  *)
LEMMA ActiveAnswer ==
  ASSUME IInv, NEW c \in calls, Answer(c), c.op = "active"
  PROVE  IInv'
  <1>1. TypeOK /\ c \in Calls /\ Suited(c) /\ base \in Names
    BY DEF IInv, TypeOK
  <1>2. getActiveScenarioCb(c)
    BY DEF Answer, Callback
  <1>3. UNCHANGED <<sandbox, sandboxes, base, session, server, ticks, hidden, page, dialog, moves>>
    BY <1>2 DEF getActiveScenarioCb, Answer
  <1>4. calls' \in SUBSET Calls /\ \A e \in calls' : Suited(e)
    BY <1>1, <1>3, AnswerCalls
  <1>5. \A e \in calls : e.op = "create" => e \in calls'
    BY DEF Answer
  <1>6. CallsGoToTheSelected'
    BY <1>3, <1>5 DEF IInv, CallsGoToTheSelected, Asked
  <1>7. CASE Ok(c)
    <2> DEFINE shown == CHOOSE s \in c.gives : TRUE
    <2>1. shown \in Scenarios
      BY <1>1, <1>7 DEF Suited, Ok
    <2>2. /\ exec' = [exec EXCEPT !.scenario = shown, !.of = c.to, !.state = "DEPLOYED"]
          /\ timers' = timers + 1 /\ stray' = IF c.to = sandbox THEN "none" ELSE "late"
      BY <1>2, <1>7 DEF getActiveScenarioCb
    <2> HIDE DEF shown
    <2>3. /\ exec' \in [scenario : Scenarios \union {Nothing}, of : Names, state : {"IDLE", "DEPLOYED"},
                        ok : BOOLEAN, pods : SUBSET Phases]
          /\ exec'.state = "DEPLOYED" /\ exec'.scenario = shown /\ exec'.of = c.to
      BY <1>1, <2>1, <2>2 DEF TypeOK, Calls
    <2>4. TypeOK'
      BY <1>1, <1>3, <1>4, <2>2, <2>3 DEF TypeOK
    <2> QED BY <1>3, <1>6, <2>1, <2>2, <2>3, <2>4 DEF IInv, FlagIsShown, ShownIsExplained
  <1>8. CASE ~Ok(c)
    <2>1. exec' = [exec EXCEPT !.state = "IDLE", !.ok = FALSE] /\ UNCHANGED <<timers, stray>>
      BY <1>2, <1>8 DEF getActiveScenarioCb
    <2>2. /\ exec' \in [scenario : Scenarios \union {Nothing}, of : Names, state : {"IDLE", "DEPLOYED"},
                        ok : BOOLEAN, pods : SUBSET Phases]
          /\ exec'.state = "IDLE" /\ exec'.ok = FALSE
      BY <1>1, <2>1 DEF TypeOK
    <2>3. TypeOK'
      BY <1>1, <1>3, <1>4, <2>1, <2>2 DEF TypeOK
    <2> QED BY <1>6, <2>2, <2>3 DEF IInv, FlagIsShown, ShownIsExplained
  <1> QED BY <1>7, <1>8

(* The answer to a creation: the path follows the sandbox and its scenario  *)
(* is asked for, or no sandbox is selected.                                 *)
LEMMA CreateAnswer ==
  ASSUME IInv, NEW c \in calls, Answer(c), c.op = "create"
  PROVE  IInv'
  <1>1. TypeOK /\ FlagIsShown
    BY DEF IInv
  <1>2. createSandboxWithNameCb(c)
    BY DEF Answer, Callback
  <1>3. UNCHANGED <<sandboxes, exec, timers, session, server, ticks, hidden, page, dialog, moves>>
    BY <1>2 DEF createSandboxWithNameCb, Answer
  <1>4. CASE Ok(c)
    <2>1. base' = sandbox /\ UNCHANGED <<sandbox, stray>>
      BY <1>2, <1>4 DEF createSandboxWithNameCb, setBasepath
    <2>2. calls' \in SUBSET Calls /\ \A e \in calls' : Suited(e)
      BY <1>1, <2>1, AnswerCalls DEF TypeOK
    <2>3. TypeOK'
      BY <1>1, <1>3, <2>1, <2>2 DEF TypeOK
    <2>4. Read("active", sandbox) \in calls'
      BY <1>4, <2>1 DEF Answer, Refreshed, refreshScenario
    <2>5. Read("active", sandbox).op = "active" /\ Read("active", sandbox).to = sandbox
      BY DEF Read, Call
    <2> QED BY <1>1, <1>3, <2>1, <2>3, <2>4, <2>5 DEF IInv, FlagIsShown, CallsGoToTheSelected, ShownIsExplained
  <1>5. CASE ~Ok(c)
    <2>1. sandbox' = Nothing /\ stray' = "failed" /\ base' = base
      BY <1>2, <1>5 DEF createSandboxWithNameCb
    <2>2. calls' \in SUBSET Calls /\ \A e \in calls' : Suited(e)
      BY <1>1, <2>1, AnswerCalls DEF TypeOK
    <2>3. TypeOK'
      BY <1>1, <1>3, <2>1, <2>2 DEF TypeOK, Names
    <2> QED BY <1>1, <1>3, <2>1, <2>3 DEF IInv, FlagIsShown, CallsGoToTheSelected, ShownIsExplained
  <1> QED BY <1>4, <1>5

(* The scenario and the buttons are gone.                                   *)
LEMMA ClearedIsIdle ==
  ASSUME TypeOK
  PROVE  /\ Cleared \in [scenario : Scenarios \union {Nothing}, of : Names, state : {"IDLE", "DEPLOYED"},
                         ok : BOOLEAN, pods : SUBSET Phases]
         /\ Cleared.state = "IDLE" /\ Cleared.ok = FALSE
  BY DEF TypeOK, Cleared, Names

LEMMA DeleteAnswer ==
  ASSUME IInv, NEW c \in calls, Answer(c), c.op = "delete"
  PROVE  IInv'
  <1>1. TypeOK /\ FlagIsShown
    BY DEF IInv
  <1>2. deleteSandboxCb(c)
    BY DEF Answer, Callback
  <1>3. UNCHANGED <<sandboxes, timers, stray, session, server, ticks, hidden, page, dialog, moves>>
    BY <1>2 DEF deleteSandboxCb, Answer
  <1>4. CASE Ok(c)
    <2>1. sandbox' = Nothing /\ base' = Nothing /\ exec' = Cleared
      BY <1>2, <1>4 DEF deleteSandboxCb, setBasepath
    <2>2. calls' \in SUBSET Calls /\ \A e \in calls' : Suited(e)
      BY <1>1, <2>1, AnswerCalls DEF Names
    <2>3. TypeOK'
      BY <1>1, <1>3, <2>1, <2>2, ClearedIsIdle DEF TypeOK, Names
    <2> QED BY <1>1, <2>1, <2>3, ClearedIsIdle DEF IInv, FlagIsShown, CallsGoToTheSelected, ShownIsExplained
  <1>5. CASE ~Ok(c)
    <2>1. UNCHANGED <<sandbox, base, exec>>
      BY <1>2, <1>5 DEF deleteSandboxCb
    <2>2. calls' \in SUBSET Calls /\ \A e \in calls' : Suited(e)
      BY <1>1, <2>1, AnswerCalls DEF TypeOK
    <2>3. TypeOK'
      BY <1>1, <1>3, <2>1, <2>2 DEF TypeOK
    <2>4. \A e \in calls : e.op # "delete" => e \in calls'
      BY DEF Answer
    <2> QED BY <1>1, <1>3, <2>1, <2>3, <2>4 DEF IInv, FlagIsShown, CallsGoToTheSelected, ShownIsExplained, Asked
  <1> QED BY <1>4, <1>5

(* Answers that leave sandbox and path alone, and the scenario or at most   *)
(* clear it.                                                                *)
LEMMA OtherAnswer ==
  ASSUME IInv, NEW c \in calls, Answer(c), c.op \in {"list", "pods", "activate", "terminate", "event"}
  PROVE  IInv'
  <1>1. TypeOK /\ FlagIsShown /\ c \in Calls /\ Suited(c)
    BY DEF IInv, TypeOK
  <1>2. UNCHANGED <<sandbox, base, timers, stray, session, server, ticks, hidden, page, dialog, moves>>
    BY DEF Answer, Callback, getSandboxListCb, checkScenarioStatusCb, terminateScenarioCb, Unseen
  <1>3. calls' \in SUBSET Calls /\ \A e \in calls' : Suited(e)
    BY <1>1, <1>2, AnswerCalls DEF TypeOK
  <1>4. \A e \in calls : e.op \in {"create", "active"} => e \in calls'
    BY DEF Answer
  <1>5. sandboxes' \in SUBSET Sandboxes
    BY <1>1 DEF Answer, Callback, getSandboxListCb, checkScenarioStatusCb, terminateScenarioCb, Unseen,
                TypeOK, Suited
  <1>6. /\ exec' \in [scenario : Scenarios \union {Nothing}, of : Names, state : {"IDLE", "DEPLOYED"},
                      ok : BOOLEAN, pods : SUBSET Phases]
        /\ \/ exec'.state = "IDLE" /\ exec'.ok = FALSE
           \/ exec'.state = exec.state /\ exec'.ok = exec.ok /\ exec'.scenario = exec.scenario
                /\ exec'.of = exec.of
    <2>1. CASE c.op = "pods"
      <3> DEFINE pods == IF Ok(c) THEN c.gives ELSE {}
      <3>1. exec' = [exec EXCEPT !.pods = pods]
        BY <2>1 DEF Answer, Callback, checkScenarioStatusCb
      <3>2. pods \in SUBSET Phases
        BY <1>1, <2>1 DEF Suited
      <3> HIDE DEF pods
      <3> QED BY <1>1, <3>1, <3>2 DEF TypeOK
    <2>2. CASE c.op = "terminate"
      <3>1. exec' = Cleared \/ exec' = exec
        BY <2>2 DEF Answer, Callback, terminateScenarioCb
      <3> QED BY <1>1, <3>1, ClearedIsIdle DEF TypeOK
    <2>3. CASE c.op \in {"list", "activate", "event"}
      <3>1. exec' = exec
        BY <2>3 DEF Answer, Callback, getSandboxListCb, Unseen
      <3> QED BY <1>1, <3>1 DEF TypeOK
    <2> QED BY <2>1, <2>2, <2>3
  <1>7. TypeOK'
    BY <1>1, <1>2, <1>3, <1>5, <1>6 DEF TypeOK
  <1> QED BY <1>1, <1>2, <1>4, <1>6, <1>7 DEF IInv, FlagIsShown, CallsGoToTheSelected, ShownIsExplained, Asked

LEMMA AnswerStep == ASSUME IInv, NEW c \in calls, Answer(c) PROVE IInv'
  <1>1. c.op \in Reads \union Writes
    BY DEF IInv, TypeOK, Calls
  <1> QED BY <1>1, ActiveAnswer, CreateAnswer, DeleteAnswer, OtherAnswer DEF Reads, Writes

-----------------------------------------------------------------------------
LEMMA NextInductive == IInv /\ [Next]_vars => IInv'
  <1> SUFFICES ASSUME IInv, [Next]_vars PROVE IInv'
    OBVIOUS
  <1>1. CASE UserSteps
    BY <1>1, CreateStep, SelectStep, WriteSteps, ViewSteps, ReloadStep DEF UserSteps
  <1>2. CASE startExecPageRefresh
    BY <1>2, RefreshStep
  <1>3. CASE OkToTerminate
    BY <1>3, TimerStep
  <1>4. CASE MovePods
    BY <1>4, PodsStep
  <1>5. CASE \E c \in calls : Serve(c) \/ Lose(c) \/ Answer(c)
    BY <1>5, ServeStep, LoseStep, AnswerStep
  <1>6. CASE sendEvent
    BY <1>6, WriteSteps
  <1>7. CASE UNCHANGED vars
    <2>1. TypeOK'
      BY <1>7 DEF IInv, TypeOK, vars
    <2> QED BY <1>7, <2>1, SameCalls DEF IInv, vars
  <1> QED BY <1>1, <1>2, <1>3, <1>4, <1>5, <1>6, <1>7 DEF Next, Steps

(* Every state of the page has its types, and the flag, the path and the    *)
(* scenario agree as IInv says.                                             *)
THEOREM PageInvariant == Spec => []IInv
  <1>1. Init => IInv
    BY InitInductive
  <1>2. IInv /\ [Next]_vars => IInv'
    BY NextInductive
  <1> QED BY <1>1, <1>2, PTL DEF Spec

(* The scenario shown as deployed is of the selected sandbox, up to the     *)
(* named cases: however many sandboxes, users' moves, lost and late answers *)
(* (getActiveScenarioCb, setSandbox, createSandboxWithNameCb).              *)
THEOREM ShownScenarioIsExplained == Spec => []ShownIsExplained
  BY PageInvariant, PTL DEF IInv

(* Calls go to the selected sandbox but while one is being created or none  *)
(* is selected (setBasepath and its callers).                               *)
THEOREM PathFollowsTheSelected == Spec => []CallsGoToTheSelected
  BY PageInvariant, PTL DEF IInv

(* The buttons of a deployment are offered only of a scenario that is shown *)
(* as deployed, whatever timers are still running (okToTerminate).          *)
THEOREM ButtonsAreOfTheShown == Spec => []OfferedIsShown
  <1>1. IInv => OfferedIsShown
    BY DEF IInv, FlagIsShown, OfferedIsShown, canTerminate, canSaveScenario, canOpenEventCfg
  <1> QED BY <1>1, PageInvariant, PTL
-----------------------------------------------------------------------------
(* The panes.                                                               *)

(* Every step of the panes is a step of the page, or leaves it alone.       *)
LEMMA StepsArePageSteps == [PanesNext]_allVars => [Next]_vars
  <1> SUFFICES ASSUME [PanesNext]_allVars PROVE [Next]_vars
    OBVIOUS
  <1>1. CASE PageStep
    BY <1>1 DEF PageStep, Next
  <1>2. CASE triggerEvent
    BY <1>2 DEF triggerEvent, Next
  <1>3. CASE PaneSteps /\ ~triggerEvent
    BY <1>3 DEF PaneSteps, onOpenPane, onTarget, onDestination, onElementType, Choose, setMode,
                checkReplayStatus, onSelectFile, playReplay, stopReplay, SendReplay
  <1>4. CASE ReplayEnds
    BY <1>4 DEF ReplayEnds
  <1>5. CASE \E a \in asks : ServeAsk(a) \/ LoseAsk(a) \/ AnswerAsk(a)
    BY <1>5 DEF ServeAsk, LoseAsk, AnswerAsk
  <1>6. CASE UNCHANGED allVars
    BY <1>6 DEF allVars
  <1> QED BY <1>1, <1>2, <1>3, <1>4, <1>5, <1>6 DEF PanesNext

(* The page with its panes is the page: what its specification promises, it *)
(* keeps.                                                                   *)
THEOREM PanesImplementPage == PanesSpec => Spec
  <1>1. PanesInit => Init
    BY DEF PanesInit
  <1> QED BY <1>1, StepsArePageSteps, PTL DEF PanesSpec, Spec

THEOREM PanesPageInvariant == PanesSpec => []IInv
  BY PanesImplementPage, PageInvariant
-----------------------------------------------------------------------------
(* Types of the panes. *)
AskOps == {"modes", "mode", "status", "play", "stop"}

Asks == [op : AskOps, to : Names, arg : Modes \union Files \union {Nothing}, on : BOOLEAN,
         no : Nat, stage : {"sent", "served", "failed"}, gives : SUBSET (Modes \union Files)]

AskSuited(a) ==
    /\ a.op = "mode" => a.arg \in Modes
    /\ a.op = "play" => a.arg \in Files
    /\ a.op = "status" /\ a.stage = "served" => \E f \in Files : a.gives = {f}

Labels == {Nothing} \union UNION {{e.name : e \in Elements[s]} : s \in Scenarios}
Shown  == Scenarios \union {Nothing}

PanesTypeOK ==
    /\ pane \in Panes \union {Nothing}
    /\ choice \in [target : Labels, from : Shown, dest : Labels, meant : Labels,
                   type : ncApplicableTypes \union {Nothing}, element : Labels, seen : Shown]
    /\ auto \in [Modes -> BOOLEAN]
    /\ gis \in [Sandboxes -> [Modes -> BOOLEAN]]
    /\ replay \in [status : Files \union {Nothing}, selected : Files \union {Nothing}]
    /\ player \in [Sandboxes -> Files \union {Nothing}]
    /\ asks \in SUBSET Asks /\ \A a \in asks : AskSuited(a)
    /\ tries \in Nat
    /\ tale \in SUBSET {"raced", "turned", "gone", "refused"}
    /\ mixed \in BOOLEAN

(* The lists of a scenario, whichever is shown.                             *)
Of(s, ts) == {e.name : e \in {x \in Elements[s] : x.type \in ts}}

Mobile(s) == Of(s, {"UE", "FOG", "EDGE", "EDGE APPLICATION"})
             \ {e.name : e \in {x \in Elements[s] : x.group}}

Destinations(s, target) ==
    CASE target \in Of(s, {"UE"})               -> Of(s, {"POA", "POA CELLULAR"})
      [] target \in Of(s, {"EDGE"})             -> Of(s, {"ZONE"})
      [] target \in Of(s, {"FOG"})              -> Of(s, {"POA", "POA CELLULAR"})
      [] target \in Of(s, {"EDGE APPLICATION"}) -> Of(s, {"FOG", "EDGE"})
      [] OTHER                                  -> {}

(* What is chosen was offered, in the scenario it was chosen from.          *)
ChoiceIsOffered ==
    /\ choice.from # Nothing => choice.target \in Mobile(choice.from)
    /\ choice.dest # Nothing =>
         /\ pane = "mobility" /\ choice.seen # Nothing
         /\ choice.dest \in Destinations(choice.seen, choice.meant)
    /\ choice.type # Nothing =>
         /\ pane = "nc"
         /\ choice.seen # Nothing /\ Of(choice.seen, Matching(choice.type)) # {} =>
              choice.element \in Of(choice.seen, Matching(choice.type))

(* The boxes are what the engine does, or will be by the one call about     *)
(* them that is under way.                                                  *)
AboutModes == {a \in asks : a.op \in {"modes", "mode"}}

Corrects(a) ==
    \/ /\ a.op = "modes"
       /\ a.stage = "served" => a.gives = {m \in Modes : gis[base][m]}
    \/ /\ a.op = "mode"
       /\ a.stage = "sent" => auto = [gis[base] EXCEPT ![a.arg] = a.on]
       /\ a.stage = "served" => auto = gis[base]

BoxesInStep ==
    Drawn /\ "auto" \in Session.panes /\ tale = {} /\ base \in Sandboxes =>
        \/ AboutModes = {} /\ auto = gis[base]
        \/ \E a \in asks : AboutModes = {a} /\ a.to = base /\ Corrects(a)

(* Unless files may be mixed up, all that is known of a replay is about the *)
(* selected file and the sandbox the path leads to.                         *)
ReplayInStep ==
    /\ "replay" \notin Session.panes =>
         replay.status = Nothing /\ \A a \in asks : a.op \in {"modes", "mode"}
    /\ "replay" \in Session.panes /\ ~mixed =>
         /\ replay.status \in {Nothing, replay.selected}
         /\ base \in Sandboxes => player[base] \in {Nothing, replay.selected}
         /\ \A a \in asks :
              /\ a.op \in {"status", "play"} => a.to = base
              /\ a.op = "play" => a.arg = replay.selected
              /\ a.op = "status" /\ a.stage = "served" => a.gives = {replay.selected}

PanesInv == PanesTypeOK /\ ChoiceIsOffered /\ BoxesInStep /\ ReplayInStep
-----------------------------------------------------------------------------
(* The lists that are drawn are those of the scenario that is shown.        *)
LEMMA ListsAreOf ==
  ASSUME NEW ts
  PROVE  /\ exec.scenario # Nothing => OfType(ts) = Of(exec.scenario, ts)
         /\ exec.scenario = Nothing => OfType(ts) = {}
  BY DEF OfType, Of, Table

LEMMA MobileIsOf ==
  /\ exec.scenario # Nothing => execMobTypes = Mobile(exec.scenario)
  /\ exec.scenario = Nothing => execMobTypes = {}
  BY DEF execMobTypes, Mobile, Grouped, OfType, Of, Table

LEMMA DestinationsAreOf ==
  ASSUME NEW t
  PROVE  /\ exec.scenario # Nothing => populateDestination(t) = Destinations(exec.scenario, t)
         /\ exec.scenario = Nothing => populateDestination(t) = {}
  <1>1. CASE exec.scenario # Nothing
    <2>1. /\ OfType({"UE"}) = Of(exec.scenario, {"UE"})
          /\ OfType({"EDGE"}) = Of(exec.scenario, {"EDGE"})
          /\ OfType({"FOG"}) = Of(exec.scenario, {"FOG"})
          /\ OfType({"EDGE APPLICATION"}) = Of(exec.scenario, {"EDGE APPLICATION"})
          /\ OfType({"POA", "POA CELLULAR"}) = Of(exec.scenario, {"POA", "POA CELLULAR"})
          /\ OfType({"ZONE"}) = Of(exec.scenario, {"ZONE"})
          /\ OfType({"FOG", "EDGE"}) = Of(exec.scenario, {"FOG", "EDGE"})
      BY <1>1, ListsAreOf
    <2> QED BY <1>1, <2>1 DEF populateDestination, Destinations
  <1>2. CASE exec.scenario = Nothing
    BY <1>2, ListsAreOf DEF populateDestination
  <1> QED BY <1>1, <1>2

LEMMA ListsAreLabels ==
  ASSUME TypeOK, NEW ts
  PROVE  OfType(ts) \in SUBSET Labels
  <1>1. exec.scenario \in Scenarios \union {Nothing}
    BY DEF TypeOK
  <1> QED BY <1>1 DEF OfType, Table, Labels

(* A call of a pane has its type.                                           *)
LEMMA AskSuits ==
  ASSUME tries \in Nat, NEW op \in AskOps, NEW to \in Names,
         NEW arg \in Modes \union Files \union {Nothing}, NEW on \in BOOLEAN,
         op = "mode" => arg \in Modes, op = "play" => arg \in Files
  PROVE  /\ Ask(op, to, arg, on) \in Asks /\ AskSuited(Ask(op, to, arg, on))
         /\ Ask(op, to, arg, on).op = op /\ Ask(op, to, arg, on).to = to
         /\ Ask(op, to, arg, on).arg = arg /\ Ask(op, to, arg, on).on = on
         /\ Ask(op, to, arg, on).stage = "sent"
  <1>1. Ask(op, to, arg, on) = [op |-> op, to |-> to, arg |-> arg, on |-> on, no |-> tries,
                                stage |-> "sent", gives |-> {}]
    BY DEF Ask
  <1> QED BY <1>1 DEF Asks, AskSuited

(* The steps that leave a part as it was keep what is said of it.           *)
LEMMA ChoiceStays ==
  ASSUME ChoiceIsOffered, UNCHANGED <<choice, pane>>
  PROVE  ChoiceIsOffered'
  BY DEF ChoiceIsOffered, Mobile, Destinations, Of, Matching

LEMMA BoxesStay ==
  ASSUME BoxesInStep, Drawn' => Drawn, UNCHANGED <<session, base, auto, gis>>,
         tale \subseteq tale', AboutModes' = AboutModes
  PROVE  BoxesInStep'
  BY DEF BoxesInStep, Corrects, AboutModes, Session

LEMMA ReplayStays ==
  ASSUME ReplayInStep, UNCHANGED <<session, base, replay, player, mixed>>,
         \A a \in asks' : a \in asks \/ a.op \in {"modes", "mode"}
  PROVE  ReplayInStep'
  BY DEF ReplayInStep, Session
-----------------------------------------------------------------------------
LEMMA PanesInitInductive == PanesInit => PanesInv
  <1> SUFFICES ASSUME PanesInit PROVE PanesInv
    OBVIOUS
  <1>1. exec.state = "IDLE"
    BY DEF PanesInit, Init, Idle
  <1>2. PanesTypeOK
    <2>1. choice \in [target : Labels, from : Shown, dest : Labels, meant : Labels,
                      type : ncApplicableTypes \union {Nothing}, element : Labels, seen : Shown]
      BY DEF PanesInit, NoChoice, Labels, Shown
    <2>2. auto \in [Modes -> BOOLEAN] /\ gis \in [Sandboxes -> [Modes -> BOOLEAN]]
      BY DEF PanesInit, AllOff
    <2>3. replay \in [status : Files \union {Nothing}, selected : Files \union {Nothing}]
      BY DEF PanesInit
    <2> QED BY <2>1, <2>2, <2>3 DEF PanesTypeOK, PanesInit
  <1>3. ChoiceIsOffered
    BY DEF PanesInit, NoChoice, ChoiceIsOffered
  <1>4. BoxesInStep
    BY <1>1 DEF BoxesInStep, Drawn
  <1>5. ReplayInStep
    BY DEF PanesInit, ReplayInStep
  <1> QED BY <1>2, <1>3, <1>4, <1>5 DEF PanesInv

(* A choice is made from a list of the scenario that is shown.              *)
LEMMA ChoiceSteps ==
  ASSUME IInv, PanesInv, onOpenPane \/ onTarget \/ onDestination \/ onElementType
  PROVE  PanesInv'
  <1>1. TypeOK /\ PanesTypeOK /\ ChoiceIsOffered /\ exec.scenario \in Shown
    BY DEF IInv, TypeOK, PanesInv, Shown
  <1>2. UNCHANGED <<vars, auto, gis, replay, player, asks, tries, tale, mixed>>
    BY DEF onOpenPane, onTarget, onDestination, onElementType, Choose
  <1>3. BoxesInStep' /\ ReplayInStep'
    <2>1. AboutModes' = AboutModes /\ (Drawn' => Drawn)
      BY <1>2 DEF AboutModes, Drawn, vars
    <2> QED BY <1>2, <2>1, BoxesStay, ReplayStays DEF PanesInv, vars
  <1>4. CASE onOpenPane
    <2>1. pane' \in Panes /\ choice' = [NoChoice EXCEPT !.element = choice.element]
      BY <1>1, <1>4, PanesAssumption DEF onOpenPane, Forgotten, Session, PanesAssumption, TypeOK
    <2>2. /\ choice' \in [target : Labels, from : Shown, dest : Labels, meant : Labels,
                         type : ncApplicableTypes \union {Nothing}, element : Labels, seen : Shown]
          /\ choice'.from = Nothing /\ choice'.dest = Nothing /\ choice'.type = Nothing
      BY <1>1, <2>1 DEF PanesTypeOK, NoChoice, Labels, Shown
    <2>3. PanesTypeOK'
      BY <1>1, <1>2, <2>1, <2>2 DEF PanesTypeOK
    <2>4. ChoiceIsOffered'
      BY <2>2 DEF ChoiceIsOffered
    <2> QED BY <1>3, <2>3, <2>4 DEF PanesInv
  <1>5. CASE onTarget
    <2>1. PICK t \in execMobTypes : choice' = [choice EXCEPT !.target = t, !.from = exec.scenario]
      BY <1>5 DEF onTarget
    <2>2. pane' = pane
      BY <1>5 DEF onTarget, Choose
    <2>3. t \in Labels
      BY <1>1, ListsAreLabels DEF execMobTypes
    <2>4. /\ choice' \in [target : Labels, from : Shown, dest : Labels, meant : Labels,
                         type : ncApplicableTypes \union {Nothing}, element : Labels, seen : Shown]
          /\ choice'.target = t /\ choice'.from = exec.scenario
          /\ UNCHANGED <<choice.dest, choice.meant, choice.type, choice.element, choice.seen>>
      BY <1>1, <2>1, <2>3 DEF PanesTypeOK
    <2>5. PanesTypeOK'
      BY <1>1, <1>2, <2>2, <2>4 DEF PanesTypeOK
    <2>6. exec.scenario # Nothing => t \in Mobile(exec.scenario)
      BY MobileIsOf
    <2>7. ChoiceIsOffered'
      BY <1>1, <2>2, <2>4, <2>6 DEF ChoiceIsOffered
    <2> QED BY <1>3, <2>5, <2>7 DEF PanesInv
  <1>6. CASE onDestination
    <2>1. PICK d \in populateDestination(choice.target) :
            choice' = [choice EXCEPT !.dest = d, !.meant = choice.target, !.seen = exec.scenario]
      BY <1>6 DEF onDestination
    <2>2. pane' = pane /\ pane = "mobility"
      BY <1>6 DEF onDestination, Choose, Open
    <2>3. d \in Labels
      BY <1>1, ListsAreLabels DEF populateDestination
    <2>4. /\ choice' \in [target : Labels, from : Shown, dest : Labels, meant : Labels,
                         type : ncApplicableTypes \union {Nothing}, element : Labels, seen : Shown]
          /\ choice'.dest = d /\ choice'.meant = choice.target /\ choice'.seen = exec.scenario
          /\ UNCHANGED <<choice.target, choice.from, choice.type, choice.element>>
      BY <1>1, <2>1, <2>3 DEF PanesTypeOK
    <2>5. PanesTypeOK'
      BY <1>1, <1>2, <2>2, <2>4 DEF PanesTypeOK
    <2>6. exec.scenario # Nothing /\ d \in Destinations(exec.scenario, choice.target)
      BY <2>1, DestinationsAreOf
    <2>7. choice.type = Nothing
      BY <1>1, <2>2 DEF ChoiceIsOffered
    <2>8. ChoiceIsOffered'
      BY <1>1, <2>2, <2>4, <2>6, <2>7 DEF ChoiceIsOffered
    <2> QED BY <1>3, <2>5, <2>8 DEF PanesInv
  <1>7. CASE onElementType
    <2>1. PICK t \in ncApplicableTypes :
            LET first == OfType(Matching(t))
            IN  \E e \in IF first = {} THEN {choice.element} ELSE first :
                  choice' = [choice EXCEPT !.type = t, !.element = e, !.seen = exec.scenario]
      BY <1>7 DEF onElementType
    <2> DEFINE first == OfType(Matching(t))
    <2>2. PICK e \in IF first = {} THEN {choice.element} ELSE first :
            choice' = [choice EXCEPT !.type = t, !.element = e, !.seen = exec.scenario]
      BY <2>1
    <2>3. first \in SUBSET Labels
      BY <1>1, ListsAreLabels
    <2>4. exec.scenario # Nothing => first = Of(exec.scenario, Matching(t))
      BY ListsAreOf
    <2> HIDE DEF first
    <2>5. pane' = pane /\ pane = "nc"
      BY <1>7 DEF onElementType, Choose, Open
    <2>6. /\ choice' \in [target : Labels, from : Shown, dest : Labels, meant : Labels,
                         type : ncApplicableTypes \union {Nothing}, element : Labels, seen : Shown]
          /\ choice'.type = t /\ choice'.element = e /\ choice'.seen = exec.scenario
          /\ UNCHANGED <<choice.target, choice.from, choice.dest, choice.meant>>
      BY <1>1, <2>2, <2>3 DEF PanesTypeOK
    <2>7. PanesTypeOK'
      BY <1>1, <1>2, <2>5, <2>6 DEF PanesTypeOK
    <2>8. choice.dest = Nothing
      BY <1>1, <2>5 DEF ChoiceIsOffered
    <2>9. exec.scenario # Nothing /\ Of(exec.scenario, Matching(t)) # {} =>
            e \in Of(exec.scenario, Matching(t))
      BY <2>2, <2>4
    <2>10. ChoiceIsOffered'
      BY <1>1, <2>5, <2>6, <2>8, <2>9 DEF ChoiceIsOffered
    <2> QED BY <1>3, <2>7, <2>10 DEF PanesInv
  <1> QED BY <1>4, <1>5, <1>6, <1>7

-----------------------------------------------------------------------------
(* What a step of the page leaves of the session, and where it may go.      *)
LEMMA SessionStays == [Next]_vars => session' = session
  BY DEF Next, Steps, UserSteps, vars, createSandbox, setSandbox, deleteSandbox, onDeployScenario,
         terminateScenario, OpenDialog, closeDialog, handleVisibilityChange, changeCurrentPage, Reload,
         sendEvent, Submit, Move, startExecPageRefresh, OkToTerminate, MovePods, Serve, Lose, Answer

(* A sandbox is deselected before the path changes, or with it.             *)
LEMMA Deselected ==
  ASSUME IInv, Steps, sandbox' = Nothing, sandbox' # sandbox
  PROVE  base' \in {base, Nothing}
  <1>1. CASE UserSteps
    BY <1>1 DEF UserSteps, createSandbox, setSandbox, deleteSandbox, onDeployScenario,
         terminateScenario, OpenDialog, closeDialog, handleVisibilityChange, changeCurrentPage, Reload,
         Submit, componentDidMount, setBasepath
  <1>2. CASE startExecPageRefresh \/ OkToTerminate \/ MovePods
    BY <1>2 DEF startExecPageRefresh, OkToTerminate, MovePods
  <1>3. ASSUME NEW c \in calls, Serve(c) \/ Lose(c) \/ Answer(c) PROVE base' \in {base, Nothing}
    <2>1. CASE Serve(c) \/ Lose(c)
      BY <2>1 DEF Serve, Lose
    <2>2. CASE Answer(c)
      <3>1. c.op \in Reads \union Writes
        BY DEF IInv, TypeOK, Calls
      <3> QED BY <2>2, <3>1 DEF Answer, Callback, getSandboxListCb, checkScenarioStatusCb, getActiveScenarioCb,
                 createSandboxWithNameCb, deleteSandboxCb, terminateScenarioCb, Unseen, setBasepath,
                 Reads, Writes
    <2> QED BY <1>3, <2>1, <2>2
  <1> QED BY <1>1, <1>2, <1>3 DEF Steps

LEMMA ModesAsked ==
  ASSUME tries \in Nat, base \in Names, base' \in Names
  PROVE  \E a \in Asks :
           /\ refreshAutomationModes = {a} /\ AskSuited(a)
           /\ a.op = "modes" /\ a.to = (IF sandbox' = Nothing THEN base ELSE base') /\ a.stage = "sent"
  <1> DEFINE to == IF sandbox' = Nothing THEN base ELSE base'
             a == [op |-> "modes", to |-> to, arg |-> Nothing, on |-> FALSE, no |-> tries,
                   stage |-> "sent", gives |-> {}]
  <1>1. refreshAutomationModes = {a}
    BY DEF refreshAutomationModes, Ask
  <1>2. to \in Names
    OBVIOUS
  <1> HIDE DEF to
  <1>3. a \in Asks /\ AskSuited(a)
    BY <1>2 DEF Asks, AskOps, AskSuited
  <1>4. a.op = "modes" /\ a.to = to /\ a.stage = "sent"
    OBVIOUS
  <1> QED BY <1>1, <1>3, <1>4 DEF to

(* The panes forget, ask anew or are left as they were.                     *)
LEMMA PageKeepsTypes ==
  ASSUME IInv, IInv', PanesInv, PageStep
  PROVE  PanesTypeOK'
  <1>1. PanesTypeOK /\ base \in Names /\ base' \in Names
    BY DEF IInv, TypeOK, PanesInv
  <1>2. choice' = choice \/ choice' = [NoChoice EXCEPT !.element = choice.element]
    BY DEF PageStep, Follow, Forgotten
  <1>3. choice' \in [target : Labels, from : Shown, dest : Labels, meant : Labels,
                     type : ncApplicableTypes \union {Nothing}, element : Labels, seen : Shown]
    BY <1>1, <1>2 DEF PanesTypeOK, NoChoice, Labels, Shown
  <1>4. player' \in [Sandboxes -> Files \union {Nothing}]
    BY <1>1 DEF PageStep, Follow, PanesTypeOK
  <1>5. mixed' \in BOOLEAN /\ UNCHANGED <<pane, auto, replay, tries>>
    BY Zenon, <1>1 DEF PageStep, Follow, PanesTypeOK
  <1>6. /\ gis' \in [Sandboxes -> [Modes -> BOOLEAN]]
        /\ tale' \in SUBSET {"raced", "turned", "gone", "refused"}
        /\ asks' \in SUBSET Asks /\ \A a \in asks' : AskSuited(a)
    <2>1. CASE "auto" \in Session.panes
      <3>1. gis' \in [Sandboxes -> [Modes -> BOOLEAN]]
        <4>1. AllOff \in [Modes -> BOOLEAN]
          BY DEF AllOff
        <4> QED BY <1>1, <2>1, <4>1 DEF PageStep, Follow, FollowAuto, PanesTypeOK
      <3>2. tale' \in SUBSET {"raced", "turned", "gone", "refused"}
        BY <1>1, <2>1 DEF PageStep, Follow, FollowAuto, PanesTypeOK
      <3>3. \A a \in refreshAutomationModes : a \in Asks /\ AskSuited(a)
        BY <1>1, ModesAsked DEF PanesTypeOK
      <3>4. asks' = asks \/ asks' = asks \union refreshAutomationModes
        BY <2>1 DEF PageStep, Follow, FollowAuto
      <3> QED BY <1>1, <3>1, <3>2, <3>3, <3>4 DEF PanesTypeOK
    <2>2. CASE "auto" \notin Session.panes
      BY <1>1, <2>2 DEF PageStep, Follow, PanesTypeOK
    <2> QED BY <2>1, <2>2
  <1> QED BY <1>1, <1>3, <1>4, <1>5, <1>6 DEF PanesTypeOK

LEMMA PageKeepsChoice ==
  ASSUME ChoiceIsOffered, PanesTypeOK, PageStep
  PROVE  ChoiceIsOffered'
  <1>1. pane' = pane
    BY DEF PageStep, Follow
  <1>2. CASE choice' = choice
    BY <1>1, <1>2, ChoiceStays
  <1>3. CASE choice' = Forgotten
    <2>1. choice'.from = Nothing /\ choice'.dest = Nothing /\ choice'.type = Nothing
      BY <1>3 DEF Forgotten, NoChoice
    <2> QED BY <2>1 DEF ChoiceIsOffered
  <1> QED BY <1>2, <1>3 DEF PageStep, Follow

(* The page reads the modes anew, or nothing that concerns them changes, or *)
(* the tale says what it was.                                               *)
LEMMA PageKeepsBoxes ==
  ASSUME IInv, IInv', PanesInv, PageStep
  PROVE  BoxesInStep'
  <1> SUFFICES ASSUME Drawn', "auto" \in Session.panes, tale' = {}, base' \in Sandboxes
               PROVE  \/ AboutModes' = {} /\ auto' = gis'[base']
                      \/ \E a \in asks' : AboutModes' = {a} /\ a.to = base' /\ Corrects(a)'
    BY SessionStays DEF BoxesInStep, Session, PageStep, Next
  <1>1. /\ base \in Names /\ base' \in Names /\ tries \in Nat
        /\ asks \in SUBSET Asks /\ BoxesInStep /\ gis \in [Sandboxes -> [Modes -> BOOLEAN]]
    BY DEF IInv, TypeOK, PanesInv, PanesTypeOK
  <1>2. FollowAuto /\ auto' = auto
    BY DEF PageStep, Follow
  <1>3. ~(ToRefresh /\ asks # {}) /\ ~(base' # base /\ sandbox' = sandbox)
        /\ (~ToRefresh => tale = {}) /\ \A s \in Sandboxes : ~Gone(s)
    BY <1>2 DEF FollowAuto
  <1>4. gis' = gis
    BY <1>1, <1>2, <1>3 DEF FollowAuto
  <1>5. CASE ToRefresh
    <2>1. PICK a \in Asks : refreshAutomationModes = {a} /\ a.op = "modes" /\ a.stage = "sent"
                            /\ a.to = (IF sandbox' = Nothing THEN base ELSE base')
      BY <1>1, ModesAsked
    <2>2. asks' = {a}
      BY <1>2, <1>3, <1>5, <2>1 DEF FollowAuto
    <2>3. a.to = base'
      <3>1. CASE sandbox' = Nothing /\ sandbox' # sandbox
        BY <2>1, <3>1, Deselected, ExecAssumption DEF PageStep, ExecAssumption
      <3>2. CASE ~(sandbox' = Nothing /\ sandbox' # sandbox)
        BY <1>3, <2>1, <3>2
      <3> QED BY <3>1, <3>2
    <2>4. AboutModes' = {a}
      BY <2>1, <2>2 DEF AboutModes
    <2>5. Corrects(a)'
      BY <2>1 DEF Corrects
    <2> QED BY <2>2, <2>3, <2>4, <2>5
  <1>6. CASE ~ToRefresh
    <2>1. Drawn /\ sandbox' = sandbox /\ base' = base /\ tale = {}
      BY <1>3, <1>6 DEF ToRefresh
    <2>2. asks' = asks
      BY <1>2, <1>6 DEF FollowAuto
    <2>3. AboutModes' = AboutModes
      BY <2>2 DEF AboutModes
    <2>4. \/ AboutModes = {} /\ auto = gis[base]
          \/ \E a \in asks : AboutModes = {a} /\ a.to = base /\ Corrects(a)
      BY <1>1, <2>1 DEF BoxesInStep
    <2> QED BY <1>2, <1>4, <2>1, <2>2, <2>3, <2>4 DEF Corrects
  <1> QED BY <1>5, <1>6

(* The file that a sandbox plays is the same or none; the path stays or the *)
(* files may be mixed up.                                                   *)
LEMMA PageKeepsReplay ==
  ASSUME PanesInv, PageStep
  PROVE  ReplayInStep'
  <1>1. /\ ReplayInStep /\ replay' = replay /\ session' = session
        /\ mixed' = (mixed \/ ("replay" \in Session.panes /\ base' # base))
    BY SessionStays DEF PanesInv, PageStep, Follow, Next
  <1>2. \A a \in asks' : a \in asks \/ a.op = "modes"
    BY DEF PageStep, Follow, FollowAuto, refreshAutomationModes, Ask
  <1>3. CASE "replay" \notin Session.panes
    BY <1>1, <1>2, <1>3 DEF ReplayInStep, Session
  <1>4. CASE "replay" \in Session.panes /\ ~mixed'
    <2>1. base' = base /\ ~mixed
      BY <1>1, <1>4
    <2>2. \A s \in Sandboxes : player'[s] \in {Nothing, player[s]}
      BY DEF PageStep, Follow
    <2> QED BY <1>1, <1>2, <1>4, <2>1, <2>2 DEF ReplayInStep, Session
  <1>5. CASE "replay" \in Session.panes /\ mixed'
    BY <1>1, <1>5 DEF ReplayInStep, Session
  <1> QED BY <1>3, <1>4, <1>5

LEMMA PageStepInductive ==
  ASSUME IInv, IInv', PanesInv, PageStep
  PROVE  PanesInv'
  BY PageKeepsTypes, PageKeepsChoice, PageKeepsBoxes, PageKeepsReplay DEF PanesInv
-----------------------------------------------------------------------------
(* Steps that ask for nothing: an event that is sent, and stuttering.       *)
LEMMA QuietSteps ==
  ASSUME PanesInv, triggerEvent \/ UNCHANGED allVars
  PROVE  PanesInv'
  <1>1. UNCHANGED <<session, base, exec, page, paneVars>>
    BY DEF triggerEvent, sendEvent, Submit, Move, allVars, vars, paneVars
  <1>2. PanesTypeOK'
    BY <1>1 DEF PanesInv, PanesTypeOK, paneVars
  <1>3. ChoiceIsOffered'
    BY <1>1, ChoiceStays DEF PanesInv, paneVars
  <1>4. BoxesInStep' /\ ReplayInStep'
    <2>1. AboutModes' = AboutModes /\ Drawn' = Drawn
      BY <1>1 DEF AboutModes, Drawn, paneVars
    <2> QED BY <1>1, <2>1, BoxesStay, ReplayStays DEF PanesInv, paneVars
  <1> QED BY <1>2, <1>3, <1>4 DEF PanesInv

(* A box is ticked: the engine will follow, or the tale says that another   *)
(* call was under way.                                                      *)
LEMMA SetModeInductive ==
  ASSUME IInv, PanesInv, setMode
  PROVE  PanesInv'
  <1>1. /\ PanesTypeOK /\ base \in Names
        /\ UNCHANGED <<session, base, exec, page, pane, choice, gis, replay, player, mixed>>
        /\ tries' = tries + 1 /\ Drawn /\ "auto" \in Session.panes
        /\ tale' = tale \union IF asks = {} THEN {} ELSE {"raced"}
    BY DEF setMode, Try, Open, vars, IInv, TypeOK, PanesInv
  <1>2. PICK m \in Modes : /\ auto' = [auto EXCEPT ![m] = ~@]
                           /\ asks' = asks \union {Ask("mode", base, m, ~auto[m])}
    BY DEF setMode
  <1>3. PICK on \in BOOLEAN : /\ auto' = [auto EXCEPT ![m] = on]
                             /\ asks' = asks \union {Ask("mode", base, m, on)}
    <2> DEFINE flip == ~auto[m]
    <2>1. /\ flip \in BOOLEAN /\ auto' = [auto EXCEPT ![m] = flip]
          /\ asks' = asks \union {Ask("mode", base, m, flip)}
      BY Zenon, <1>2
    <2> HIDE DEF flip
    <2> QED BY <2>1
  <1>4. PICK a \in Asks : /\ asks' = asks \union {a} /\ AskSuited(a) /\ a.op = "mode"
                          /\ a.to = base /\ a.arg = m /\ a.on = on /\ a.stage = "sent"
    <2>1. tries \in Nat
      BY <1>1 DEF PanesTypeOK
    <2> QED BY <1>1, <1>3, <2>1, AskSuits DEF AskOps
  <1>5. PanesTypeOK'
    BY <1>1, <1>3, <1>4 DEF PanesTypeOK
  <1>6. ChoiceIsOffered'
    BY <1>1, ChoiceStays DEF PanesInv
  <1>7. BoxesInStep'
    <2> SUFFICES ASSUME tale' = {}, base \in Sandboxes
                 PROVE  \E b \in asks' : AboutModes' = {b} /\ b.to = base' /\ Corrects(b)'
      BY <1>1 DEF BoxesInStep
    <2>1. asks = {} /\ tale = {}
      BY <1>1
    <2>2. auto = gis[base]
      BY <1>1, <2>1 DEF PanesInv, BoxesInStep
    <2>3. AboutModes' = {a} /\ a \in asks'
      BY <1>3, <1>4, <2>1 DEF AboutModes
    <2>4. Corrects(a)'
      BY <1>1, <1>3, <1>4, <2>2 DEF Corrects
    <2> QED BY <1>1, <1>4, <2>3, <2>4
  <1>8. ReplayInStep'
    BY <1>1, <1>3, <1>4, ReplayStays DEF PanesInv
  <1> QED BY <1>5, <1>6, <1>7, <1>8 DEF PanesInv

(* Calls about a replay are sent to where the path leads, and PLAY asks for *)
(* the file that is selected.                                               *)
LEMMA ReplaySteps ==
  ASSUME IInv, PanesInv, checkReplayStatus \/ playReplay \/ stopReplay
  PROVE  PanesInv'
  <1>1. /\ PanesTypeOK /\ base \in Names
        /\ UNCHANGED <<session, base, exec, page, pane, choice, auto, gis, replay, player,
                       tale, mixed>>
        /\ tries' \in Nat /\ "replay" \in Session.panes
    <2>1. PanesTypeOK /\ base \in Names /\ tries \in Nat
      BY DEF IInv, TypeOK, PanesInv, PanesTypeOK
    <2>2. CASE checkReplayStatus
      BY <2>1, <2>2 DEF checkReplayStatus, vars
    <2>3. CASE playReplay \/ stopReplay
      BY <2>1, <2>3 DEF playReplay, stopReplay, SendReplay, Try, Open, vars, Ask
    <2> QED BY <2>2, <2>3
  <1>2. PICK a \in Asks : /\ asks' = asks \union {a} /\ AskSuited(a)
                          /\ a.op \in {"status", "play", "stop"} /\ a.to = base /\ a.stage = "sent"
                          /\ a.op = "play" => a.arg = replay.selected
    <2>1. CASE checkReplayStatus
      <3> DEFINE a == [op |-> "status", to |-> base, arg |-> Nothing, on |-> FALSE, no |-> 0,
                       stage |-> "sent", gives |-> {}]
      <3>1. [Ask("status", base, Nothing, FALSE) EXCEPT !.no = 0] = a
        <4>1. ASSUME NEW b
              PROVE  [[op |-> "status", to |-> base, arg |-> Nothing, on |-> b, no |-> tries,
                       stage |-> "sent", gives |-> {}] EXCEPT !.no = 0]
                     = [op |-> "status", to |-> base, arg |-> Nothing, on |-> b, no |-> 0,
                        stage |-> "sent", gives |-> {}]
          OBVIOUS
        <4> QED BY Zenon, <4>1 DEF Ask
      <3>2. asks' = asks \union {a}
        BY <2>1, <3>1 DEF checkReplayStatus
      <3>3. a \in Asks /\ AskSuited(a)
        BY <1>1 DEF Asks, AskOps, AskSuited
      <3> QED BY <3>2, <3>3
    <2>2. CASE playReplay \/ stopReplay
      <3>1. \/ canPlay /\ asks' = asks \union
                 {[op |-> "play", to |-> base, arg |-> replay.selected, on |-> FALSE,
                   no |-> tries, stage |-> "sent", gives |-> {}]}
            \/ asks' = asks \union
                 {[op |-> "stop", to |-> base, arg |-> replay.selected, on |-> FALSE,
                   no |-> tries, stage |-> "sent", gives |-> {}]}
        BY <2>2 DEF playReplay, stopReplay, SendReplay, Ask
      <3>2. PICK op \in {"play", "stop"} :
              /\ op = "play" => canPlay
              /\ asks' = asks \union {[op |-> op, to |-> base, arg |-> replay.selected,
                   on |-> FALSE, no |-> tries, stage |-> "sent", gives |-> {}]}
        BY <3>1
      <3> DEFINE a == [op |-> op, to |-> base, arg |-> replay.selected, on |-> FALSE,
                       no |-> tries, stage |-> "sent", gives |-> {}]
      <3>3. replay.selected \in Files \union {Nothing} /\ tries \in Nat
        BY <1>1 DEF PanesTypeOK
      <3>4. op = "play" => replay.selected \in Files
        BY <3>2, <3>3 DEF canPlay
      <3>5. a \in Asks /\ AskSuited(a)
        BY <1>1, <3>3, <3>4 DEF Asks, AskOps, AskSuited
      <3> QED BY <3>2, <3>5
    <2> QED BY <2>1, <2>2
  <1>3. PanesTypeOK'
    BY <1>1, <1>2 DEF PanesTypeOK
  <1>4. ChoiceIsOffered'
    BY <1>1, ChoiceStays DEF PanesInv
  <1>5. BoxesInStep'
    <2>1. AboutModes' = AboutModes /\ Drawn' = Drawn
      BY <1>1, <1>2 DEF AboutModes, Drawn
    <2> QED BY <1>1, <2>1, BoxesStay DEF PanesInv
  <1>6. ReplayInStep'
    BY <1>1, <1>2 DEF PanesInv, ReplayInStep, Session
  <1> QED BY <1>3, <1>4, <1>5, <1>6 DEF PanesInv

(* Another file may be selected while nothing plays and nothing is asked,   *)
(* or mixed says so.                                                        *)
LEMMA SelectInductive ==
  ASSUME PanesInv, onSelectFile
  PROVE  PanesInv'
  <1> DEFINE may == mixed \/ asks # {} \/ (base \in Sandboxes /\ player[base] # Nothing)
  <1>1. /\ PanesTypeOK /\ replay.status = Nothing /\ "replay" \in Session.panes
        /\ UNCHANGED <<session, base, exec, page, pane, choice, auto, gis, player, asks, tale>>
        /\ tries' = tries + 1
    BY DEF onSelectFile, Try, CanSelect, Open, vars, PanesInv
  <1>2. mixed' = may /\ may \in BOOLEAN
    BY Zenon, <1>1 DEF onSelectFile
  <1>3. ~may => asks = {} /\ (base \in Sandboxes => player[base] = Nothing)
    OBVIOUS
  <1> HIDE DEF may
  <1>4. PICK f \in Files \union {Nothing} : replay' = [replay EXCEPT !.selected = f]
    BY DEF onSelectFile
  <1>5. PanesTypeOK'
    BY <1>1, <1>2, <1>4 DEF PanesTypeOK
  <1>6. ChoiceIsOffered'
    BY <1>1, ChoiceStays DEF PanesInv
  <1>7. BoxesInStep'
    <2>1. AboutModes' = AboutModes /\ Drawn' = Drawn
      BY <1>1 DEF AboutModes, Drawn
    <2> QED BY <1>1, <2>1, BoxesStay DEF PanesInv
  <1>8. ReplayInStep'
    <2>1. replay'.status = Nothing
      BY <1>1, <1>4 DEF PanesTypeOK
    <2> QED BY <1>1, <1>2, <1>3, <2>1 DEF ReplayInStep, Session
  <1> QED BY <1>5, <1>6, <1>7, <1>8 DEF PanesInv

LEMMA ReplayEndsInductive ==
  ASSUME PanesInv, ReplayEnds
  PROVE  PanesInv'
  <1>1. /\ PanesTypeOK
        /\ UNCHANGED <<session, base, exec, page, pane, choice, auto, gis, replay, asks, tries,
                       tale, mixed>>
    BY DEF ReplayEnds, vars, PanesInv
  <1>2. player' \in [Sandboxes -> Files \union {Nothing}]
        /\ \A s \in Sandboxes : player'[s] \in {Nothing, player[s]}
    BY <1>1 DEF ReplayEnds, PanesTypeOK
  <1>3. PanesTypeOK'
    BY <1>1, <1>2 DEF PanesTypeOK
  <1>4. ChoiceIsOffered'
    BY <1>1, ChoiceStays DEF PanesInv
  <1>5. BoxesInStep'
    <2>1. AboutModes' = AboutModes /\ Drawn' = Drawn
      BY <1>1 DEF AboutModes, Drawn
    <2> QED BY <1>1, <2>1, BoxesStay DEF PanesInv
  <1>6. ReplayInStep'
    BY <1>1, <1>2 DEF PanesInv, ReplayInStep, Session
  <1> QED BY <1>3, <1>4, <1>5, <1>6 DEF PanesInv
-----------------------------------------------------------------------------
(* What of a call changes when it is served, or lost.                       *)
LEMMA CallTurns ==
  ASSUME NEW a \in Asks, NEW st \in {"served", "failed"}, NEW gs \in SUBSET (Modes \union Files)
  PROVE  \E b \in Asks : /\ b = [a EXCEPT !.stage = st, !.gives = gs]
                         /\ b.stage = st /\ b.gives = gs
                         /\ b.op = a.op /\ b.to = a.to /\ b.arg = a.arg /\ b.on = a.on
  <1> DEFINE b == [a EXCEPT !.stage = st, !.gives = gs]
  <1>1. /\ b \in Asks /\ b.stage = st /\ b.gives = gs
        /\ b.op = a.op /\ b.to = a.to /\ b.arg = a.arg /\ b.on = a.on
    BY DEF Asks
  <1> QED BY Zenon, <1>1

(* A call that is put in the place of another one about the same.           *)
LEMMA AboutTurns ==
  ASSUME NEW a \in asks, NEW b, b.op = a.op, asks' = (asks \ {a}) \union {b}
  PROVE  /\ a.op \notin {"modes", "mode"} => AboutModes' = AboutModes
         /\ AboutModes = {a} => AboutModes' = {b}
         /\ a.op \in {"modes", "mode"} => a \in AboutModes
  BY DEF AboutModes

(* The call about the boxes that is under way, if there is one.             *)
LEMMA TheCallAboutModes ==
  ASSUME BoxesInStep, Drawn, "auto" \in Session.panes, tale = {}, base \in Sandboxes,
         NEW a \in asks, a.op \in {"modes", "mode"}
  PROVE  AboutModes = {a} /\ a.to = base /\ Corrects(a)
  <1>1. a \in AboutModes
    BY DEF AboutModes
  <1> QED BY <1>1 DEF BoxesInStep

(* A call fails: nobody does what it asked for.                             *)
LEMMA FailsInductive ==
  ASSUME PanesInv, NEW a \in asks, tries' \in Nat,
         NEW b \in Asks, b.stage = "failed", b.op = a.op, b.to = a.to, b.arg = a.arg,
         asks' = (asks \ {a}) \union {b},
         UNCHANGED <<vars, pane, choice, auto, gis, replay, player, tale, mixed>>
  PROVE  PanesInv'
  <1>1. PanesTypeOK /\ a \in Asks /\ AskSuited(a)
    BY DEF PanesInv, PanesTypeOK
  <1>2. AskSuited(b)
    BY <1>1 DEF AskSuited
  <1>3. PanesTypeOK'
    BY <1>1, <1>2 DEF PanesTypeOK
  <1>4. ChoiceIsOffered'
    BY ChoiceStays DEF PanesInv
  <1>5. BoxesInStep'
    <2>1. UNCHANGED <<session, base, auto, gis, tale>> /\ Drawn' = Drawn
      BY DEF vars, Drawn
    <2>2. CASE a.op \notin {"modes", "mode"}
      BY <2>1, <2>2, AboutTurns, BoxesStay DEF PanesInv
    <2>3. CASE a.op \in {"modes", "mode"}
      <3> SUFFICES ASSUME Drawn, "auto" \in Session.panes, tale = {}, base \in Sandboxes
                   PROVE  \E c \in asks' : AboutModes' = {c} /\ c.to = base /\ Corrects(c)'
        BY <2>1 DEF BoxesInStep, Session
      <3>1. AboutModes = {a} /\ a.to = base
        BY <2>3, TheCallAboutModes DEF PanesInv
      <3>2. AboutModes' = {b} /\ b \in asks'
        BY <3>1, AboutTurns
      <3>3. Corrects(b)'
        BY <2>3 DEF Corrects
      <3> QED BY <3>1, <3>2, <3>3
    <2> QED BY <2>2, <2>3
  <1>6. ReplayInStep'
    BY <1>1 DEF PanesInv, ReplayInStep, Session, vars
  <1> QED BY <1>3, <1>4, <1>5, <1>6 DEF PanesInv

(* What the platform has and does when it serves a call.                    *)
LEMMA ServedIsTyped ==
  ASSUME PanesTypeOK, NEW a \in asks, AskServes(a)
  PROVE  /\ a.to \in Sandboxes
         /\ AskGives(a) \in SUBSET (Modes \union Files)
         /\ a.op = "status" => AskGives(a) = {player[a.to]} /\ player[a.to] \in Files
         /\ a.op = "modes" => AskGives(a) = {m \in Modes : gis[a.to][m]}
  <1>1. a \in Asks /\ a.to \in Sandboxes
    BY DEF PanesTypeOK, AskServes, Has
  <1>2. a.op = "status" => AskGives(a) = {player[a.to]} /\ player[a.to] \in Files
    BY <1>1, PanesAssumption DEF PanesTypeOK, AskServes, AskGives, PanesAssumption
  <1>3. a.op = "modes" => AskGives(a) = {m \in Modes : gis[a.to][m]}
    BY DEF AskGives
  <1>4. a.op \notin {"modes", "status"} => AskGives(a) = {}
    BY DEF AskGives
  <1> QED BY <1>1, <1>2, <1>3, <1>4

LEMMA DoneIsTyped ==
  ASSUME PanesTypeOK, NEW a \in asks, AskServes(a), AskDoes(a)
  PROVE  /\ gis' \in [Sandboxes -> [Modes -> BOOLEAN]]
         /\ player' \in [Sandboxes -> Files \union {Nothing}]
         /\ a.op # "mode" => gis' = gis
         /\ a.op = "mode" => gis'[a.to] = [gis[a.to] EXCEPT ![a.arg] = a.on]
         /\ \A s \in Sandboxes : player'[s] \in {player[s], Nothing}
                                 \/ (a.op = "play" /\ s = a.to /\ player'[s] = a.arg)
  <1>1. a \in Asks /\ AskSuited(a) /\ a.to \in Sandboxes
    BY ServedIsTyped DEF PanesTypeOK
  <1>2. CASE a.op = "mode"
    <2>1. a.arg \in Modes /\ a.on \in BOOLEAN
      BY <1>1, <1>2 DEF Asks, AskSuited
    <2>2. player' = player /\ gis' = [gis EXCEPT ![a.to][a.arg] = a.on]
      BY <1>2 DEF AskDoes
    <2> QED BY <1>1, <1>2, <2>1, <2>2 DEF PanesTypeOK
  <1>3. CASE a.op = "play"
    <2>1. a.arg \in Files
      BY <1>1, <1>3 DEF AskSuited
    <2>2. gis' = gis /\ player' = [player EXCEPT ![a.to] = a.arg]
      BY <1>3 DEF AskDoes
    <2> QED BY <1>1, <1>3, <2>1, <2>2 DEF PanesTypeOK
  <1>4. CASE a.op \notin {"mode", "play"}
    <2>1. gis' = gis /\ player' \in {player, [player EXCEPT ![a.to] = Nothing]}
      BY <1>4 DEF AskDoes
    <2> QED BY <1>1, <1>4, <2>1 DEF PanesTypeOK
  <1> QED BY <1>2, <1>3, <1>4

(* A call is served: what it gives is what there is, and a mode that it     *)
(* sets is the box that was ticked.                                         *)
LEMMA ServedInductive ==
  ASSUME PanesInv, NEW a \in asks, a.stage = "sent", AskServes(a), AskDoes(a),
         asks' = (asks \ {a}) \union {[a EXCEPT !.stage = "served", !.gives = AskGives(a)]},
         UNCHANGED <<vars, pane, choice, auto, replay, tries, tale, mixed>>
  PROVE  PanesInv'
  <1>1. PanesTypeOK /\ a \in Asks /\ AskSuited(a)
    BY DEF PanesInv, PanesTypeOK
  <1>2. /\ a.to \in Sandboxes
        /\ AskGives(a) \in SUBSET (Modes \union Files)
        /\ a.op = "status" => AskGives(a) = {player[a.to]} /\ player[a.to] \in Files
        /\ a.op = "modes" => AskGives(a) = {m \in Modes : gis[a.to][m]}
    BY <1>1, ServedIsTyped
  <1>3. /\ gis' \in [Sandboxes -> [Modes -> BOOLEAN]]
        /\ player' \in [Sandboxes -> Files \union {Nothing}]
        /\ a.op # "mode" => gis' = gis
        /\ a.op = "mode" => gis'[a.to] = [gis[a.to] EXCEPT ![a.arg] = a.on]
        /\ \A s \in Sandboxes : player'[s] \in {player[s], Nothing}
                                \/ (a.op = "play" /\ s = a.to /\ player'[s] = a.arg)
    BY <1>1, DoneIsTyped
  <1>4. PICK b \in Asks : /\ b.stage = "served" /\ b.gives = AskGives(a)
                          /\ b.op = a.op /\ b.to = a.to /\ b.arg = a.arg /\ b.on = a.on
                          /\ asks' = (asks \ {a}) \union {b}
    <2>1. PICK b \in Asks : /\ b = [a EXCEPT !.stage = "served", !.gives = AskGives(a)]
                            /\ b.stage = "served" /\ b.gives = AskGives(a)
                            /\ b.op = a.op /\ b.to = a.to /\ b.arg = a.arg /\ b.on = a.on
      BY <1>1, <1>2, CallTurns
    <2> QED BY <2>1
  <1>5. AskSuited(b)
    BY <1>1, <1>2, <1>4 DEF AskSuited
  <1>6. PanesTypeOK'
    BY <1>1, <1>3, <1>4, <1>5 DEF PanesTypeOK
  <1>7. ChoiceIsOffered'
    BY ChoiceStays DEF PanesInv
  <1>8. BoxesInStep'
    <2>1. UNCHANGED <<session, base, auto, tale>> /\ Drawn' = Drawn
      BY DEF vars, Drawn
    <2>2. CASE a.op \notin {"modes", "mode"}
      BY <1>3, <1>4, <2>1, <2>2, AboutTurns, BoxesStay DEF PanesInv
    <2>3. CASE a.op \in {"modes", "mode"}
      <3> SUFFICES ASSUME Drawn, "auto" \in Session.panes, tale = {}, base \in Sandboxes
                   PROVE  \E c \in asks' : AboutModes' = {c} /\ c.to = base /\ Corrects(c)'
        BY <2>1 DEF BoxesInStep, Session
      <3>1. AboutModes = {a} /\ a.to = base /\ Corrects(a)
        BY <2>3, TheCallAboutModes DEF PanesInv
      <3>2. AboutModes' = {b} /\ b \in asks'
        BY <1>4, <3>1, AboutTurns
      <3>3. CASE a.op = "modes"
        <4>1. Corrects(b)'
          BY <1>2, <1>3, <1>4, <2>1, <3>1, <3>3 DEF Corrects
        <4> QED BY <1>4, <3>1, <3>2, <4>1
      <3>4. CASE a.op = "mode"
        <4>1. auto = [gis[base] EXCEPT ![a.arg] = a.on]
          BY <3>1, <3>4 DEF Corrects
        <4>2. auto' = gis'[base']
          BY <1>3, <2>1, <3>1, <3>4, <4>1
        <4>3. Corrects(b)'
          BY <1>4, <3>4, <4>2 DEF Corrects
        <4> QED BY <1>4, <3>1, <3>2, <4>3
      <3> QED BY <2>3, <3>3, <3>4
    <2> QED BY <2>2, <2>3
  <1>9. ReplayInStep'
    <2>1. UNCHANGED <<session, base, replay, mixed>> /\ ReplayInStep
      BY DEF vars, PanesInv
    <2>2. CASE "replay" \notin Session.panes
      BY <1>4, <2>1, <2>2 DEF ReplayInStep, Session
    <2>3. CASE "replay" \in Session.panes /\ ~mixed
      <3>1. base \in Sandboxes => player'[base] \in {Nothing, replay.selected}
        BY <1>3, <2>1, <2>3 DEF ReplayInStep
      <3>2. a.op = "status" => AskGives(a) = {replay.selected}
        BY <1>2, <2>1, <2>3, PanesAssumption DEF ReplayInStep, PanesAssumption
      <3>3. /\ b.op \in {"status", "play"} => b.to = base
            /\ b.op = "play" => b.arg = replay.selected
            /\ b.op = "status" => b.gives = {replay.selected}
        BY <1>4, <2>1, <2>3, <3>2 DEF ReplayInStep
      <3> QED BY <1>4, <2>1, <2>3, <3>1, <3>3 DEF ReplayInStep, Session
    <2>4. CASE "replay" \in Session.panes /\ mixed
      BY <2>1, <2>4 DEF ReplayInStep, Session
    <2> QED BY <2>2, <2>3, <2>4 DEF PanesInv, PanesTypeOK
  <1> QED BY <1>6, <1>7, <1>8, <1>9 DEF PanesInv

(* A call is answered: the boxes are set as the engine was, which is as it  *)
(* is; the file that is shown as playing is the one that was asked about.   *)
LEMMA AnsweredInductive ==
  ASSUME PanesInv, NEW a \in asks, AnswerAsk(a)
  PROVE  PanesInv'
  <1>1. /\ PanesTypeOK /\ a \in Asks /\ AskSuited(a) /\ a.stage \in {"served", "failed"}
        /\ asks' = asks \ {a}
        /\ UNCHANGED <<session, base, exec, page, pane, choice, gis, player, tries>>
        /\ auto' = IF a.op = "modes" /\ Ok(a) THEN [m \in Modes |-> m \in a.gives] ELSE auto
        /\ tale' = tale \union IF a.op \in {"modes", "mode"} /\ ~Ok(a) THEN {"refused"} ELSE {}
    BY DEF AnswerAsk, PanesInv, PanesTypeOK, Asks, vars
  <1>2. auto' \in [Modes -> BOOLEAN]
    BY <1>1 DEF PanesTypeOK
  <1>3. /\ replay' \in [status : Files \union {Nothing}, selected : Files \union {Nothing}]
        /\ replay'.selected = replay.selected
        /\ a.op # "status" => replay' = replay
        /\ replay'.status = Nothing \/ replay'.status = replay.status
             \/ (a.op = "status" /\ a.stage = "served" /\ a.gives = {replay'.status})
    <2>1. CASE a.op = "status" /\ Ok(a)
      <3>1. PICK f \in Files : a.gives = {f}
        BY <1>1, <2>1 DEF AskSuited, Ok
      <3>2. replay' = [replay EXCEPT !.status = f]
        BY <2>1, <3>1 DEF AnswerAsk
      <3> QED BY <1>1, <2>1, <3>1, <3>2 DEF PanesTypeOK, Ok
    <2>2. CASE a.op = "status" /\ ~Ok(a)
      <3>1. replay' = [replay EXCEPT !.status = Nothing]
        BY <2>2 DEF AnswerAsk
      <3> QED BY <1>1, <2>2, <3>1 DEF PanesTypeOK
    <2>3. CASE a.op # "status"
      BY <1>1, <2>3 DEF AnswerAsk, PanesTypeOK
    <2> QED BY <2>1, <2>2, <2>3
  <1>4. mixed' \in BOOLEAN /\ (~mixed' => ~mixed \/ (asks = {a} /\ InStep(replay')))
    BY Zenon, <1>1 DEF AnswerAsk, PanesTypeOK
  <1>5. PanesTypeOK'
    BY <1>1, <1>2, <1>3, <1>4 DEF PanesTypeOK
  <1>6. ChoiceIsOffered'
    BY <1>1, ChoiceStays DEF PanesInv
  <1>7. BoxesInStep'
    <2>1. Drawn' = Drawn
      BY <1>1 DEF Drawn
    <2>2. CASE a.op \notin {"modes", "mode"}
      <3>1. AboutModes' = AboutModes /\ auto' = auto /\ tale \subseteq tale'
        BY <1>1, <2>2 DEF AboutModes
      <3> QED BY <1>1, <2>1, <3>1, BoxesStay DEF PanesInv
    <2>3. CASE a.op \in {"modes", "mode"}
      <3> SUFFICES ASSUME Drawn, "auto" \in Session.panes, tale' = {}, base \in Sandboxes
                   PROVE  AboutModes' = {} /\ auto' = gis[base]
        BY <1>1, <2>1 DEF BoxesInStep, Session
      <3>1. tale = {} /\ Ok(a)
        BY <1>1, <2>3
      <3>2. AboutModes = {a} /\ a.to = base /\ Corrects(a)
        BY <2>3, <3>1, TheCallAboutModes DEF PanesInv
      <3>3. AboutModes' = {}
        BY <1>1, <3>2 DEF AboutModes
      <3>4. gis[base] \in [Modes -> BOOLEAN]
        BY <1>1 DEF PanesTypeOK
      <3>5. CASE a.op = "modes"
        <4>1. a.gives = {m \in Modes : gis[base][m]}
          BY <3>1, <3>2, <3>5 DEF Corrects, Ok
        <4>2. auto' = [m \in Modes |-> m \in a.gives]
          BY <1>1, <3>1, <3>5
        <4> QED BY <3>3, <3>4, <4>1, <4>2
      <3>6. CASE a.op = "mode"
        BY <1>1, <3>1, <3>2, <3>3, <3>6 DEF Corrects, Ok
      <3> QED BY <2>3, <3>5, <3>6
    <2> QED BY <2>2, <2>3
  <1>8. ReplayInStep'
    <2>1. ReplayInStep
      BY DEF PanesInv
    <2>2. CASE "replay" \notin Session.panes
      BY <1>1, <1>3, <2>1, <2>2 DEF ReplayInStep, Session
    <2>3. CASE "replay" \in Session.panes /\ mixed'
      BY <1>1, <2>3 DEF ReplayInStep, Session
    <2>4. CASE "replay" \in Session.panes /\ ~mixed' /\ ~mixed
      <3>1. replay'.status \in {Nothing, replay.selected}
        BY <1>1, <1>3, <2>1, <2>4 DEF ReplayInStep
      <3> QED BY <1>1, <1>3, <2>1, <2>4, <3>1 DEF ReplayInStep, Session
    <2>5. CASE "replay" \in Session.panes /\ ~mixed' /\ asks = {a} /\ InStep(replay')
      BY <1>1, <1>3, <2>5 DEF ReplayInStep, Session, InStep
    <2> QED BY <1>4, <2>2, <2>3, <2>4, <2>5
  <1> QED BY <1>5, <1>6, <1>7, <1>8 DEF PanesInv

-----------------------------------------------------------------------------
LEMMA CallStepInductive ==
  ASSUME PanesInv, NEW a \in asks, ServeAsk(a) \/ LoseAsk(a) \/ AnswerAsk(a)
  PROVE  PanesInv'
  <1>1. CASE ServeAsk(a) /\ AskServes(a)
    BY <1>1, ServedInductive DEF ServeAsk
  <1>2. CASE ServeAsk(a) /\ ~AskServes(a)
    <2>1. a \in Asks /\ tries' \in Nat /\ asks' = (asks \ {a}) \union {[a EXCEPT !.stage = "failed"]}
      BY <1>2 DEF ServeAsk, PanesInv, PanesTypeOK
    <2>2. PICK b \in Asks : /\ b = [a EXCEPT !.stage = "failed"] /\ b.stage = "failed"
                            /\ b.op = a.op /\ b.to = a.to /\ b.arg = a.arg
      <3> DEFINE b == [a EXCEPT !.stage = "failed"]
      <3>1. b \in Asks /\ b.stage = "failed" /\ b.op = a.op /\ b.to = a.to /\ b.arg = a.arg
        BY <2>1 DEF Asks
      <3> QED BY Zenon, <3>1
    <2> QED BY <1>2, <2>1, <2>2, FailsInductive DEF ServeAsk
  <1>3. CASE LoseAsk(a)
    <2>1. a \in Asks /\ tries' \in Nat
      BY <1>3 DEF LoseAsk, Try, PanesInv, PanesTypeOK
    <2>2. PICK b \in Asks : /\ b = [a EXCEPT !.stage = "failed", !.gives = {}]
                            /\ b.stage = "failed" /\ b.gives = {}
                            /\ b.op = a.op /\ b.to = a.to /\ b.arg = a.arg /\ b.on = a.on
      <3>1. {} \in SUBSET (Modes \union Files) /\ "failed" \in {"served", "failed"}
        OBVIOUS
      <3> QED BY Zenon, <2>1, <3>1, CallTurns
    <2> QED BY <1>3, <2>1, <2>2, FailsInductive DEF LoseAsk
  <1>4. CASE AnswerAsk(a)
    BY <1>4, AnsweredInductive
  <1> QED BY <1>1, <1>2, <1>3, <1>4

LEMMA PanesNextInductive == IInv /\ IInv' /\ PanesInv /\ [PanesNext]_allVars => PanesInv'
  <1> SUFFICES ASSUME IInv, IInv', PanesInv, [PanesNext]_allVars PROVE PanesInv'
    OBVIOUS
  <1>1. CASE PageStep
    BY <1>1, PageStepInductive
  <1>2. CASE onOpenPane \/ onTarget \/ onDestination \/ onElementType
    BY <1>2, ChoiceSteps
  <1>3. CASE triggerEvent \/ UNCHANGED allVars
    BY <1>3, QuietSteps
  <1>4. CASE setMode
    BY <1>4, SetModeInductive
  <1>5. CASE checkReplayStatus \/ playReplay \/ stopReplay
    BY <1>5, ReplaySteps
  <1>6. CASE onSelectFile
    BY <1>6, SelectInductive
  <1>7. CASE ReplayEnds
    BY <1>7, ReplayEndsInductive
  <1>8. CASE \E a \in asks : ServeAsk(a) \/ LoseAsk(a) \/ AnswerAsk(a)
    BY <1>8, CallStepInductive
  <1> QED BY <1>1, <1>2, <1>3, <1>4, <1>5, <1>6, <1>7, <1>8 DEF PanesNext, PaneSteps

(* The inductive invariant of the page with its panes.                      *)
THEOREM PanesInvariant == PanesSpec => [](IInv /\ PanesInv)
  <1>1. PanesInit => PanesInv
    BY PanesInitInductive
  <1>2. IInv /\ IInv' /\ PanesInv /\ [PanesNext]_allVars => PanesInv'
    BY PanesNextInductive
  <1> QED BY <1>1, <1>2, PanesPageInvariant, PTL DEF PanesSpec

(* STOP asks for the file that is shown as playing, or mixed says why not.  *)
THEOREM StopAsksForThePlayed == PanesSpec => []StopReaches
  <1>1. PanesInv => StopReaches
    BY DEF PanesInv, ReplayInStep, StopReaches
  <1> QED BY <1>1, PanesInvariant, PTL

(* The boxes are what the engine of the selected sandbox does, or the tale  *)
(* says why not.                                                            *)
THEOREM BoxesAreExplained == PanesSpec => []AutomationIsExplained
  <1>1. PanesInv => AutomationIsExplained
    BY DEF PanesInv, PanesTypeOK, BoxesInStep, AboutModes, AutomationIsExplained
  <1> QED BY <1>1, PanesInvariant, PTL
-----------------------------------------------------------------------------
(* Nothing but an event that the user sends makes a call that is one.       *)
SendsEvent == \E c \in calls' \ calls : c.op = "event" /\ c.stage = "sent"

LEMMA PageSendsNoEvent == TypeOK /\ Steps => ~SendsEvent
  <1> SUFFICES ASSUME TypeOK, Steps, NEW c \in calls' \ calls
               PROVE  ~(c.op = "event" /\ c.stage = "sent")
    BY DEF SendsEvent
  <1>1. CASE createSandbox \/ deleteSandbox \/ onDeployScenario \/ terminateScenario
    BY <1>1 DEF createSandbox, deleteSandbox, onDeployScenario, terminateScenario, Submit, Call
  <1>2. CASE setSandbox \/ Reload \/ startExecPageRefresh
    BY <1>2 DEF setSandbox, Reload, startExecPageRefresh, componentDidMount, refreshScenario,
                Followed, Read, Call
  <1>3. CASE OpenDialog \/ closeDialog \/ handleVisibilityChange \/ changeCurrentPage
             \/ OkToTerminate \/ MovePods
    BY <1>3 DEF OpenDialog, closeDialog, handleVisibilityChange, changeCurrentPage, OkToTerminate,
                MovePods
  <1>4. ASSUME NEW d \in calls, Serve(d) \/ Lose(d) \/ Answer(d)
        PROVE  ~(c.op = "event" /\ c.stage = "sent")
    <2>1. d \in Calls
      BY DEF TypeOK
    <2>2. CASE Serve(d)
      <3>1. c = [d EXCEPT !.stage = IF Serves(d) THEN "served" ELSE "failed",
                          !.gives = IF Serves(d) THEN Gives(d) ELSE {}]
        BY <2>2 DEF Serve
      <3>2. c.stage = IF Serves(d) THEN "served" ELSE "failed"
        BY <2>1, <3>1 DEF Calls
      <3> QED BY <3>2
    <2>3. CASE Lose(d)
      <3>1. c = [d EXCEPT !.stage = "failed", !.gives = {}]
        BY <2>3 DEF Lose
      <3> QED BY <2>1, <3>1 DEF Calls
    <2>4. CASE Answer(d)
      BY <2>4 DEF Answer, Refreshed, refreshScenario, Read, Call
    <2> QED BY <1>4, <2>2, <2>3, <2>4
  <1> QED BY <1>1, <1>2, <1>3, <1>4 DEF Steps, UserSteps

(* An element has one type: what is offered for a target is what the        *)
(* scenario model can move it to.                                           *)
LEMMA OfferedIsMovable ==
  ASSUME NEW target, NEW dest, exec.scenario \in Scenarios,
         target \in Mobile(exec.scenario), dest \in Destinations(exec.scenario, target)
  PROVE  Movable(target, dest)
  <1> DEFINE s == exec.scenario
  <1>1. s # Nothing
    BY ExecAssumption DEF ExecAssumption
  <1>2. \A t \in {"UE", "FOG", "EDGE", "EDGE APPLICATION"}, u \in {"UE", "FOG", "EDGE", "EDGE APPLICATION"} :
          target \in Of(s, {t}) /\ target \in Of(s, {u}) => t = u
    BY PanesAssumption DEF PanesAssumption, Of
  <1>3. \A ts : OfType(ts) = Of(s, ts)
    BY <1>1 DEF OfType, Of, Table
  <1>4. Of(s, {"UE", "FOG"}) = Of(s, {"UE"}) \union Of(s, {"FOG"})
    BY DEF Of
  <1>5. target \notin Grouped
    BY <1>1 DEF Mobile, Grouped, Table
  <1>6. CASE target \in Of(s, {"UE"}) \/ target \in Of(s, {"FOG"})
    BY <1>2, <1>3, <1>6 DEF Destinations, Movable
  <1>7. CASE target \in Of(s, {"EDGE APPLICATION"}) /\ ~(target \in Of(s, {"UE"}) \/ target \in Of(s, {"FOG"}))
    BY <1>2, <1>3, <1>4, <1>5, <1>7 DEF Destinations, Movable
  <1>8. CASE target \notin Of(s, {"UE", "FOG"}) /\ target \notin Of(s, {"EDGE APPLICATION"})
    BY <1>3, <1>8 DEF Movable
  <1> QED BY <1>4, <1>6, <1>7, <1>8

(* An event that is sent names elements that go together, for any scenarios *)
(* and elements of them.                                                    *)
THEOREM EventsGoTogether == PanesSpec => EventFits
  <1> DEFINE Fits == \/ choice.seen # exec.scenario
                     \/ choice.dest = Nothing /\ choice.type = Nothing
                     \/ choice.dest # Nothing
                        /\ (choice.from # exec.scenario \/ choice.meant # choice.target)
                     \/ choice.dest # Nothing /\ Movable(choice.target, choice.dest)
                     \/ choice.type # Nothing /\ choice.element \in OfType(Matching(choice.type))
  <1>1. TypeOK /\ PanesInv /\ [PanesNext]_allVars => [SendsEvent => Fits]_calls
    <2> SUFFICES ASSUME TypeOK, PanesInv, [PanesNext]_allVars, calls' # calls, SendsEvent
                 PROVE  Fits
      OBVIOUS
    <2>1. triggerEvent
      <3>1. ~PageStep
        BY PageSendsNoEvent DEF PageStep
      <3>2. vars' # vars
        BY DEF vars
      <3> QED BY <3>1, <3>2 DEF PanesNext, PaneSteps, onOpenPane, onTarget, onDestination,
                 onElementType, Choose, setMode, checkReplayStatus, onSelectFile, playReplay,
                 stopReplay, SendReplay, ReplayEnds, ServeAsk, LoseAsk, AnswerAsk, allVars
    <2>2. ChoiceIsOffered /\ exec.scenario \in Scenarios \union {Nothing}
      BY DEF PanesInv, TypeOK
    <2>3. CASE pane = "mobility"
      <3> SUFFICES ASSUME choice.seen = exec.scenario, choice.dest # Nothing,
                          choice.from = exec.scenario, choice.meant = choice.target
                   PROVE  Movable(choice.target, choice.dest)
        BY <2>2, <2>3 DEF ChoiceIsOffered
      <3>1. /\ exec.scenario # Nothing
            /\ choice.target \in Mobile(exec.scenario)
            /\ choice.dest \in Destinations(exec.scenario, choice.target)
        BY <2>2 DEF ChoiceIsOffered
      <3> QED BY <2>2, <3>1, OfferedIsMovable
    <2>4. CASE pane = "nc"
      <3>1. OfType(Matching(choice.type)) # {}
        BY <2>1, <2>4 DEF triggerEvent, Open
      <3>2. /\ exec.scenario # Nothing
            /\ OfType(Matching(choice.type)) = Of(exec.scenario, Matching(choice.type))
        BY <3>1, ListsAreOf
      <3> QED BY <2>2, <2>4, <3>1, <3>2 DEF ChoiceIsOffered
    <2>5. pane \in {"mobility", "nc"}
      BY <2>1 DEF triggerEvent, Open
    <2> QED BY <2>3, <2>4, <2>5
  <1>2. IInv => TypeOK
    BY DEF IInv
  <1> HIDE DEF Fits
  <1>3. PanesSpec => [][SendsEvent => Fits]_calls
    BY <1>1, <1>2, PanesInvariant, PTL DEF PanesSpec
  <1> QED BY <1>3 DEF EventFits, SendsEvent, Fits
=============================================================================
