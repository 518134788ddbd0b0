------------------------------ MODULE ExecPage ------------------------------
(****************************************************************************)
(* The execution page of the frontend: the sandbox that is selected, the    *)
(* path its calls go to, the scenario it shows, and what its buttons offer. *)
(*                                                                          *)
(* The page asks the platform for everything once a second. An answer does  *)
(* not say which sandbox it is about: the page believes the one that came   *)
(* last. Calls are served and answered in any order; some fail, before or   *)
(* after the platform has done what was asked.                              *)
(****************************************************************************)
EXTENDS Naturals, FiniteSets

CONSTANTS Sandboxes,   \* the names of sandboxes
          Scenarios,   \* the names of scenarios
          Nothing,     \* no sandbox, no scenario, no dialog
          Sessions,    \* name -> the session
          MaxCalls,    \* bound: calls under way
          MaxTimers    \* bound: timers running

(* A session: the platform and the sandbox it starts with, the list that    *)
(* the browser has kept, what may happen, what of the refresh is followed,  *)
(* and the bound on what users and network do.                              *)
MoveNames == {"visibility", "page", "reload", "select", "create", "delete", "activate",
              "terminate", "event", "lose"}
Phases    == {"Pending", "Running", "Terminating"}
Reads     == {"list", "pods", "active"}
Platforms == [Sandboxes -> [up : BOOLEAN, active : Scenarios \union {Nothing},
                            pods : SUBSET Phases]]

ASSUME ExecAssumption ==
    /\ Nothing \notin Sandboxes \union Scenarios
    /\ MaxCalls \in Nat /\ MaxTimers \in Nat
    /\ \A s \in DOMAIN Sessions :
        /\ Sessions[s].start \in Platforms
        /\ Sessions[s].open \in Sandboxes \union {Nothing}
        /\ Sessions[s].listed \subseteq Sandboxes
        /\ Sessions[s].may \subseteq MoveNames
        /\ Sessions[s].reads \subseteq Reads
        /\ Sessions[s].moves \in Nat

VARIABLES session,   \* the session
          server,    \* the platform: each sandbox's [up, active, pods]
          sandbox,   \* ui.sandbox
          sandboxes, \* ui.sandboxes
          base,      \* the sandbox that basepathSandboxCtrl leads to
          exec,      \* [scenario, state, ok, pods], and whose the scenario is
          timers,    \* how many of the two-second timers are running
          ticks,     \* how many refresh intervals are running
          hidden,    \* the tab is not in front
          page,      \* the page that is shown
          dialog,    \* the dialog that is open
          calls,     \* the calls under way
          moves,     \* the moves made so far
          stray      \* history: why the scenario may be another sandbox's

vars == <<session, server, sandbox, sandboxes, base, exec, timers, ticks, hidden, page, dialog,
          calls, moves, stray>>

Pages   == {"EXECUTE", "CONFIGURE"}
Down    == [up |-> FALSE, active |-> Nothing, pods |-> {}]

Writes  == {"create", "delete", "activate", "terminate", "event"}
Call(op, to, arg, no) ==
    [op |-> op, to |-> to, arg |-> arg, no |-> no, stage |-> "sent", gives |-> {}]
Read(op, to) == Call(op, to, Nothing, 0)

(* The page starts empty but for what it keeps in the browser: the sandbox, *)
(* the list, the page and the dialog.                                       *)
Idle == [scenario |-> Nothing, of |-> Nothing, state |-> "IDLE", ok |-> FALSE, pods |-> {}]

componentDidMount(s) ==
    /\ base' = s
    /\ calls' = {Read("active", s)}
    /\ ticks' = 1

Session == Sessions[session]

Init ==
    /\ session \in DOMAIN Sessions
    /\ server = Session.start
    /\ sandbox = Session.open
    /\ sandboxes = Session.listed
    /\ base = sandbox
    /\ exec = Idle
    /\ timers = 0
    /\ ticks = 1
    /\ hidden \in IF "visibility" \in Session.may THEN BOOLEAN ELSE {FALSE}
    /\ page = "EXECUTE"
    /\ dialog = Nothing
    /\ calls = {Read("active", sandbox)}
    /\ moves = 0
    /\ stray = "none"

Move(what) ==
    /\ what \in Session.may
    /\ moves < Session.moves
    /\ moves' = moves + 1
    /\ UNCHANGED session
Followed(cs) == {c \in cs : c.op \in Session.reads}
Fit(cs) == Cardinality(cs) <= MaxCalls
-----------------------------------------------------------------------------
(* The timers of the container, and the tab. *)
setBasepath(s) == base' = s

refreshScenario(b) == {Read("active", b)}

(* Only the newest interval can be cleared: a tab that was opened in the    *)
(* back starts a second one when it first comes to the front.               *)
startTimers == ticks' = ticks + 1
stopTimers  == ticks' = IF ticks > 0 THEN ticks - 1 ELSE 0

handleVisibilityChange ==
    /\ Move("visibility")
    /\ hidden' = ~hidden
    /\ IF hidden' THEN stopTimers ELSE startTimers
    /\ UNCHANGED <<server, sandbox, sandboxes, base, exec, timers, page, dialog, calls, stray>>

changeCurrentPage ==
    /\ Move("page")
    /\ dialog = Nothing
    /\ page' \in Pages \ {page}
    /\ UNCHANGED <<server, sandbox, sandboxes, base, exec, timers, ticks, hidden, dialog,
                   calls, stray>>

(* The browser loads the page anew: what was under way is lost to it.       *)
Reload ==
    /\ Move("reload")
    /\ componentDidMount(sandbox)
    /\ exec' = Idle
    /\ timers' = 0
    /\ stray' = "none"
    /\ UNCHANGED <<server, sandbox, sandboxes, hidden, page, dialog>>

(* The pods are asked for by name, all else by path.                        *)
startExecPageRefresh ==
    /\ ticks > 0
    /\ page = "EXECUTE"
    /\ calls' = calls \union Followed(
                   {Read("list", Nothing)} \union
                   IF sandbox = Nothing THEN {}
                   ELSE {Read("pods", sandbox)} \union refreshScenario(base))
    /\ Fit(calls')
    /\ UNCHANGED <<session, server, sandbox, sandboxes, base, exec, timers, ticks, hidden, page, dialog,
                   moves, stray>>

(* Two seconds after an answer.                                             *)
OkToTerminate ==
    /\ timers > 0
    /\ timers' = timers - 1
    /\ exec' = [exec EXCEPT !.ok = @ \/ exec.state = "DEPLOYED"]
    /\ UNCHANGED <<session, server, sandbox, sandboxes, base, ticks, hidden, page, dialog, calls, moves,
                   stray>>
-----------------------------------------------------------------------------
(* What is offered. *)
Listed          == sandbox \in sandboxes
podsPending     == "Pending" \in exec.pods
podsTerminating == "Terminating" \in exec.pods
podsTerminated  == exec.pods = {}

canDelete    == Listed
canDeploy    == Listed /\ podsTerminated /\ exec.state # "DEPLOYED"
canTerminate == Listed /\ ~podsTerminating /\ exec.state = "DEPLOYED" /\ exec.ok
canSaveScenario == Listed /\ ~podsPending /\ ~podsTerminating /\ exec.ok
canOpenEventCfg == canSaveScenario

(* The dialogs, by what is asked for when they are submitted.               *)
Dialogs == {"create", "delete", "activate", "terminate"}

Offered(d) == CASE d = "create"    -> TRUE
                [] d = "delete"    -> canDelete
                [] d = "activate"  -> canDeploy
                [] d = "terminate" -> canTerminate

OpenDialog ==
    /\ page = "EXECUTE"
    /\ dialog = Nothing
    /\ dialog' \in {d \in Dialogs \intersect Session.may : Offered(d)}
    /\ UNCHANGED <<session, server, sandbox, sandboxes, base, exec, timers, ticks, hidden, page, calls,
                   moves, stray>>

closeDialog ==
    /\ dialog # Nothing
    /\ dialog' = Nothing
    /\ UNCHANGED <<session, server, sandbox, sandboxes, base, exec, timers, ticks, hidden, page, calls,
                   moves, stray>>

(* A dialog stays open whatever is answered meanwhile; OK is never refused. *)
Submit(d, c) ==
    /\ Move(c.op)
    /\ page = "EXECUTE"
    /\ dialog = d
    /\ dialog' = Nothing
    /\ calls' = calls \union {c}
    /\ Fit(calls')
    /\ UNCHANGED <<server, sandboxes, base, exec, timers, ticks, hidden, page>>

(* Mutant: its scenario is not asked for, but by the next refresh.          *)
setSandboxUnasked ==
    /\ Move("select")
    /\ page = "EXECUTE" /\ dialog = Nothing
    /\ \E name \in sandboxes \ {sandbox} : setBasepath(name) /\ sandbox' = name
    /\ stray' = "none"
    /\ UNCHANGED <<server, sandboxes, exec, timers, ticks, hidden, page, dialog, calls>>

(* Select another sandbox; the scenario of the last one stays until the     *)
(* answer.                                                                  *)
setSandbox ==
    /\ Move("select")
    /\ page = "EXECUTE"
    /\ dialog = Nothing
    /\ \E name \in sandboxes \ {sandbox} :
        /\ setBasepath(name)
        /\ calls' = calls \union refreshScenario(name)
        /\ sandbox' = name
    /\ Fit(calls')
    /\ stray' = "none"
    /\ UNCHANGED <<server, sandboxes, exec, timers, ticks, hidden, page, dialog>>

(* The new sandbox is selected at once; the path changes with the answer.   *)
createSandbox ==
    \E name \in Sandboxes :
        /\ Submit("create", Call("create", Nothing, name, moves + 1))
        /\ sandbox' = name
        /\ stray' = "none"

deleteSandbox ==
    /\ sandbox # Nothing
    /\ Submit("delete", Call("delete", Nothing, sandbox, moves + 1))
    /\ UNCHANGED <<sandbox, stray>>

onDeployScenario ==
    \E name \in Scenarios :
        /\ Submit("activate", Call("activate", base, name, moves + 1))
        /\ UNCHANGED <<sandbox, stray>>

terminateScenario ==
    /\ Submit("terminate", Call("terminate", base, Nothing, moves + 1))
    /\ UNCHANGED <<sandbox, stray>>

(* An event that is sent from a pane: the panes are drawn while a scenario   *)
(* is shown as deployed.                                                    *)
sendEvent ==
    /\ exec.state # "IDLE"
    /\ Submit(Nothing, Call("event", base, Nothing, moves + 1))
    /\ UNCHANGED <<sandbox, stray>>
-----------------------------------------------------------------------------
(* The platform. *)
Has(c)   == c.to \in Sandboxes /\ server[c.to].up
Plays(c) == Has(c) /\ server[c.to].active # Nothing

Serves(c) == CASE c.op \in {"list", "pods"}           -> TRUE
               [] c.op \in {"active", "terminate", "event"} -> Plays(c)
               [] c.op = "create"                     -> ~server[c.arg].up
               [] c.op = "delete"                     -> server[c.arg].up
               [] c.op = "activate"                   -> Has(c) /\ ~Plays(c)

Gives(c) == CASE c.op = "list"   -> {s \in Sandboxes : server[s].up}
              [] c.op = "pods"   -> server[c.to].pods
              [] c.op = "active" -> {server[c.to].active}
              [] OTHER           -> {}

Does(c) == CASE c.op = "create"    -> [server EXCEPT ![c.arg] = [Down EXCEPT !.up = TRUE]]
             [] c.op = "delete"    -> [server EXCEPT ![c.arg] = Down]
             [] c.op = "activate"  ->
                  [server EXCEPT ![c.to].active = c.arg, ![c.to].pods = {"Pending"}]
             [] c.op = "terminate" ->
                  [server EXCEPT ![c.to].active = Nothing, ![c.to].pods = {"Terminating"}]
             [] OTHER              -> server

Serve(c) ==
    /\ c.stage = "sent"
    /\ server' = IF Serves(c) THEN Does(c) ELSE server
    /\ calls' = (calls \ {c}) \union
                {[c EXCEPT !.stage = IF Serves(c) THEN "served" ELSE "failed",
                           !.gives = IF Serves(c) THEN Gives(c) ELSE {}]}
    /\ UNCHANGED <<session, sandbox, sandboxes, base, exec, timers, ticks, hidden, page, dialog, moves,
                   stray>>

(* The network fails, before the call is served or after.                   *)
Lose(c) ==
    /\ Move("lose")
    /\ c.stage # "failed"
    /\ calls' = (calls \ {c}) \union {[c EXCEPT !.stage = "failed", !.gives = {}]}
    /\ UNCHANGED <<server, sandbox, sandboxes, base, exec, timers, ticks, hidden, page, dialog,
                   stray>>

(* The pods come up and go away.                                            *)
MovePods ==
    /\ \E s \in Sandboxes :
        /\ server[s].pods \in {{"Pending"}, {"Terminating"}}
        /\ server' = [server EXCEPT ![s].pods = IF @ = {"Pending"} THEN {"Running"} ELSE {}]
    /\ UNCHANGED <<session, sandbox, sandboxes, base, exec, timers, ticks, hidden, page, dialog, calls,
                   moves, stray>>
-----------------------------------------------------------------------------
(* The callbacks. *)
Ok(c) == c.stage = "served"

getSandboxListCb(c) ==
    /\ sandboxes' = IF Ok(c) THEN c.gives ELSE sandboxes
    /\ UNCHANGED <<sandbox, base, exec, timers, stray>>

checkScenarioStatusCb(c) ==
    /\ exec' = [exec EXCEPT !.pods = IF Ok(c) THEN c.gives ELSE {}]
    /\ UNCHANGED <<sandbox, sandboxes, base, timers, stray>>

(* Mutant: an error changes nothing.                                        *)
getActiveScenarioOkCb(c) ==
    /\ IF Ok(c)
       THEN /\ timers < MaxTimers
            /\ exec' = [exec EXCEPT !.scenario = CHOOSE s \in c.gives : TRUE, !.of = c.to,
                                    !.state = "DEPLOYED"]
            /\ timers' = timers + 1
            /\ stray' = IF c.to = sandbox THEN "none" ELSE "late"
       ELSE UNCHANGED <<exec, timers, stray>>
    /\ UNCHANGED <<sandbox, sandboxes, base>>

getActiveScenarioCb(c) ==
    /\ IF Ok(c)
       THEN /\ timers < MaxTimers
            /\ exec' = [exec EXCEPT !.scenario = CHOOSE s \in c.gives : TRUE, !.of = c.to,
                                    !.state = "DEPLOYED"]
            /\ timers' = timers + 1
            /\ stray' = IF c.to = sandbox THEN "none" ELSE "late"
       ELSE /\ exec' = [exec EXCEPT !.state = "IDLE", !.ok = FALSE]
            /\ UNCHANGED <<timers, stray>>
    /\ UNCHANGED <<sandbox, sandboxes, base>>

(* Mutant: the path is left to lead to the last sandbox.                    *)
createSandboxNoPathCb(c) ==
    /\ IF Ok(c) THEN UNCHANGED <<sandbox, stray>> ELSE sandbox' = Nothing /\ stray' = "failed"
    /\ UNCHANGED <<base, sandboxes, exec, timers>>

(* A sandbox that is not created is selected no more: the path and the      *)
(* scenario stay what they were.                                            *)
createSandboxWithNameCb(c) ==
    /\ IF Ok(c) THEN setBasepath(sandbox) /\ UNCHANGED <<sandbox, stray>>
       ELSE sandbox' = Nothing /\ stray' = "failed" /\ UNCHANGED base
    /\ UNCHANGED <<sandboxes, exec, timers>>

(* Mutant: the buttons are left as they were.                               *)
ClearedButOk == [exec EXCEPT !.scenario = Nothing, !.of = Nothing, !.state = "IDLE"]

Cleared == [exec EXCEPT !.scenario = Nothing, !.of = Nothing, !.state = "IDLE", !.ok = FALSE]

(* Whatever sandbox is selected by now is selected no more.                 *)
deleteSandboxCb(c) ==
    /\ IF Ok(c) THEN sandbox' = Nothing /\ setBasepath(Nothing) /\ exec' = Cleared
       ELSE UNCHANGED <<sandbox, base, exec>>
    /\ UNCHANGED <<sandboxes, timers, stray>>

terminateScenarioCb(c) ==
    /\ exec' = IF Ok(c) THEN Cleared ELSE exec
    /\ UNCHANGED <<sandbox, sandboxes, base, timers, stray>>

Unseen(c) == UNCHANGED <<sandbox, sandboxes, base, exec, timers, stray>>

Callback(c) == CASE c.op = "list"      -> getSandboxListCb(c)
                 [] c.op = "pods"      -> checkScenarioStatusCb(c)
                 [] c.op = "active"    -> getActiveScenarioCb(c)
                 [] c.op = "create"    -> createSandboxWithNameCb(c)
                 [] c.op = "delete"    -> deleteSandboxCb(c)
                 [] c.op = "terminate" -> terminateScenarioCb(c)
                 [] OTHER              -> Unseen(c)

(* What a callback asks for in turn.                                        *)
Refreshed(c) == IF Ok(c) /\ c.op \in {"create", "activate", "event"}
                THEN refreshScenario(base') ELSE {}

Answer(c) ==
    /\ c.stage # "sent"
    /\ Callback(c)
    /\ calls' = (calls \ {c}) \union Refreshed(c)
    /\ UNCHANGED <<session, server, ticks, hidden, page, dialog, moves>>
-----------------------------------------------------------------------------
UserSteps == createSandbox \/ setSandbox \/ deleteSandbox \/ onDeployScenario
             \/ terminateScenario \/ OpenDialog \/ closeDialog
             \/ handleVisibilityChange \/ changeCurrentPage \/ Reload

Steps == \/ UserSteps
         \/ startExecPageRefresh
         \/ OkToTerminate
         \/ MovePods
         \/ \E c \in calls : Serve(c) \/ Lose(c) \/ Answer(c)

Next == Steps \/ sendEvent

(* The browser fires its timers, the platform serves every kind of call and *)
(* answers it.                                                              *)
Fairness ==
    /\ WF_vars(startExecPageRefresh)
    /\ WF_vars(OkToTerminate)
    /\ \A op \in Reads \union Writes :
        /\ WF_vars(\E c \in calls : c.op = op /\ Serve(c))
        /\ WF_vars(\E c \in calls : c.op = op /\ Answer(c))

Spec     == Init /\ [][Next]_vars
FairSpec == Spec /\ Fairness
-----------------------------------------------------------------------------
Asked(op) == \E c \in calls : c.op = op

(* The scenario that is shown as deployed is of the sandbox that is         *)
(* selected, unless the page has just turned to that sandbox and waits for  *)
(* the answer, an answer about another sandbox came after it had turned, or *)
(* the sandbox it turned to was never made.                                 *)
ShownIsExplained ==
    exec.state = "DEPLOYED" /\ exec.of # sandbox =>
        \/ Asked("create")
        \/ \E c \in calls : c.op = "active" /\ c.to = sandbox
        \/ stray # "none"

(* What is deployed, terminated or sent goes to the sandbox that is         *)
(* selected, but while one is being created, or when none is selected.      *)
CallsGoToTheSelected ==
    base # sandbox => Asked("create") \/ sandbox = Nothing

(* To terminate, to save and to send an event are offered only of a         *)
(* scenario, and one that is shown as deployed. Two of these buttons look   *)
(* at nothing but the flag the timer sets.                                  *)
OfferedIsShown ==
    canTerminate \/ canSaveScenario \/ canOpenEventCfg =>
        exec.state = "DEPLOYED" /\ exec.scenario \in Scenarios

(* Once the users rest and the network holds, a page that refreshes shows   *)
(* its sandbox as the platform has it.                                      *)
Agrees ==
    LET s == server[sandbox]
    IN  /\ "pods" \in Session.reads => exec.pods = s.pods
        /\ IF s.active = Nothing THEN exec.state = "IDLE"
           ELSE /\ exec.state = "DEPLOYED" /\ exec.ok
                /\ exec.scenario = s.active /\ exec.of = sandbox

EventuallyShown ==
    <>[](("active" \in Session.reads /\ sandbox # Nothing /\ ticks > 0 /\ page = "EXECUTE")
            => Agrees)
=============================================================================
