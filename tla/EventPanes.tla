----------------------------- MODULE EventPanes -----------------------------
(****************************************************************************)
(* The panes of the execution page from which events are made: by hand, by  *)
(* the automation of the GIS engine, and by replay. They are drawn while a  *)
(* scenario is shown as deployed, and go where the page's calls go.         *)
(*                                                                          *)
(* Each step of the page is followed by what the panes do about it; their   *)
(* own steps leave the page as it is, or send an event from it.             *)
(****************************************************************************)
EXTENDS ExecPage

CONSTANTS Elements,  \* scenario -> its elements, [name, type, group]
          Modes,     \* the kinds of automation
          Files      \* replay files

Panes == {"mobility", "nc", "auto", "replay"}

(* The elements of a scenario have names of their own. What of the panes a  *)
(* session uses, and how often: a session that uses any does not load the   *)
(* page anew.                                                               *)
ASSUME PanesAssumption ==
    /\ DOMAIN Elements = Scenarios
    /\ \A s \in Scenarios : \A e, f \in Elements[s] : e.name = f.name => e = f
    /\ Nothing \notin Files
    /\ \A s \in DOMAIN Sessions :
        /\ Sessions[s].panes \subseteq Panes
        /\ Sessions[s].panes # {} => "reload" \notin Sessions[s].may
        /\ Sessions[s].tries \in Nat

VARIABLES pane,     \* the pane that is open: one of three modes of ui
          choice,   \* what is chosen for the next event
          auto,     \* ui.automation...Mode
          gis,      \* the modes of each sandbox's GIS engine
          replay,   \* [status, selected]: as shown
          player,   \* the file each sandbox plays
          asks,     \* the calls of the panes that are under way
          tries,    \* the moves made in the panes
          tale,     \* history: what may have set boxes and engine apart
          mixed     \* history: another file may have been selected

paneVars == <<pane, choice, auto, gis, replay, player, asks, tries, tale, mixed>>
allVars  == <<vars, paneVars>>

AllOff == [m \in Modes |-> FALSE]
Drawn  == page = "EXECUTE" /\ exec.state # "IDLE"

(* What is chosen, the target that the destination was chosen for, and the  *)
(* scenarios from which target and the rest were chosen.                    *)
NoChoice == [target |-> Nothing, from |-> Nothing, dest |-> Nothing, meant |-> Nothing,
             type |-> Nothing, element |-> Nothing, seen |-> Nothing]

Ask(op, to, arg, on) ==
    [op |-> op, to |-> to, arg |-> arg, on |-> on, no |-> tries, stage |-> "sent",
     gives |-> {}]

PanesInit ==
    /\ Init
    /\ pane = Nothing
    /\ choice = NoChoice
    /\ auto = AllOff
    /\ gis \in [Sandboxes -> [Modes -> BOOLEAN]]
    /\ \A s \in Sandboxes : gis[s] = AllOff \/ ("auto" \in Session.panes /\ server[s].up)
    /\ replay = [status |-> Nothing, selected |-> Nothing]
    /\ player = [s \in Sandboxes |-> Nothing]
    /\ asks = {}
    /\ tries = 0
    /\ tale = {}
    /\ mixed = FALSE
-----------------------------------------------------------------------------
(* What follows a step of the page. *)

(* The automation pane reads the modes when it is drawn and when another    *)
(* sandbox is selected. A sandbox that is deselected is so before the path  *)
(* changes.                                                                 *)
refreshAutomationModes ==
    {Ask("modes", IF sandbox' = Nothing THEN base ELSE base', Nothing, FALSE)}

(* Mutant: it reads them only when it is drawn.                             *)
DrawnAnew == Drawn' /\ ~Drawn

ToRefresh == \/ Drawn' /\ ~Drawn
             \/ Drawn /\ sandbox' # sandbox

(* The choice is of a pane that is drawn; the element outlives it.          *)
Forgotten == [NoChoice EXCEPT !.element = choice.element]

(* A sandbox takes its GIS engine with it; terminating stops the replay,    *)
(* and leaves the automation as it is.                                      *)
Gone(s) == server[s].up /\ ~server'[s].up

FollowAuto ==
    /\ asks' = IF ToRefresh THEN asks \union refreshAutomationModes ELSE asks
    /\ gis' = [s \in Sandboxes |-> IF Gone(s) THEN AllOff ELSE gis[s]]
    /\ tale' = (IF ToRefresh /\ asks = {} THEN {} ELSE tale)
               \union (IF ToRefresh /\ asks # {} THEN {"raced"} ELSE {})
               \union (IF base' # base /\ sandbox' = sandbox THEN {"turned"} ELSE {})
               \union (IF \E s \in Sandboxes : Gone(s) THEN {"gone"} ELSE {})

Follow ==
    /\ choice' = IF Drawn' THEN choice ELSE Forgotten
    /\ IF "auto" \in Session.panes THEN FollowAuto ELSE UNCHANGED <<asks, gis, tale>>
    /\ player' = [s \in Sandboxes |-> IF server'[s].active = Nothing THEN Nothing ELSE player[s]]
    /\ mixed' = (mixed \/ ("replay" \in Session.panes /\ base' # base))
    /\ UNCHANGED <<pane, auto, replay, tries>>

PageStep == Steps /\ Follow

Open(what) ==
    /\ what \in Session.panes
    /\ Drawn
    /\ dialog = Nothing
    /\ pane = what

Try ==
    /\ tries < Session.tries
    /\ tries' = tries + 1

(* The event bar is opened while events are offered, and stays open.        *)
onOpenPane ==
    /\ Drawn
    /\ dialog = Nothing
    /\ pane = Nothing => canOpenEventCfg
    /\ pane' \in Session.panes \ {pane}
    /\ choice' = Forgotten
    /\ UNCHANGED <<vars, auto, gis, replay, player, asks, tries, tale, mixed>>
-----------------------------------------------------------------------------
(* Events by hand. The lists are those of the scenario that is shown. *)
Table      == IF exec.scenario = Nothing THEN {} ELSE Elements[exec.scenario]
OfType(ts) == {e.name : e \in {x \in Table : x.type \in ts}}
Grouped    == {e.name : e \in {x \in Table : x.group}}

(* An application of a mobility group is not moved by hand.                 *)
execMobTypes == OfType({"UE", "FOG", "EDGE", "EDGE APPLICATION"}) \ Grouped

(* Mutant: the search for the target stops at the edges.                    *)
populateEarly(target) ==
    IF target \in OfType({"UE"}) THEN OfType({"POA", "POA CELLULAR"}) ELSE OfType({"ZONE"})

populateDestination(target) ==
    CASE target \in OfType({"UE"})               -> OfType({"POA", "POA CELLULAR"})
      [] target \in OfType({"EDGE"})             -> OfType({"ZONE"})
      [] target \in OfType({"FOG"})              -> OfType({"POA", "POA CELLULAR"})
      [] target \in OfType({"EDGE APPLICATION"}) -> OfType({"FOG", "EDGE"})
      [] OTHER                                   -> {}

Choose(p) ==
    /\ Open(p)
    /\ UNCHANGED <<vars, pane, auto, gis, replay, player, asks, tries, tale, mixed>>

(* Another target leaves the destination that was chosen for the last one.  *)
onTarget ==
    /\ Choose("mobility")
    /\ \E t \in execMobTypes : choice' = [choice EXCEPT !.target = t, !.from = exec.scenario]

onDestination ==
    /\ Choose("mobility")
    /\ \E d \in populateDestination(choice.target) :
        choice' = [choice EXCEPT !.dest = d, !.meant = choice.target, !.seen = exec.scenario]

Matching(type) == CASE type = "POA GENERIC"      -> {"POA"}
                    [] type = "OPERATOR GENERIC" -> {"OPERATOR"}
                    [] OTHER                     -> {type}

ncApplicableTypes == {"OPERATOR GENERIC", "ZONE", "POA GENERIC", "EDGE", "FOG", "UE",
                      "EDGE APPLICATION"}

(* A type of which there is no element leaves the element that was chosen.  *)
onElementType ==
    /\ Choose("nc")
    /\ \E t \in ncApplicableTypes :
        LET first == OfType(Matching(t))
        IN  \E e \in IF first = {} THEN {choice.element} ELSE first :
              choice' = [choice EXCEPT !.type = t, !.element = e, !.seen = exec.scenario]

(* A move is sent whatever is chosen; characteristics while the type has    *)
(* elements.                                                                *)
triggerEvent ==
    /\ sendEvent
    /\ \/ Open("mobility")
       \/ /\ Open("nc")
          /\ choice.element # Nothing
          /\ OfType(Matching(choice.type)) # {}
    /\ UNCHANGED <<pane, choice, auto, gis, replay, player, asks, tries, tale, mixed>>
-----------------------------------------------------------------------------
(* Automation. The box is ticked at once, whatever comes of the call. *)
setMode ==
    /\ Try
    /\ Open("auto")
    /\ \E m \in Modes :
        /\ auto' = [auto EXCEPT ![m] = ~@]
        /\ asks' = asks \union {Ask("mode", base, m, ~auto[m])}
    /\ Cardinality(asks') <= MaxCalls
    /\ tale' = tale \union IF asks = {} THEN {} ELSE {"raced"}
    /\ UNCHANGED <<vars, pane, choice, gis, replay, player, mixed>>
-----------------------------------------------------------------------------
(* Replay. *)
canPlay == replay.status = Nothing /\ replay.selected # Nothing

(* Once a second, whatever page is shown.                                   *)
checkReplayStatus ==
    /\ "replay" \in Session.panes
    /\ ticks > 0
    /\ exec.state # "IDLE"
    /\ pane # Nothing
    /\ asks' = asks \union {[Ask("status", base, Nothing, FALSE) EXCEPT !.no = 0]}
    /\ Cardinality(asks') <= MaxCalls
    /\ UNCHANGED <<vars, pane, choice, auto, gis, replay, player, tries, tale, mixed>>

(* Mutant: a file may be selected while another one plays.                  *)
SelectAny == Open("replay")

CanSelect == Open("replay") /\ replay.status = Nothing

onSelectFile ==
    /\ Try
    /\ CanSelect
    /\ \E f \in (Files \union {Nothing}) \ {replay.selected} :
        replay' = [replay EXCEPT !.selected = f]
    /\ mixed' = (mixed \/ asks # {} \/ (base \in Sandboxes /\ player[base] # Nothing))
    /\ UNCHANGED <<vars, pane, choice, auto, gis, player, asks, tale>>

(* Played once or over and over: what is shown does not tell.               *)
SendReplay(op) ==
    /\ Try
    /\ Open("replay")
    /\ asks' = asks \union {Ask(op, base, replay.selected, FALSE)}
    /\ Cardinality(asks') <= MaxCalls
    /\ UNCHANGED <<vars, pane, choice, auto, gis, replay, player, tale, mixed>>

playReplay == SendReplay("play") /\ canPlay
stopReplay == SendReplay("stop") /\ replay.status # Nothing
-----------------------------------------------------------------------------
(* The platform and the callbacks. *)
AskServes(a) ==
    /\ Has(a)
    /\ CASE a.op \in {"modes", "mode"} -> TRUE
         [] a.op = "status" -> player[a.to] # Nothing
         [] a.op = "play"   -> player[a.to] = Nothing /\ Plays(a)
         [] a.op = "stop"   -> player[a.to] = a.arg

AskGives(a) == CASE a.op = "modes"  -> {m \in Modes : gis[a.to][m]}
                 [] a.op = "status" -> {player[a.to]}
                 [] OTHER           -> {}

AskDoes(a) ==
    /\ gis' = IF a.op = "mode" THEN [gis EXCEPT ![a.to][a.arg] = a.on] ELSE gis
    /\ player' = CASE a.op = "play" -> [player EXCEPT ![a.to] = a.arg]
                   [] a.op = "stop" -> [player EXCEPT ![a.to] = Nothing]
                   [] OTHER         -> player

ServeAsk(a) ==
    /\ a.stage = "sent"
    /\ IF AskServes(a)
       THEN /\ AskDoes(a)
            /\ asks' = (asks \ {a}) \union {[a EXCEPT !.stage = "served", !.gives = AskGives(a)]}
       ELSE /\ asks' = (asks \ {a}) \union {[a EXCEPT !.stage = "failed"]}
            /\ UNCHANGED <<gis, player>>
    /\ UNCHANGED <<vars, pane, choice, auto, replay, tries, tale, mixed>>

(* What is shown, what is selected and what is played are the same file.    *)
InStep(shown) ==
    shown.status = shown.selected /\ base \in Sandboxes /\ player[base] = shown.selected

AnswerAsk(a) ==
    /\ a.stage # "sent"
    /\ asks' = asks \ {a}
    /\ auto' = IF a.op = "modes" /\ Ok(a) THEN [m \in Modes |-> m \in a.gives] ELSE auto
    /\ replay' = IF a.op = "status"
                 THEN [replay EXCEPT !.status = IF Ok(a) THEN CHOOSE f \in a.gives : TRUE
                                                ELSE Nothing]
                 ELSE replay
    /\ tale' = tale \union IF a.op \in {"modes", "mode"} /\ ~Ok(a) THEN {"refused"} ELSE {}
    /\ mixed' = (mixed /\ ~(asks = {a} /\ InStep(replay')))
    /\ UNCHANGED <<vars, pane, choice, gis, player, tries>>

LoseAsk(a) ==
    /\ Try
    /\ "lose" \in Session.may
    /\ a.stage # "failed"
    /\ asks' = (asks \ {a}) \union {[a EXCEPT !.stage = "failed", !.gives = {}]}
    /\ UNCHANGED <<vars, pane, choice, auto, gis, replay, player, tale, mixed>>

(* A replay ends by itself.                                                 *)
ReplayEnds ==
    /\ \E s \in Sandboxes : player[s] # Nothing /\ player' = [player EXCEPT ![s] = Nothing]
    /\ UNCHANGED <<vars, pane, choice, auto, gis, replay, asks, tries, tale, mixed>>
-----------------------------------------------------------------------------
PaneSteps == onOpenPane \/ onTarget \/ onDestination \/ onElementType \/ triggerEvent
             \/ setMode \/ checkReplayStatus \/ onSelectFile \/ playReplay \/ stopReplay

PanesNext ==
    \/ PageStep
    \/ PaneSteps
    \/ ReplayEnds
    \/ \E a \in asks : ServeAsk(a) \/ LoseAsk(a) \/ AnswerAsk(a)

PanesSpec     == PanesInit /\ [][PanesNext]_allVars
FairPanesSpec == PanesSpec /\ Fairness
-----------------------------------------------------------------------------
(* What the scenario model can move: it takes the destination of a UE or a  *)
(* fog for a network location, and of an application for a physical one. It *)
(* does so for an edge as well, which is offered zones.                     *)
Movable(target, dest) ==
    /\ target \in OfType({"UE", "FOG"}) => dest \in OfType({"POA", "POA CELLULAR"})
    /\ target \in OfType({"EDGE APPLICATION"}) =>
          target \notin Grouped /\ dest \in OfType({"FOG", "EDGE"})

(* An event that is sent names elements that go together: a target and a    *)
(* destination that the scenario model can move it to, or an element of the *)
(* type that was chosen. Excepted are a move for which nothing was chosen,  *)
(* a target chosen after its destination, and what was chosen of another    *)
(* scenario.                                                                *)
EventFits ==
    [][(\E c \in calls' \ calls : c.op = "event" /\ c.stage = "sent") =>
          \/ choice.seen # exec.scenario
          \/ choice.dest = Nothing /\ choice.type = Nothing
          \/ choice.dest # Nothing /\ (choice.from # exec.scenario \/ choice.meant # choice.target)
          \/ choice.dest # Nothing /\ Movable(choice.target, choice.dest)
          \/ choice.type # Nothing /\ choice.element \in OfType(Matching(choice.type))]_calls

(* The boxes show what the GIS engine of the selected sandbox does, unless  *)
(* calls about it crossed, one failed, the sandbox went, or the path has    *)
(* changed and nobody read the modes again.                                 *)
AutomationIsExplained ==
    Drawn /\ "auto" \in Session.panes /\ asks = {} /\ base \in Sandboxes =>
        auto = gis[base] \/ tale # {}

(* STOP asks for the file that is selected: it is the one that is shown as  *)
(* playing, unless another one was selected before the page could show      *)
(* that, or in another sandbox.                                             *)
StopReaches == replay.status # Nothing => replay.selected = replay.status \/ mixed
=============================================================================
