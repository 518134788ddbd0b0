------------------------------- MODULE CfgPage -------------------------------
(****************************************************************************)
(* The configuration page of the frontend: the scenario being edited, the   *)
(* table drawn from it, the form of one element, and the calls that load,   *)
(* save and delete scenarios at the platform controller.                    *)
(*                                                                          *)
(* Calls are asynchronous: the page stays live while one is under way, and  *)
(* the answers come in any order, or not at all. A game is a bounded        *)
(* session: which fields are followed, what the user may pick and type, and *)
(* what the server has at the start.                                        *)
(****************************************************************************)
EXTENDS ScenarioEdit

CONSTANTS Games,  \* name -> the session
          AtFirst \* name -> the scenarios on the server at the start, by name

(* fields: the fields followed; samples: what is typed into each of them;   *)
(* types, names: the types that are picked or opened and the element names  *)
(* that are typed; scenarios: the names given to scenarios; open: the one   *)
(* that is open; files: the empty scenarios that may be imported; versions: *)
(* of what may be imported and of what the server may have at the start;    *)
(* steps, calls: the bounds on the operations of the user and on the calls  *)
(* under way; lossy: whether answers get lost.                              *)
GameKeys == {"fields", "samples", "types", "names", "scenarios", "open", "files",
             "versions", "steps", "calls", "lossy"}

(* A scenario is the first of its nodes, and contains all others.           *)
IsScenario(s) ==
    /\ s \in Seq({s[k] : k \in Nodes(s)}) /\ s # <<>>
    /\ \A k \in Nodes(s) : /\ DOMAIN s[k] = {"id", "name", "type", "depth", "data"}
                           /\ s[k].depth \in IF k = 1 THEN {0} ELSE 1..5

(* The version of a scenario: it may lack one; the validator of the server  *)
(* upgrades an old one, and refuses one that is later or of another major.  *)
Versions  == {"none", "old", "current", "other"}
Supported == Versions \ {"other"}

(* The dialog of a new scenario: no name is typed, or one in error.         *)
NoName == "(none)"

(* The server keeps a scenario under its name. When it started it upgraded  *)
(* what it could.                                                           *)
ASSUME GamesAssumption ==
    \A g \in DOMAIN Games :
        /\ DOMAIN Games[g] = GameKeys /\ g \in DOMAIN AtFirst
        /\ Games[g].open \in DOMAIN AtFirst[g]
        /\ \A n \in DOMAIN AtFirst[g] : IsScenario(AtFirst[g][n]) /\ Name(AtFirst[g][n]) = n

VARIABLES game,      \* the session
          scenario,  \* cfg.scenario
          table,     \* cfg.table.entries
          form,      \* cfg.elementConfiguration
          page,      \* cfg.state
          calls,     \* the calls under way
          stored,    \* the scenarios on the server, by name
          versions,  \* and their versions
          version,   \* of cfg.scenario
          typed,     \* the name in the dialog of a new scenario
          made,      \* the ids given so far
          left,      \* the operations the user has left
          tale,      \* what happened to the calls so far
          did        \* the last thing done to the scenario with the form

cpVars == <<game, scenario, table, form, page, calls, stored, versions, version, typed,
            made, left, tale, did>>

server == <<stored, versions>>

Game   == Games[game]
NoForm == [mode |-> "none"]

CpInit ==
    /\ game \in DOMAIN Games
    /\ stored = AtFirst[game]
    /\ versions \in [DOMAIN stored -> Game.versions \intersect {"current", "other"}]
    /\ scenario = stored[Game.open]
    /\ version = versions[Game.open]
    /\ typed = NoName
    /\ table = parseScenario(scenario)
    /\ form = NoForm
    /\ page = "LOADED"
    /\ calls = {}
    /\ made = 0
    /\ left = Game.steps
    /\ tale = {}
    /\ did = "nothing"

Newest(n)  == "#" \o ToString(made + n)
Spend      == left > 0 /\ left' = left - 1
Note(what) == tale' = tale \union what
Busy       == IF calls = {} THEN {} ELSE {"raced"}
-----------------------------------------------------------------------------
(* The form. *)
parentTypes(type) ==
    CASE type \in {"OPERATOR", "OPERATOR CELLULAR", "DISTANT CLOUD"} -> {"SCENARIO"}
      [] type = "ZONE"                         -> {"OPERATOR", "OPERATOR CELLULAR"}
      [] type \in {"POA", "POA CELLULAR", "EDGE"} -> {"ZONE"}
      [] type \in {"UE", "FOG"}                -> {"POA", "POA CELLULAR"}
      [] type = "UE APPLICATION"               -> {"UE"}
      [] type = "EDGE APPLICATION"             -> {"FOG", "EDGE"}
      [] type = "CLOUD APPLICATION"            -> {"DISTANT CLOUD"}
      [] OTHER                                 -> {}

elementsOfType(types) == {e.name : e \in {x \in table : x.type \in types}}

SuggestedPrefix(type) ==
    CASE type = "UE APPLICATION"    -> "ue-app"
      [] type = "EDGE APPLICATION"  -> "edge-app"
      [] type = "CLOUD APPLICATION" -> "cloud-app"
      [] type = "DISTANT CLOUD"     -> "cloud"
      [] type = "POA CELLULAR"      -> "poa-cell"
      [] type = "OPERATOR CELLULAR" -> "operator-cell"
      [] type = "OPERATOR"          -> "operator"
      [] type = "ZONE"              -> "zone"
      [] type = "POA"               -> "poa"
      [] type = "UE"                -> "ue"
      [] type = "FOG"               -> "fog"
      [] type = "EDGE"              -> "edge"

getSuggestedName(type) == createUniqueName(table, SuggestedPrefix(type))

Visible == Game.fields \intersect
    TypeRelatedFormFields(form.type, Val(form.vals, "isExternal") = "true",
                          Val(form.vals, "userChartEnabled") = "true")

OnForm == /\ did' = "nothing"
          /\ UNCHANGED <<game, scenario, table, page, calls, server, version, typed, made, left, tale>>

onNewElement ==
    /\ page # "IDLE"
    /\ form = NoForm
    /\ form' = [mode |-> "NEW", id |-> "", name |-> "", type |-> "", parent |-> "",
                parents |-> {}, vals |-> createElem(Game.fields), errs |-> {}, modified |-> FALSE]
    /\ OnForm

(* A node of the graph, which shows what the table has. Nothing happens to  *)
(* a form that is open on the same element, be it to clone it.              *)
onEditElement ==
    /\ page # "IDLE"
    /\ \E e \in {x \in table : x.type \in Game.types} :
        /\ form # NoForm => form.id # e.id
        /\ form' = [mode |-> "EDIT", id |-> e.id, name |-> e.name, type |-> e.type,
                    parent |-> e.parent, parents |-> {e.parent}, vals |-> e.vals,
                    errs |-> {}, modified |-> FALSE]
    /\ OnForm

onCancelElement ==
    /\ form # NoForm
    /\ form' = NoForm
    /\ OnForm

(* Another type keeps the values and the errors of all other fields.        *)
onElementTypeChange ==
    /\ form.mode = "NEW"
    /\ \E t \in Game.types \ {form.type, "SCENARIO"} :
        form' = [form EXCEPT !.type = t, !.parent = "", !.name = getSuggestedName(t),
                             !.parents = elementsOfType(parentTypes(t)),
                             !.errs = @ \ {"name"}, !.modified = TRUE]
    /\ OnForm

Typed(f, t) == IF Accepts(form.type, f, t) THEN form.errs \ {f} ELSE form.errs \union {f}

onUpdateElement ==
    /\ form # NoForm
    /\ \/ /\ form.mode # "EDIT" /\ form.type # ""
          /\ \E p \in form.parents \ {form.parent} : form' = [form EXCEPT !.parent = p, !.modified = TRUE]
       \/ /\ form.type # "SCENARIO"
          /\ \E n \in Game.names \ {form.name} :
                form' = [form EXCEPT !.name = n, !.errs = Typed("name", n), !.modified = TRUE]
       \/ \E f \in Visible : \E t \in Game.samples[f] \ {form.vals[f]} :
             form' = [form EXCEPT !.vals[f] = t, !.errs = Typed(f, t), !.modified = TRUE]
    /\ OnForm

onCloneElement ==
    /\ form.mode = "EDIT"
    /\ form' = [form EXCEPT !.mode = "CLONE", !.name = createUniqueName(table, @ \o "-copy"),
                            !.parent = "", !.parents = elementsOfType(parentTypes(form.type)),
                            !.errs = @ \ {"name"}, !.modified = TRUE]
    /\ OnForm
-----------------------------------------------------------------------------
(* The operations on the scenario. *)
externalPorts(v) ==
    LET ports(f, t) == IF f = "externalPort" THEN Texts[t].num
                       ELSE UNION {Texts[Texts[t].list[k][1]].num : k \in DOMAIN Texts[t].list}
    IN  UNION {ports(f, v[f]) : f \in DOMAIN v \intersect {"externalPort", "ingressServiceMap"}}
        \ {0}

(* Mutant: two elements may have one name.                                  *)
validateAnyName == form.errs = {} /\ form.name # ""

validateNetworkElement ==
    /\ form.errs = {}
    /\ form.name # ""
    /\ \A e \in table : e.name = form.name => e.id = form.id
    /\ form.type # "SCENARIO" =>
        /\ \E e \in table : e.name = form.parent
        /\ Val(form.vals, "gpuCount") # "" => Val(form.vals, "gpuType") # ""
        /\ LET ports == externalPorts(form.vals)
           IN  ports # {} => \A e \in table : e.name # form.name =>
                                externalPorts(e.vals) \intersect ports = {}

(* changeScenario of the container: the scenario and all that is drawn.     *)
changeScenario(s) == scenario' = s /\ table' = parseScenario(scenario')

OnScenario(what) ==
    /\ Spend
    /\ form' = NoForm
    /\ Note({"edited"} \union Busy)
    /\ did' = what
    /\ UNCHANGED <<game, page, calls, server, version, typed>>

onSaveElement ==
    /\ form.mode \in {"NEW", "EDIT"} /\ form.modified /\ validateNetworkElement
    /\ IF form.mode = "NEW"
       THEN /\ changeScenario(addElementToScenario(scenario, Newest(1), form.name, form.type,
                                                   form.parent, form.vals))
            /\ made' = made + 1
       ELSE /\ changeScenario(updateElementInScenario(scenario, form.id, form.name, form.vals))
            /\ UNCHANGED made
    /\ OnScenario("save")

onApplyCloneElement ==
    /\ form.mode = "CLONE" /\ validateNetworkElement
    /\ changeScenario(cloneElementInScenario(scenario, table, form.id, form.name,
                                             form.parent, form.vals,
                                             [k \in 1..Len(scenario) |-> Newest(k)]))
    /\ made' = made + Len(scenario)
    /\ OnScenario("clone")

onDeleteElement ==
    /\ form.mode = "EDIT"
    /\ changeScenario(removeElementFromScenario(scenario, form.name))
    /\ OnScenario("delete")
    /\ UNCHANGED made
-----------------------------------------------------------------------------
(* The calls. A dialog sends one; the server serves it; the callback runs   *)
(* with the answer, or with an error when that got lost.                    *)
Send(op, name, doc, of) ==
    /\ Cardinality(calls) < Game.calls
    /\ Spend
    /\ did' = "nothing"
    /\ calls' = calls \union {[op |-> op, name |-> name, doc |-> doc, version |-> of,
                               at |-> left, answer |-> "none", gives |-> <<>>]}

(* A name is typed into the dialog, which keeps it when it is submitted.    *)
changeScenarioName ==
    /\ Game.calls > 0
    /\ Spend
    /\ typed' \in (Game.scenarios \union {NoName}) \ {typed}
    /\ did' = "nothing"
    /\ UNCHANGED <<game, scenario, table, form, page, calls, server, version, made, tale>>

NewScenarioDialog ==
    /\ Send("new", typed, <<>>, "none")
    /\ Note(Busy)
    /\ UNCHANGED <<game, scenario, table, form, page, server, version, typed, made>>

OpenScenarioDialog ==
    \E n \in DOMAIN stored :
        /\ Send("open", n, <<>>, "none")
        /\ Note(Busy)
        /\ UNCHANGED <<game, scenario, table, form, page, server, version, typed, made>>

(* The copy that is sent becomes the scenario, under the name it is saved   *)
(* as. Nothing is drawn anew.                                               *)
saveScenario ==
    /\ page \in {"NEW", "LOADED"}
    /\ \E n \in Game.scenarios \union {Name(scenario)} :
        LET copy == [scenario EXCEPT ![1].name = n, ![1].id = n]
        IN  /\ Send(IF page = "NEW" \/ n # Name(scenario) THEN "create" ELSE "set", n, copy,
                    version)
            /\ scenario' = copy
    /\ tale' = (tale \ {"edited"}) \union Busy
    /\ UNCHANGED <<game, table, form, page, server, version, typed, made>>

deleteScenario ==
    /\ page = "LOADED"
    /\ Send("delete", Name(scenario), <<>>, "none")
    /\ Note(Busy)
    /\ UNCHANGED <<game, scenario, table, form, page, server, version, typed, made>>

onScenarioInputChange ==
    \E file \in Game.files :
        /\ Send("import", file, <<>>, "none")
        /\ changeScenario(createNewScenario(file, Game.fields))
        /\ version' \in Game.versions
        /\ Note({"edited"} \union Busy)
        /\ UNCHANGED <<game, form, page, server, typed, made>>

(* The server creates only what it does not have, and replaces or deletes   *)
(* only what it has. What it keeps is of the current version: ValidateScenario *)
(* adds that to a scenario without one, upgrades an old one, which moves    *)
(* characteristics that are not followed here, and refuses the others.      *)
Serve ==
    \E c \in {x \in calls : x.answer = "none"} :
        LET has == c.name \in DOMAIN stored
            ok  == /\ c.op \in {"create", "set"} => c.version \in Supported
                   /\ IF c.op = "create" THEN ~has ELSE has
            all == DOMAIN stored \union {c.name}
        IN  /\ CASE ok /\ c.op \in {"create", "set"} ->
                      /\ stored' = [n \in all |-> IF n = c.name THEN c.doc ELSE stored[n]]
                      /\ versions' = [n \in all |-> IF n = c.name THEN "current" ELSE versions[n]]
                 [] ok /\ c.op = "delete" ->
                      /\ stored' = [n \in DOMAIN stored \ {c.name} |-> stored[n]]
                      /\ versions' = [n \in DOMAIN stored \ {c.name} |-> versions[n]]
                 [] OTHER -> UNCHANGED server
            /\ calls' = (calls \ {c}) \union
                        {[c EXCEPT !.answer = IF ok THEN "ok" ELSE "error",
                                   !.gives = IF ok /\ c.op = "open" THEN stored[c.name] ELSE <<>>,
                                   !.version = IF ok /\ c.op = "open" THEN versions[c.name] ELSE @]}
    /\ did' = "nothing"
    /\ UNCHANGED <<game, scenario, table, form, page, version, typed, made, left, tale>>

(* Mutant: the page believes every answer.                                  *)
setLoaded(state) == page' = "LOADED" /\ form' = NoForm

setPageState(state) == page' = state /\ form' = NoForm

(* The callbacks. All but that of a dialog that opens or creates run on an  *)
(* error too. A new scenario gets the name that is in the dialog by then.   *)
Callback(c, ok) ==
    /\ calls' = calls \ {c}
    /\ CASE c.op \in {"create", "set", "import"} ->
              /\ setPageState(IF ok THEN "LOADED" ELSE "NEW")
              /\ UNCHANGED <<scenario, table, version>>
         [] c.op = "delete" ->
              /\ changeScenario(createNewScenario("None", Game.fields)) /\ version' = "none"
              /\ setPageState("IDLE")
         [] c.op = "new" ->
              IF ok \/ typed = NoName THEN UNCHANGED <<scenario, table, version, page, form>>
              ELSE /\ changeScenario(createNewScenario(typed, Game.fields)) /\ version' = "none"
                   /\ setPageState("NEW")
         [] c.op = "open" ->
              IF ok THEN /\ changeScenario(c.gives) /\ version' = c.version
                         /\ setPageState("LOADED")
              ELSE UNCHANGED <<scenario, table, version, page, form>>
    /\ did' = "nothing"
    /\ UNCHANGED <<game, server, typed, made, left>>

(* The page shows another scenario.                                         *)
Replaced(c) == \/ c.op = "open" /\ c.answer = "ok"
               \/ c.op = "new" /\ c.answer = "error" /\ typed # NoName

Answered ==
    \E c \in {x \in calls : x.answer # "none"} :
        /\ Callback(c, c.answer = "ok")
        /\ tale' = (tale \ IF Replaced(c) THEN {"edited", "retyped"} ELSE {})
                   \union (IF c.op = "new" /\ Replaced(c) /\ typed # c.name THEN {"retyped"} ELSE {})
                   \union IF c.op \in {"create", "set"} /\ c.answer = "error"
                          THEN {"refused"} ELSE {}

Lost ==
    /\ Game.lossy
    /\ \E c \in calls : Callback(c, FALSE)
    /\ Note({"lost"})

EditForm == onNewElement \/ onEditElement \/ onCancelElement \/ onElementTypeChange
            \/ onUpdateElement \/ onCloneElement
ApplyForm == onSaveElement \/ onApplyCloneElement \/ onDeleteElement
Dialogs == changeScenarioName \/ NewScenarioDialog \/ OpenScenarioDialog \/ saveScenario \/ deleteScenario
           \/ onScenarioInputChange

CpNext == EditForm \/ ApplyForm \/ Dialogs \/ Serve \/ Answered \/ Lost

CpSpec == CpInit /\ [][CpNext]_cpVars
-----------------------------------------------------------------------------
(* What the elements of a scenario are called: no two alike, the scenario   *)
(* included; and none has the name of a hidden node, or an id that could be *)
(* one.                                                                     *)
Shown(s)    == {k \in Nodes(s) : s[k].type \notin Hidden}
HiddenIn(n) == {n \o "-COMMON", n \o "-COMMON-DEFAULT", n \o "-DEFAULT"}
Distinct(s) ==
    /\ \A j \in Shown(s), k \in Nodes(s) : s[j].name = s[k].name => j = k
    /\ {s[k].id : k \in Shown(s)} \intersect UNION {HiddenIn(n) : n \in NamesOf(s)} = {}
Opened      == {k \in Shown(scenario) : form # NoForm /\ scenario[k].id = form.id}
InOpened(k) == \E j \in Opened : j <= k /\ k <= BlockEnd(scenario, j)
Stale       == \A e \in table : e.name # Name(scenario)

(* A clone that keeps the name of its original, or is given the name that   *)
(* one of the copies below it will get.                                     *)
CloneTakesAName ==
    form.mode = "CLONE" /\ \E k \in Nodes(scenario) :
        InOpened(k) /\ form.name \in {scenario[k].name, CopyName(table, scenario[k].name)}

(* No step makes two names alike, but such a clone, a scenario that is      *)
(* given the name of an element, and an element that is given the name the  *)
(* scenario got when it was last saved, which the table does not show.      *)
NamesStayDistinct ==
    [][(Distinct(scenario) /\ ~Distinct(scenario')) =>
          \/ CloneTakesAName
          \/ Stale
          \/ Name(scenario') # Name(scenario) /\ Name(scenario') \in NamesOf(scenario)
          \/ \E c \in calls : c.gives # <<>> /\ ~Distinct(c.gives)]_scenario

(* What a step of the form may touch: the element it is open on. Another    *)
(* element keeps its id, name, type, data and place; it goes only with the  *)
(* one that contains it. Excepted is a name typed over before DELETE, and a *)
(* name the scenario has too.                                               *)
Place(s, k)   == s[Above(s, k)].id
Element(s, k) == <<s[k].id, s[k].name, s[k].type, s[k].data, s[k].depth>>
Others        == {k \in Shown(scenario) \ {1} : ~InOpened(k)}
Below         == {k \in Shown(scenario) : InOpened(k) /\ k \notin Opened}
Kept(s, ks)   == \A k \in ks : \E j \in 2..Len(s) :
                    /\ Element(s, j) = Element(scenario, k)
                    /\ s[Above(s, j)].type \notin Hidden => Place(s, j) = Place(scenario, k)

OnlyTheOpened ==
    [][(did' # "nothing" /\ Distinct(scenario)) =>
          /\ \/ Kept(scenario', Others)
             \/ did' = "delete" /\ \A k \in Opened : scenario[k].name # form.name
          /\ did' # "delete" => Kept(scenario', Below)]_did

(* What an apply is worth: the table then shows the element under its name, *)
(* of its type, at its parent, with the values that were on the form.       *)
(* A value is lost when it hangs on another that is missing: what goes with *)
(* a location or a path on a new element, a port, a count or a chart; a     *)
(* zero; a service map as it was typed; a port of a clone. The scenario     *)
(* can be cloned, to no effect.                                             *)
LostOf(v, fresh) ==
    (IF fresh /\ Val(v, "location") = "" THEN {"radius", "path", "eopMode", "velocity"} ELSE {})
    \union (IF fresh /\ Val(v, "path") = "" THEN {"eopMode", "velocity"} ELSE {})
    \union (IF Val(v, "port") = "" THEN {"externalPort", "protocol", "group"} ELSE {})
    \union (IF Val(v, "gpuCount") = "" THEN {"gpuType"} ELSE {})
    \union (IF Val(v, "userChartLocation") = "" THEN UserChartFields \union {"userChartEnabled"}
            ELSE {})
    \union {f \in DOMAIN v \intersect {"radius", "velocity"} : Texts[v[f]].num = {0}}
    \union {f \in DOMAIN v \intersect ExternalFields : Texts[v[f]].again # v[f]}
    \union (IF form.mode = "CLONE" THEN {"externalPort"} \union ExternalFields ELSE {})

AppliedIsShown ==
    [][did' \in {"save", "clone"} =>
          \/ Stale \/ ~Distinct(scenario)
          \/ did' = "clone" /\ form.type = "SCENARIO"
          \/ \E e \in table' :
                /\ e.name = form.name
                /\ e.type = form.type
                /\ e.parent = form.parent
                /\ \A f \in Visible \ LostOf(form.vals, form.mode # "EDIT") :
                      e.vals[f] = form.vals[f]]_did

(* The page says LOADED only of a scenario the server has, as it is here    *)
(* unless it was changed since, is of an old version, that the server       *)
(* upgrades, or had none; and NEW only of one the server does not have,     *)
(* unless an answer was lost, a save refused or, while the server was asked *)
(* for the name, another one typed. Calls that cross, and changes while one *)
(* is under way, void both.                                                 *)
PageIsTrue ==
    (calls = {} /\ "raced" \notin tale) =>
        /\ (page = "LOADED" /\ "edited" \notin tale) =>
              /\ Name(scenario) \in DOMAIN stored
              /\ version # "old" => stored[Name(scenario)] = scenario
              /\ version \notin {"old", "none"} => versions[Name(scenario)] = version
        /\ (page = "NEW" /\ tale \intersect {"lost", "refused", "retyped"} = {}) =>
              Name(scenario) \notin DOMAIN stored
=============================================================================
