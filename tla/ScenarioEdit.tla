---------------------------- MODULE ScenarioEdit ----------------------------
(****************************************************************************)
(* The scenario the configuration page edits, and what its element          *)
(* operations do to it (frontend, util/scenario-utils.js).                  *)
(*                                                                          *)
(* A scenario is the sequence of its nodes in the order every function of   *)
(* the source walks them: a node, then what it contains. The depth of a     *)
(* node says whose list it stands in: 0 the scenario, 1 the domains, 2 the  *)
(* zones, 3 the network locations, 4 the physical locations, 5 the          *)
(* processes. Names and ids are the strings the program builds, because     *)
(* the names of the hidden nodes are built from those of others.            *)
(****************************************************************************)
EXTENDS ElemFields, SequencesExt

Depth(type) ==
    CASE type = "SCENARIO"                                     -> 0
      [] type \in {"OPERATOR", "OPERATOR CELLULAR", "PUBLIC"}  -> 1
      [] type \in {"ZONE", "COMMON"}                           -> 2
      [] type \in {"POA", "POA CELLULAR", "DEFAULT"}           -> 3
      [] type \in {"UE", "FOG", "EDGE", "DISTANT CLOUD"}       -> 4
      [] type \in Apps                                         -> 5

Hidden == {"PUBLIC", "COMMON", "DEFAULT"}

Node(id, name, type, data) ==
    [id |-> id, name |-> name, type |-> type, depth |-> Depth(type), data |-> data]

HiddenNode(name, type) == Node(name, name, type, <<>>)

Nodes(s)    == DOMAIN s
Name(s)     == s[1].name
NamesOf(s)  == {s[k].name : k \in Nodes(s)}

(* The last node of the block a node starts: itself and what it contains;   *)
(* and the node that contains another.                                      *)
BlockEnd(s, k) ==
    Min({j \in (k + 1)..Len(s) : s[j].depth <= s[k].depth} \union {Len(s) + 1}) - 1

Above(s, k) == CHOOSE p \in 1..(k - 1) : /\ s[p].depth < s[k].depth
                                         /\ \A j \in (p + 1)..(k - 1) : s[j].depth >= s[k].depth
-----------------------------------------------------------------------------
(* What is written of a form when its element is created or updated. A      *)
(* physical location gets a path only with a location, and then the way it  *)
(* is followed; a network location gets a radius only with a location.      *)
WithLocation(v, fields) == IF Val(v, "location") # "" THEN {"location"} \union fields ELSE {}

createPL(v) ==
    Keep(v, NCGroup("link") \union {"isExternal"}
            \union WithLocation(v, IF Val(v, "path") # "" THEN {"path", "eopMode", "velocity"}
                                   ELSE {}))

createPoa(v)     == Keep(v, NCGroup("terminalLink") \union WithLocation(v, {"radius"}))
createPoaCell(v) == Keep(v, NCGroup("terminalLink") \union {"cellId"}
                            \union WithLocation(v, {"radius"}))
createDomain(v)     == Keep(v, NCGroup("interZone"))
createDomainCell(v) == Keep(v, NCGroup("interZone") \union CellFields)
createZone(v)       == Keep(v, NCGroup("intraZone"))

(* Service maps are split into entries and printed again: a blank entry is  *)
(* dropped, a port that was left out is not a number.                       *)
getIngressServiceMapArray(v) ==
    IF "ingressServiceMap" \in DOMAIN v THEN [v EXCEPT !["ingressServiceMap"] = Texts[@].again]
    ELSE v
getEgressServiceMapArray(v) ==
    IF "egressServiceMap" \in DOMAIN v THEN [v EXCEPT !["egressServiceMap"] = Texts[@].again]
    ELSE v

(* A process is external, a chart or an image, in this order. A port makes  *)
(* a service, a count a GPU.                                                *)
createProcess(v) ==
    LET mode ==
          IF Val(v, "isExternal") = "true" THEN ExternalFields \union {"placementId"}
          ELSE IF Val(v, "userChartEnabled") = "true" THEN UserChartFields
          ELSE (ImageFields \ GpuGroup)
               \union (IF Val(v, "port") # "" THEN PortProtocolGroup \union {"group"} ELSE {})
               \union (IF Val(v, "gpuCount") # "" THEN GpuGroup ELSE {})
    IN  getIngressServiceMapArray(getEgressServiceMapArray(
            Keep(v, NCGroup("app") \union {"isExternal"} \union mode)))

Created(type, v) ==
    CASE type = "OPERATOR"          -> createDomain(v)
      [] type = "OPERATOR CELLULAR" -> createDomainCell(v)
      [] type = "ZONE"              -> createZone(v)
      [] type = "POA"               -> createPoa(v)
      [] type = "POA CELLULAR"      -> createPoaCell(v)
      [] Depth(type) = 4            -> createPL(v)
      [] Depth(type) = 5            -> createProcess(v)

createDefaultNL(zone)     == <<HiddenNode(zone \o "-DEFAULT", "DEFAULT")>>
createDefaultZone(domain) ==
    <<HiddenNode(domain \o "-COMMON", "COMMON")>> \o createDefaultNL(domain \o "-COMMON")
createDefaultDomain       == <<HiddenNode("PUBLIC", "PUBLIC")>> \o createDefaultZone("PUBLIC")

ScenarioNode(name, data) == Node(name, name, "SCENARIO", data)

(* "None" is the scenario that stands for no scenario.                      *)
createNewScenario(name, fields) ==
    <<ScenarioNode(name, createElem(fields))>>
    \o (IF name = "None" THEN <<>> ELSE createDefaultDomain)
-----------------------------------------------------------------------------
(* Add: the element goes to the end of the list of the first node that has  *)
(* the name of its parent, whatever that node is, and nowhere if there is   *)
(* none. What an element contains when it stands in a list it is not made   *)
(* for is under a key no function reads.                                    *)
ParentName(type, parent) ==
    CASE type = "DISTANT CLOUD"               -> "PUBLIC-COMMON-DEFAULT"
      [] type = "EDGE"                        -> parent \o "-DEFAULT"
      [] type \notin {"DISTANT CLOUD", "EDGE"} -> parent

Block(id, name, type, v) ==
    <<Node(id, name, type, Created(type, v))>>
    \o CASE Depth(type) = 1 -> createDefaultZone(name)
         [] Depth(type) = 2 -> createDefaultNL(name)
         [] OTHER           -> <<>>

addElementToScenario(s, id, name, type, parent, v) ==
    LET homes == {k \in Nodes(s) : s[k].depth < 5 /\ s[k].name = ParentName(type, parent)}
        block == Block(id, name, type, v)
    IN  IF homes = {} THEN s
        ELSE LET h == Min(homes)
                 e == BlockEnd(s, h)
                 d == s[h].depth + 1
             IN  SubSeq(s, 1, e)
                 \o (IF d = Depth(type) THEN block ELSE <<[block[1] EXCEPT !.depth = d]>>)
                 \o SubSeq(s, e + 1, Len(s))

(* Update: by name for the scenario, by id for the others. The list a node  *)
(* stands in says what is written; everything about a location is.          *)
Write(n, v, fields) == [f \in DOMAIN n.data \intersect fields |-> v[f]] @@ n.data

UpdatedDomain(n, v) ==
    Write(n, v, NCGroup("interZone") \union IF n.type = "OPERATOR CELLULAR" THEN CellFields ELSE {})
UpdatedNl(n, v) ==
    Write(n, v, NCGroup("terminalLink") \union {"location", "radius"}
                \union IF n.type = "POA CELLULAR" THEN {"cellId"} ELSE {})
UpdatedPl(n, v) == Write(n, v, NCGroup("link") \union (GeoFields \ {"radius"}))

Updated(n, v) ==
    CASE n.depth = 0 -> Write(n, v, NCGroup("interDomain"))
      [] n.depth = 1 -> UpdatedDomain(n, v)
      [] n.depth = 2 -> Write(n, v, NCGroup("intraZone"))
      [] n.depth = 3 -> UpdatedNl(n, v)
      [] n.depth = 4 -> UpdatedPl(n, v)
      [] n.depth = 5 -> createProcess(v)

Renamed(n, name) == [n EXCEPT !.id = name, !.name = name]

(* Mutant: the hidden nodes inside keep the old name.                       *)
DefaultKept(e, name, n) == n

(* The hidden nodes inside an element that is renamed get its name too.     *)
WithDefault(e, name, n) ==
    CASE e.depth = 1 /\ n.id = e.name \o "-COMMON" -> Renamed(n, name \o "-COMMON")
      [] e.depth = 1 /\ n.id = e.name \o "-COMMON-DEFAULT" -> Renamed(n, name \o "-COMMON-DEFAULT")
      [] e.depth = 2 /\ n.id = e.name \o "-DEFAULT" -> Renamed(n, name \o "-DEFAULT")
      [] OTHER -> n

updateElementInScenario(s, id, name, v) ==
    IF Name(s) = name
    THEN [s EXCEPT ![1].data = Updated(s[1], v)]
    ELSE LET found == {k \in 2..Len(s) : s[k].id = id}
         IN  IF found = {} THEN s
             ELSE LET k == Min(found)
                      e == BlockEnd(s, k)
                  IN  SubSeq(s, 1, k - 1)
                      \o <<[s[k] EXCEPT !.name = name, !.data = Updated(s[k], v)]>>
                      \o [j \in 1..(e - k) |-> WithDefault(s[k], name, s[k + j])]
                      \o SubSeq(s, e + 1, Len(s))

(* Mutant: the rest of the list goes with the element.                      *)
RemoveRest(s, name) ==
    LET k == Min({j \in 2..Len(s) : s[j].name = name} \union {Len(s)})
        rest == {j \in (k + 1)..Len(s) : s[j].depth < s[k].depth}
    IN  SubSeq(s, 1, k - 1) \o SubSeq(s, Min(rest \union {Len(s) + 1}), Len(s))

(* Remove: the first element of the name, with what it contains.            *)
removeElementFromScenario(s, name) ==
    LET found == {k \in 2..Len(s) : s[k].name = name}
    IN  IF found = {} THEN s
        ELSE LET k == Min(found)
             IN  SubSeq(s, 1, k - 1) \o SubSeq(s, BlockEnd(s, k) + 1, Len(s))
-----------------------------------------------------------------------------
(* What is read back of a node. A process with a chart shows the chart and  *)
(* nothing else; a number that is zero counts as none.                      *)
Zeroless(v) ==
    [f \in {g \in DOMAIN v \intersect {"radius", "velocity"} : Texts[v[g]].num = {0}} |-> ""] @@ v

ReadNl(d) == Zeroless(Keep(d, PoaFields("POA CELLULAR")))
ReadPl(d) == Zeroless(Keep(d, LinkFields("UE") \union {"isExternal"}))

ReadProcess(d) ==
    IF Val(d, "userChartLocation") # ""
    THEN [f \in DOMAIN d \intersect {"userChartEnabled"} |-> "true"]
         @@ Keep(d, NCGroup("app") \union UserChartFields)
    ELSE Keep(d, DOMAIN d \ UserChartFields)

Read(n) ==
    CASE n.depth = 0 -> Keep(n.data, NCGroup("interDomain"))
      [] n.depth = 1 -> Keep(n.data, NCGroup("interZone") \union CellFields)
      [] n.depth = 2 -> Keep(n.data, NCGroup("intraZone"))
      [] n.depth = 3 -> ReadNl(n.data)
      [] n.depth = 4 -> ReadPl(n.data)
      [] n.depth = 5 -> ReadProcess(n.data)

TypeShown(n) ==
    CASE n.depth = Depth(n.type)                   -> n.type
      [] n.depth # Depth(n.type) /\ n.depth = 2    -> "ZONE"
      [] n.depth # Depth(n.type) /\ n.depth # 2    -> ""

(* The parent shown is the nearest node above that is not hidden, the       *)
(* scenario for all that stands directly in a hidden node of PUBLIC.        *)
ParentShown(s, k) ==
    LET shown[p \in Nodes(s)] == IF s[p].type \in Hidden THEN shown[Above(s, p)] ELSE s[p].name
    IN  shown[Above(s, k)]

getElementFromScenario(s, k) ==
    [id     |-> s[k].id,
     name   |-> s[k].name,
     type   |-> TypeShown(s[k]),
     parent |-> IF k = 1 THEN "" ELSE ParentShown(s, k),
     vals   |-> Read(s[k])]

(* The table of the page.                                                   *)
parseScenario(s) ==
    {getElementFromScenario(s, k) : k \in {j \in Nodes(s) : s[j].type \notin Hidden}}

createUniqueName(table, prefix) ==
    LET taken == {e.name : e \in table}
        free  == {n \in 1..(Cardinality(table) + 1) : prefix \o ToString(n) \notin taken}
    IN  prefix \o ToString(Min(free))
-----------------------------------------------------------------------------
(* Clone: the element of the form and a copy of everything it contains, one *)
(* after the other, each added to the copy of its parent. The names of the  *)
(* copies are unique in the table as it was before.                         *)
CopyName(table, name) == createUniqueName(table, name \o "-copy")

Cleared(v) ==
    [f \in DOMAIN v \intersect ({"externalPort"} \union ExternalFields) |-> ""] @@ v

(* The name under which the copy of node k is added to, or looked for: that *)
(* of a hidden zone lacks its dash, that of a hidden location is the zone's. *)
CopyAs(s, table, top, name, node) ==
    LET copy[k \in Nodes(s)] ==
          CASE k = top                            -> name
            [] k # top /\ s[k].type = "COMMON"    -> copy[Above(s, k)] \o "COMMON"
            [] k # top /\ s[k].type = "DEFAULT"   -> copy[Above(s, k)]
            [] k # top /\ s[k].type \notin Hidden -> CopyName(table, s[k].name)
    IN  copy[node]

(* The copy of node k goes into t, the scenario with the copies before it.  *)
cloneElement(s, table, top, name, parent, v, ids, t, k) ==
    LET e   == getElementFromScenario(s, k)
        new == ids[k - top + 1]
    IN  IF k = top THEN addElementToScenario(t, new, name, e.type, parent, Cleared(v))
        ELSE IF s[k].type \in Hidden THEN t
        ELSE addElementToScenario(t, new, CopyAs(s, table, top, name, k), e.type,
                 CopyAs(s, table, top, name, Above(s, k)), Cleared(e.vals))

cloneElementInScenario(s, table, id, name, parent, v, ids) ==
    LET found == {k \in 2..Len(s) : s[k].id = id}
        top   == Min(found)
        copied[k \in Nodes(s)] ==
            IF k < top THEN s ELSE cloneElement(s, table, top, name, parent, v, ids, copied[k - 1], k)
    IN  IF found = {} THEN s ELSE copied[BlockEnd(s, top)]
=============================================================================
