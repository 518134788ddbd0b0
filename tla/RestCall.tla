------------------------------- MODULE RestCall -------------------------------
(****************************************************************************)
(* One resource of a server, loaded and saved through the generated REST    *)
(* clients: what the frontend does with a scenario, a replay file or the    *)
(* position of an asset.                                                    *)
(*                                                                          *)
(* A document is seen through one of its fields: the keys on the way to the *)
(* field and the class of the value at the end. The conversions treat the   *)
(* fields of an object independently, so that what happens to every such    *)
(* document is what happens to a whole one. A field that is left out leaves *)
(* the empty object, "eobj", it would have been in.                         *)
(*                                                                          *)
(* Both ends convert: ApiClient.js turns the answer into models key by key, *)
(* JSON.stringify writes their properties back, and encoding/json drops     *)
(* empty values (omitempty), ignores keys it does not know and refuses a    *)
(* value of another type. The platform controller upgrades a scenario of an *)
(* older version before it keeps it.                                        *)
(****************************************************************************)
EXTENDS WireAgreement, Sequences, FiniteSetsExt

CONSTANTS Clients,   \* name -> its base path, models and operations
          Servers,   \* the same name -> its base path, structs and routes
          Talks,     \* which operation loads the resource and which saves it
          Starts     \* talk -> the documents it may start with

ASSUME TalksAssumption ==
    \A t \in Talks : /\ t.load # NoOp => t.load \in DOMAIN Clients[t.from].operations
                     /\ t.save # NoOp => t.save \in DOMAIN Clients[t.into].operations

VARIABLES talk,      \* the resource
          kept,      \* its document on the server, or None
          held,      \* the document the frontend holds, or None
          edited,    \* the frontend changed it since the last load or save
          keptVersion, heldVersion, \* and their versions, if they are scenarios
          wire,      \* the call under way
          told       \* what the callback of the last call was told

rcVars == <<talk, kept, held, keptVersion, heldVersion, edited, wire, told>>

None == [path |-> <<>>, leaf |-> "none"]
Doc(path, leaf) == [path |-> path, leaf |-> leaf]
NoCall == [phase |-> "idle"]
-----------------------------------------------------------------------------
(* Classes of values. *)
Empties  == {"blank", "zero", "false", "elist", "edict", "null"}
Texty    == {"blank", "text"}
Integral == {"zero", "int"}
Numeric  == Integral \union {"frac"}

ValuesOf(f) ==
    IF f.deep > 0 THEN {"elist", IF f.kind = "model" THEN "eobj" ELSE "list"}
    ELSE CASE f.kind = "text"  -> Texty
           [] f.kind = "int"   -> Integral
           [] f.kind = "float" -> Numeric
           [] f.kind = "flag"  -> {"true", "false"}
           [] f.kind = "dict"  -> {"edict", "dict"}
           [] f.kind = "model" -> {"eobj"}

(* The way of a path through the tables: the model that each key is one of, *)
(* how many of the keys are in them, and the field of a key.                *)
Has(tables, of, key) == of \in DOMAIN tables /\ key \in DOMAIN tables[of]

Way(tables, of, path) ==
    LET at[k \in DOMAIN path] ==
          IF k = 1 THEN of
          ELSE IF Has(tables, at[k - 1], path[k - 1]) THEN tables[at[k - 1]][path[k - 1]].of ELSE NoModel
    IN  at

Known(tables, of, path) ==
    LET at == Way(tables, of, path)
    IN  Min({k \in DOMAIN path : ~Has(tables, at[k], path[k])} \union {Len(path) + 1}) - 1

FieldAt(tables, of, path, k) == tables[Way(tables, of, path)[k]][path[k]]

(* A document of a body: every key is in the tables, all but the last lead  *)
(* to a model, and the value is of the class of the last. A list that is    *)
(* not empty has one element.                                               *)
IsDoc(tables, body, d) ==
    IF body.of = NoModel THEN d = None
    ELSE /\ d = Doc(d.path, d.leaf) /\ d.path \in Seq({d.path[k] : k \in DOMAIN d.path})
         /\ IF d.path = <<>> THEN body.deep > 0 /\ d.leaf = "null"
            ELSE LET n == Len(d.path)
                 IN  /\ Known(tables, body.of, d.path) = n
                     /\ \A k \in 1..(n - 1) : FieldAt(tables, body.of, d.path, k).kind = "model"
                     /\ d.leaf \in ValuesOf(FieldAt(tables, body.of, d.path, n))

(* What a talk starts with is of the struct that the server encodes, or of  *)
(* the model that the client sends.                                         *)
ASSUME StartsAssumption ==
    \A t \in Talks : \A d \in Starts[t] :
        IF t.load # NoOp
        THEN IsDoc(Servers[t.from].structs, Servers[t.from].routes[t.load].gives, d)
        ELSE IsDoc(Properties(Clients[t.into].models), Clients[t.into].operations[t.save].takes, d)

WithoutLeaf(d) == Doc(SubSeq(d.path, 1, Len(d.path) - 1), "eobj")
Trimmed(d)     == IF d.leaf \in Empties /\ d.path # <<>> THEN WithoutLeaf(d) ELSE d

(* Two documents say the same, up to the names under which they say it. *)
Same(d, e) == Trimmed(d).leaf = Trimmed(e).leaf /\ Len(Trimmed(d).path) = Len(Trimmed(e).path)
-----------------------------------------------------------------------------
(* encoding/json: null for a nil slice, no key for an empty value unless    *)
(* the field lacks omitempty.                                               *)
Encode(structs, of, d) ==
    IF d.path = <<>> \/ FieldAt(structs, of, d.path, Len(d.path)).always THEN d ELSE Trimmed(d)

Readable(f, v) == v = "null" \/ v \in ValuesOf(f)

Decode(structs, of, d) ==
    LET e == Known(structs, of, d.path)
        f == FieldAt(structs, of, d.path, e)
    IN  IF d.path = <<>> THEN d
        ELSE IF e = 0 \/ (e < Len(d.path) /\ f.kind = "model") THEN Doc(SubSeq(d.path, 1, e), "eobj")
        ELSE IF e = Len(d.path) /\ Readable(f, d.leaf) THEN d
        ELSE Doc(<<>>, "error")

(* ApiClient.convertToType on a value that is no model. A list is mapped    *)
(* over, which only a list can be; parseFloat of what is no number is NaN.  *)
convertToType(f, v) ==
    CASE v = "null"                                  -> "null"
      [] v # "null" /\ f.deep > 0                    -> IF v \in ValuesOf(f) THEN v ELSE "error"
      [] v # "null" /\ f.deep = 0 /\ f.kind = "text" -> IF v \in Texty THEN v ELSE "text"
      [] v # "null" /\ f.deep = 0 /\ f.kind = "flag" ->
             IF v \in {"blank", "zero", "false"} THEN "false" ELSE "true"
      [] v # "null" /\ f.deep = 0 /\ f.kind = "float" -> IF v \in Numeric THEN v ELSE "nan"
      [] OTHER -> v

(* constructFromObject of a model: the keys of its table and no other.      *)
constructFromObject(models, of, d) ==
    LET e     == Known(models, of, d.path)
        f     == FieldAt(models, of, d.path, e)
        props == [k \in 1..e |-> FieldAt(models, of, d.path, k).prop]
        v     == convertToType(f, IF e = Len(d.path) THEN d.leaf ELSE "dict")
    IN  IF d.path = <<>> THEN d
        ELSE IF e = 0 \/ (e < Len(d.path) /\ f.kind = "model") THEN Doc(props, "eobj")
        ELSE IF v = "error" THEN Doc(<<>>, v) ELSE Doc(props, v)

(* deserialize falls back to the text of the answer when there is no body:  *)
(* "{}" makes an empty model, "null" is no list.                            *)
deserialize(models, gives, d) ==
    CASE gives.of = NoModel -> None
      [] gives.of # NoModel /\ d.path = <<>> /\ d.leaf = "null" ->
             Doc(<<>>, IF gives.deep > 0 THEN "error" ELSE "eobj")
      [] gives.of # NoModel /\ ~(d.path = <<>> /\ d.leaf = "null") ->
             constructFromObject(models, gives.of, d)

(* JSON.stringify: NaN is written as null. *)
Written(d) == IF d.leaf = "nan" THEN [d EXCEPT !.leaf = "null"] ELSE d
-----------------------------------------------------------------------------
(* ValidateScenario (meep-model, validator.go): what the platform controller *)
(* keeps is of the current version. A version that is later, of another     *)
(* major or no version is refused.                                          *)
Older    == {"1.3", "1.4"}
Upgraded == {"1.5", "other"}  \* what is left after its start
ScenarioVersions == {"none"} \union Older \union Upgraded

OldLatencies   == {"interDomainLatency", "interZoneLatency", "terminalLinkLatency", "linkLatency",
                "appLatency"}
OldVariations  == {"interDomainLatencyVariation", "interZoneLatencyVariation",
                "terminalLinkLatencyVariation", "linkLatencyVariation", "appLatencyVariation"}
OldLosses      == {"interDomainPacketLoss", "interZonePacketLoss", "terminalLinkPacketLoss",
                "linkPacketLoss", "appPacketLoss"}
OldThroughputs == {"interDomainThroughput", "interZoneThroughput", "terminalLinkThroughput",
                "linkThroughput", "appThroughput"}
OfZones     == {"interEdgeLatency", "interEdgeLatencyVariation", "interEdgePacketLoss",
                "interEdgeThroughput", "interFogLatency", "interFogLatencyVariation",
                "interFogPacketLoss", "interFogThroughput", "edgeFogLatency",
                "edgeFogLatencyVariation", "edgeFogPacketLoss", "edgeFogThroughput"}

(* Where an upgrade puts the value of a field: into the netChar of its      *)
(* object, if that has none yet; the one throughput of a zone into both, if *)
(* that down is zero.                                                       *)
OfNetChar(path, keys) ==
    LET n == Len(path)
    IN  n > 2 /\ path[n - 2] = "zones" /\ path[n - 1] = "netChar" /\ path[n] \in keys

MovesTo(path) ==
    LET k == path[Len(path)]
    IN  CASE k \in OldLatencies \/ k = "edgeFogLatency"            -> {<<"netChar", "latency">>}
          [] k \in OldVariations \/ k = "edgeFogLatencyVariation"  -> {<<"netChar", "latencyVariation">>}
          [] k \in OldLosses \/ k = "edgeFogPacketLoss"            -> {<<"netChar", "packetLoss">>}
          [] k \in OldThroughputs \/ k = "edgeFogThroughput"       -> {<<"netChar", "throughputDl">>,
                                                                   <<"netChar", "throughputUl">>}
          [] k = "throughput"   -> {<<"throughputDl">>, <<"throughputUl">>}
          [] k = "throughputUl" -> {<<"throughputUl">>}
          [] OTHER              -> {}

(* The fields that a validation changes; those of zones are older.          *)
Renewed(v, path) ==
    \/ v \in {"none"} \union Older /\ path = <<"version">>
    \/ /\ v \in Older /\ path # <<>>
       /\ LET k == path[Len(path)] IN
             \/ k \in OldLatencies \union OldVariations \union OldLosses \union OldThroughputs
             \/ v = "1.3" /\ k \in OfZones
             \/ OfNetChar(path, {"throughput", "throughputUl"})

(* What becomes of a field: it is gone, or where it was moved to.           *)
ValidateScenario(v, d) ==
    IF ~Renewed(v, d.path) THEN {d}
    ELSE IF d.path = <<"version">> THEN {Doc(d.path, "text")}
    ELSE {WithoutLeaf(d)} \union {Doc(WithoutLeaf(d).path \o to, d.leaf) : to \in MovesTo(d.path)}
-----------------------------------------------------------------------------
Loader == Clients[talk.from].operations[talk.load]
Saver  == Clients[talk.into].operations[talk.save]

(* The type of the documents that have a version, and the versions one may  *)
(* have.                                                                    *)
Scenario == "Scenario"
VersionsOf(of, d) ==
    IF of # Scenario THEN {"none"}
    ELSE {v \in ScenarioVersions : d.path = <<"version">> => (v = "none" <=> d.leaf = "blank")}

(* A resource that is loaded starts on the server, one that is only sent    *)
(* starts in the frontend.                                                  *)
RcInit ==
    /\ talk \in Talks
    /\ \E d \in Starts[talk] :
          IF talk.load # NoOp
          THEN /\ kept = d /\ held = None /\ heldVersion = "none"
               /\ keptVersion \in VersionsOf(Loader.gives.of, d)
               /\ Loader.gives.of = Scenario => keptVersion \in Upgraded
          ELSE /\ kept = None /\ held = d /\ keptVersion = "none"
               /\ heldVersion \in VersionsOf(Saver.takes.of, d)
    /\ edited = FALSE
    /\ wire = NoCall
    /\ told = "nothing"

(* buildUrl: the path is resolved against the base path of the client.      *)
Url(client, op) == <<Clients[client].base, op.path>>

(* callApi: the method throws without a parameter it needs, before anything *)
(* is sent; a body that is there is sent as JSON.                           *)
Request(client, name, given, body, version) ==
    LET op == Clients[client].operations[name]
    IN  IF op.needs \ given # {}
        THEN told' = "thrown" /\ UNCHANGED wire
        ELSE /\ wire' = [phase |-> "request", client |-> client, name |-> name,
                         verb |-> op.verb, url |-> Url(client, op),
                         body |-> Written(body), version |-> version]
             /\ UNCHANGED told

Load ==
    /\ wire = NoCall
    /\ talk.load # NoOp
    /\ \E given \in {Loader.needs, {}} : Request(talk.from, talk.load, given, None, "none")
    /\ UNCHANGED <<talk, kept, held, keptVersion, heldVersion, edited>>

Save ==
    /\ wire = NoCall
    /\ talk.save # NoOp
    /\ talk.load # NoOp => held # None
    /\ \E given \in {Saver.needs, {}} : Request(talk.into, talk.save, given, held, heldVersion)
    /\ UNCHANGED <<talk, kept, held, keptVersion, heldVersion, edited>>

(* The frontend puts another value in the field, of the type it has there;  *)
(* it has no input for the version.                                         *)
Edit ==
    /\ wire = NoCall
    /\ talk.save # NoOp
    /\ held.path \notin {<<>>, <<"version">>}
    /\ LET f == FieldAt(Properties(Clients[talk.into].models), Saver.takes.of, held.path, Len(held.path))
       IN  held' \in {[held EXCEPT !.leaf = v] : v \in ValuesOf(f) \ {held.leaf}}
    /\ edited' = TRUE
    /\ told' = "nothing"
    /\ UNCHANGED <<talk, kept, keptVersion, heldVersion, wire>>

Matching == {h \in DOMAIN Servers[wire.client].routes :
               LET route == Servers[wire.client].routes[h]
               IN  route.verb = wire.verb /\ <<Servers[wire.client].base, route.path>> = wire.url}

(* What an answer says: "ok", or why there is an error.                     *)
Answer(says, by, body, version) ==
    wire' = [phase |-> "answer", client |-> wire.client, name |-> wire.name,
             says |-> says, by |-> by, body |-> body, version |-> version]

Keeps(docs, version) == kept' \in docs /\ keptVersion' = version

(* A body that cannot be decoded, or a scenario of a version that is not    *)
(* supported, is answered with an error and changes nothing.                *)
Store(h) ==
    LET route == Servers[wire.client].routes[h]
        d     == Decode(Servers[wire.client].structs, route.takes.of, wire.body)
    IN  IF d.leaf = "error" THEN Answer("misread", h, None, "none") /\ UNCHANGED <<kept, keptVersion>>
        ELSE IF route.takes.of # Scenario THEN Answer("ok", h, None, "none") /\ Keeps({d}, "none")
        ELSE IF wire.version = "other"
             THEN Answer("unsupported", h, None, "none") /\ UNCHANGED <<kept, keptVersion>>
        ELSE Answer("ok", h, None, "none") /\ Keeps(ValidateScenario(wire.version, d), "1.5")

Fetch(h) ==
    LET route == Servers[wire.client].routes[h]
    IN  /\ IF route.gives.of = NoModel \/ talk.load = NoOp THEN Answer("ok", h, None, "none")
           ELSE Answer("ok", h, Encode(Servers[wire.client].structs, route.gives.of, kept), keptVersion)
        /\ UNCHANGED <<kept, keptVersion>>

(* The handler of the route that matches, if there is one. Before it does   *)
(* anything it may decline, whatever the document: what the call names is   *)
(* not there, or there already, no scenario is active or one is, a store    *)
(* fails.                                                                   *)
ServeCall ==
    /\ wire.phase = "request"
    /\ IF Matching = {}
       THEN Answer("declined", NoOp, None, "none") /\ UNCHANGED <<kept, keptVersion>>
       ELSE \E h \in Matching :
              \/ Answer("declined", h, None, "none") /\ UNCHANGED <<kept, keptVersion>>
              \/ IF wire.body # None /\ Servers[wire.client].routes[h].takes.of # NoModel
                 THEN Store(h) ELSE Fetch(h)
    /\ UNCHANGED <<talk, held, heldVersion, edited, told>>

(* The callback of callApi: an error of the request or of the conversion, or *)
(* the data. What was loaded replaces what the frontend held.               *)
Receive ==
    /\ wire.phase = "answer"
    /\ wire' = NoCall
    /\ LET loading == talk.load # NoOp /\ wire.name = talk.load
           d == IF loading THEN deserialize(Clients[wire.client].models, Loader.gives, wire.body)
                ELSE None
       IN  /\ told' = CASE wire.says # "ok"                       -> wire.says
                        [] wire.says = "ok" /\ d.leaf = "error"   -> "unread"
                        [] wire.says = "ok" /\ d.leaf # "error"   -> IF loading THEN "loaded" ELSE "saved"
           /\ held' = IF told' = "loaded" THEN d ELSE held
           /\ heldVersion' = IF told' = "loaded" THEN wire.version ELSE heldVersion
           /\ edited' = IF told' \in {"loaded", "saved"} THEN FALSE ELSE edited
    /\ UNCHANGED <<talk, kept, keptVersion>>

(* The request runs into its timeout, before or after the server served it; *)
(* or its handler panics, as the upgrade from 1.4 does on a zone without    *)
(* netChar.                                                                 *)
TimeOut ==
    /\ wire # NoCall
    /\ wire' = NoCall
    /\ told' = "lost"
    /\ UNCHANGED <<talk, kept, held, keptVersion, heldVersion, edited>>

RcNext == Load \/ Save \/ Edit \/ ServeCall \/ Receive \/ TimeOut

RcSpec == RcInit /\ [][RcNext]_rcVars
-----------------------------------------------------------------------------
(* An answer comes from the handler the operation is named after: client    *)
(* and server, generated apart, agree on method and path.                   *)
AnsweredByName == wire.phase = "answer" => wire.by = wire.name

(* What the frontend was shown on a load, or was told is saved, is what the *)
(* server has: no field is dropped, misread or renamed on the way, whatever *)
(* was lost, declined or retried before; but for the version and the old    *)
(* characteristics of a scenario of an older version, which is upgraded.    *)
NothingLost ==
    (told \in {"loaded", "saved"} /\ ~edited /\ wire = NoCall /\ held # None) =>
        \/ Same(held, kept)
        \/ told = "saved" /\ Renewed(heldVersion, held.path)

(* A document is refused only for a fraction the frontend put where the     *)
(* server has an integer, or for a version that the server had it in, if it *)
(* comes from there; an answer cannot be read only if it is a list that is  *)
(* null.                                                                    *)
FailureIsExplained ==
    /\ told = "misread" => held.leaf = "frac"
    /\ told = "unsupported" => heldVersion = "other" /\ (talk.load # NoOp => keptVersion = "other")
    /\ told = "unread" => kept = Doc(<<>>, "null")
=============================================================================
