------------------------------ MODULE MCCfgPage ------------------------------
(****************************************************************************)
(* Sessions of the configuration page: each follows the fields that hang on *)
(* each other, or the names, or the calls.                                  *)
(****************************************************************************)
EXTENDS CfgPage

Text(len, is, num, list) == [len |-> len, is |-> is, num |-> num, list |-> list]
Plain(len) == Text(len, {"clean", "name", "variable"}, {}, <<>>)
Num(len, tenths) == Text(len, {"clean", "name", "digits", "hex"}, {tenths}, <<>>)

Words == {"o1", "z1", "z2", "p1", "e1", "u1", "a1", "s1", "s2", "p1-copy1", "e1-copy1"}

MCBare ==
    [w \in Words |-> Plain(2)]
    @@ ("" :> Text(0, {"clean"}, {0}, << <<"">> >>))
    @@ ("true" :> Plain(4))
    @@ ("A!" :> Text(2, {}, {}, << <<"A!">> >>))
    @@ ("[1,1]" :> Text(5, {"point"}, {}, <<>>))
    @@ ("[[1,1],[2,2]]" :> Text(13, {"points"}, {}, <<>>))
    @@ ("LOOP" :> Plain(4))
    @@ ("0" :> Num(1, 0)) @@ ("1" :> Num(1, 10)) @@ ("5" :> Num(1, 50))
    @@ ("80" :> Num(2, 800)) @@ ("1000" :> Num(4, 10000)) @@ ("30001" :> Num(5, 300010))
    @@ ("30002" :> Num(5, 300020))
    @@ ("2.5" :> Text(3, {"clean", "dot"}, {25}, <<>>))
    @@ ("TCP" :> Plain(3)) @@ ("NVIDIA" :> Plain(6))
    @@ ("30001:s1:80:TCP" :> Text(15, {}, {}, << <<"30001", "s1", "80", "TCP">> >>))
    @@ ("30001:s1::TCP" :> Text(13, {}, {}, << <<"30001", "s1", "", "TCP">> >>))
    @@ ("30001:s1:NaN:TCP" :> Text(16, {}, {}, << <<"30001", "s1", "NaN", "TCP">> >>))
    @@ ("NaN" :> Plain(3))

MCTexts ==
    [t \in DOMAIN MCBare |->
        [len |-> MCBare[t].len, is |-> MCBare[t].is, num |-> MCBare[t].num,
         list |-> MCBare[t].list,
         again |-> IF t = "30001:s1::TCP" THEN "30001:s1:NaN:TCP" ELSE t]]

Domain  == << <<"i1", "o1", "OPERATOR", "s1">> >>
Network == Append(Domain, <<"i2", "z1", "ZONE", "o1">>)
Edge    == Append(Network, <<"i3", "e1", "EDGE", "z1">>)
Radio   == Append(Network, <<"i4", "p1", "POA", "z1">>)
Mobile  == Append(Radio, <<"i5", "u1", "UE", "p1">>)
Cloud   == << <<"i3", "e1", "DISTANT CLOUD", "s1">> >>
InCloud == Append(Cloud, <<"i6", "a1", "CLOUD APPLICATION", "e1">>)

(* A session with the elements of the scenarios that are stored at first.   *)
Session(fields, samples, types, names, elements, steps) ==
    [fields |-> fields, samples |-> samples, types |-> types, names |-> names,
     scenarios |-> {"z1"}, stored |-> ("s1" :> elements), open |-> "s1",
     files |-> {}, versions |-> {"current"}, steps |-> steps, calls |-> 0, lossy |-> FALSE]

None == [f \in {} |-> {}]

OnFields(types, elements, samples) ==
    Session(DOMAIN samples, samples, types, {}, elements, 2)

NameGames ==
    [zones   |-> Session({}, None, {"OPERATOR", "ZONE"}, {"z1", "e1-copy1"}, Edge, 2),
     edges   |-> Session({}, None, {"EDGE", "ZONE"}, {"z2"}, Edge, 2),
     radio   |-> Session({}, None, {"POA", "UE"}, {"u1", "p1-copy1"}, Mobile, 2),
     cloud   |-> Session({}, None, {"DISTANT CLOUD", "SCENARIO"}, {}, Network, 2)]

FieldGames ==
    [path    |-> OnFields({"UE"}, Radio,
                    [location |-> {"", "[1,1]"}, path |-> {"", "[[1,1],[2,2]]"},
                     velocity |-> {"0", "5"}]),
     radius  |-> OnFields({"POA"}, Network, [location |-> {"", "[1,1]", "A!"}, radius |-> {"0", "5"}]),
     port    |-> OnFields({"CLOUD APPLICATION"}, InCloud,
                    [port |-> {"", "80"}, externalPort |-> {"30001", "80"}, protocol |-> {"TCP"}]),
     gpu     |-> OnFields({"CLOUD APPLICATION"}, InCloud,
                    [gpuCount |-> {"", "1", "5"}, gpuType |-> {"NVIDIA"}]),
     chart   |-> OnFields({"CLOUD APPLICATION"}, InCloud,
                    [userChartEnabled |-> {"", "true"}, userChartLocation |-> {"", "a1"},
                     userChartAlternateValues |-> {"a1"}]),
     service |-> OnFields({"CLOUD APPLICATION"}, InCloud,
                    [isExternal |-> {"", "true"}, externalPort |-> {"30001"}, port |-> {"80"},
                     ingressServiceMap |-> {"30001:s1::TCP", "30001:s1:80:TCP"}]),
     hidden  |-> OnFields({"UE", "UE APPLICATION"}, Mobile,
                    [isExternal |-> {"true"}, location |-> {"[1,1]"}]),
     rates   |-> OnFields({"OPERATOR", "SCENARIO"}, Network,
                    [interZoneThroughputDl |-> {"2.5", "A!"}, interDomainLatency |-> {"5"}]),
     cells   |-> OnFields({"OPERATOR CELLULAR", "POA CELLULAR"}, Network,
                    [mcc |-> {"1000"}, cellId |-> {"80"}])]

CallGames ==
    [saves   |-> [Session({}, None, {"OPERATOR"}, {}, Domain, 3) EXCEPT
                    !.scenarios = {"o1"}, !.calls = 2, !.lossy = TRUE],
     cross   |-> [Session({}, None, {}, {}, <<>>, 4) EXCEPT
                    !.scenarios = {"s2"}, !.calls = 2, !.lossy = TRUE,
                    !.stored = [n \in {"s1", "s2"} |-> <<>>],
                    !.files = {"s3"}, !.versions = {"old", "current"}],
     foreign |-> [Session({}, None, {}, {}, <<>>, 3) EXCEPT
                    !.scenarios = {"s2"}, !.calls = 1,
                    !.files = {"s2"}, !.versions = {"none", "other"}]]

Sessions == NameGames @@ FieldGames @@ CallGames

MCGames == [g \in DOMAIN Sessions |-> [k \in GameKeys |-> Sessions[g][k]]]

(* A scenario, from the elements that are added to it one after the other.  *)
Built(name, fields, elements) ==
    FoldLeft(LAMBDA s, e : addElementToScenario(s, e[1], e[2], e[3], e[4], createElem(fields)),
             createNewScenario(name, fields), elements)

MCAtFirst ==
    [g \in DOMAIN Sessions |->
       [n \in DOMAIN Sessions[g].stored |-> Built(n, Sessions[g].fields, Sessions[g].stored[n])]]

(* The page calls the platform controller through one of the generated      *)
(* clients. Theirs and the servers' tables agree as PlatformProofs assumes  *)
(* of the calls.                                                            *)
Wire == INSTANCE WireTables

ASSUME WiresAgree == Wire!TablesAgree(Wire!MCClients, Wire!MCServers, Wire!MCTalks, Wire!MCSent)
=============================================================================
