----------------------------- MODULE ElemFields -----------------------------
(****************************************************************************)
(* The fields of a network element on the configuration page: which of them *)
(* the form shows, what it accepts in them, what is written to the scenario *)
(* and what is read back from it.                                           *)
(*                                                                          *)
(* A text is known by what the validators look at: its length, the patterns *)
(* it matches, the number it denotes, the entries it splits into. A field   *)
(* that holds nothing, or null, holds the empty text; a box that is ticked  *)
(* holds "true".                                                            *)
(****************************************************************************)
EXTENDS Integers, Sequences, FiniteSets, TLC

CONSTANT Texts   \* text -> [len, is, num, list, again]

(* len and is: its length and the patterns it matches; num: the number it   *)
(* denotes in tenths, {} when it is none; list: the entries it splits into, *)
(* each a sequence of texts; again: the text its entries are printed as.    *)
ASSUME TextsAssumption ==
    /\ {"", "true"} \subseteq DOMAIN Texts
    /\ \A t \in DOMAIN Texts : Texts[t].again \in DOMAIN Texts

Matches(t, pattern) == pattern \in Texts[t].is
-----------------------------------------------------------------------------
(* What a field accepts: true when the validator returns no message.        *)
validateName(t)         == t = "" \/ (Texts[t].len <= 30 /\ Matches(t, "name"))
validateFullName(t)     == t = "" \/ (Texts[t].len <= 60 /\ Matches(t, "name"))
validateVariableName(t) == t = "" \/ (Texts[t].len <= 30 /\ Matches(t, "variable"))
validateNotNull(t)      == t # ""
validateNumber(t)       == Texts[t].num # {}
validateInt(t)          == validateNumber(t) /\ ~Matches(t, "dot")
InRange(t, lo, hi)      == \A n \in Texts[t].num : 10 * lo <= n /\ n <= 10 * hi
validatePositiveInt(t)  == validateInt(t) /\ \A n \in Texts[t].num : n >= 0
validatePath(t)         == Matches(t, "clean")
validatePort(t)         == t = "" \/ (validateInt(t) /\ InRange(t, 1, 65535))
validateExternalPort(t) == t = "" \/ (validateInt(t) /\ InRange(t, 30000, 32767))
validateGpuCount(t)     == t = "" \/ (validateInt(t) /\ InRange(t, 1, 4))
validateCellularMccMnc(t) == t = "" \/ (Texts[t].len <= 3 /\ Matches(t, "digits"))
validateCellularCellId(t) == t = "" \/ (Texts[t].len <= 7 /\ Matches(t, "hex"))
validateLocation(t)     == t = "" \/ Matches(t, "point")
validateGeoPath(t)      == t = "" \/ Matches(t, "points")
validateProtocol(t)     == t \in {"", "TCP", "UDP"}

(* The entries of a list; an empty one is skipped.                          *)
Entries(t) == {Texts[t].list[k] : k \in DOMAIN Texts[t].list} \ {<<"">>}

validateIngressServiceMapping(t) ==
    \A args \in Entries(t) :
        /\ Len(args) = 4
        /\ validateExternalPort(args[1]) /\ validateFullName(args[2])
        /\ validatePort(args[3]) /\ validateProtocol(args[4])

validateEgressServiceMapping(t) ==
    \A args \in Entries(t) :
        /\ Len(args) = 5
        /\ validateFullName(args[1]) /\ validateFullName(args[2])
        /\ validatePort(args[4]) /\ validateProtocol(args[5])

validateEnvironmentVariables(t) ==
    \A parts \in Entries(t) :
        Len(parts) = 2 /\ validateVariableName(parts[1]) /\ validateNotNull(parts[2])

validateChartGroupEntry(t) ==
    \A args \in Entries(t) :
        /\ Len(args) = 4
        /\ validateFullName(args[1]) /\ validateName(args[2])
        /\ validatePort(args[3]) /\ validateProtocol(args[4])

(* The network characteristics. A throughput may have a fraction.           *)
Whole(t)             == \A n \in Texts[t].num : n % 10 = 0
validateLatency(t)   == t # "" /\ validateNumber(t) /\ InRange(t, 0, 250000) /\ Whole(t)
validateLatencyVariation(t) ==
    t # "" /\ validateNumber(t) /\ InRange(t, 0, 250000) /\ Whole(t)
validatePacketLoss(t) ==
    /\ t # ""
    /\ t # "0" => /\ validateNumber(t) /\ InRange(t, 0, 100)
                  /\ Texts[t].num # {0} /\ Texts[t].len <= 9
validateThroughput(t) == t # "" /\ validateNumber(t) /\ InRange(t, 1, 1000000)
-----------------------------------------------------------------------------
(* The fields of a group, as the form lays them out.                        *)
Latencies   == {"interDomainLatency", "interZoneLatency", "intraZoneLatency",
                "terminalLinkLatency", "linkLatency", "appLatency"}
Variations  == {"interDomainLatencyVariation", "interZoneLatencyVariation",
                "intraZoneLatencyVariation", "terminalLinkLatencyVariation",
                "linkLatencyVariation", "appLatencyVariation"}
Losses      == {"interDomainPacketLoss", "interZonePacketLoss", "intraZonePacketLoss",
                "terminalLinkPacketLoss", "linkPacketLoss", "appPacketLoss"}
Throughputs == {"interDomainThroughputDl", "interDomainThroughputUl",
                "interZoneThroughputDl", "interZoneThroughputUl",
                "intraZoneThroughputDl", "intraZoneThroughputUl",
                "terminalLinkThroughputDl", "terminalLinkThroughputUl",
                "linkThroughputDl", "linkThroughputUl",
                "appThroughput_Dl", "appThroughput_Ul"}

NCGroup(prefix) ==
    CASE prefix = "interDomain" ->
           {"interDomainLatency", "interDomainLatencyVariation", "interDomainLatencyDistribution",
            "interDomainThroughputDl", "interDomainThroughputUl", "interDomainPacketLoss"}
      [] prefix = "interZone" ->
           {"interZoneLatency", "interZoneLatencyVariation",
            "interZoneThroughputDl", "interZoneThroughputUl", "interZonePacketLoss"}
      [] prefix = "intraZone" ->
           {"intraZoneLatency", "intraZoneLatencyVariation",
            "intraZoneThroughputDl", "intraZoneThroughputUl", "intraZonePacketLoss"}
      [] prefix = "terminalLink" ->
           {"terminalLinkLatency", "terminalLinkLatencyVariation",
            "terminalLinkThroughputDl", "terminalLinkThroughputUl", "terminalLinkPacketLoss"}
      [] prefix = "link" ->
           {"linkLatency", "linkLatencyVariation",
            "linkThroughputDl", "linkThroughputUl", "linkPacketLoss"}
      [] prefix = "app" ->
           {"appLatency", "appLatencyVariation",
            "appThroughput_Dl", "appThroughput_Ul", "appPacketLoss"}

PortProtocolGroup == {"port", "externalPort", "protocol"}
GpuGroup          == {"gpuCount", "gpuType"}
CommandGroup      == {"cmd", "cmdArgs"}
ExternalFields    == {"ingressServiceMap", "egressServiceMap"}
UserChartFields   == {"userChartLocation", "userChartGroup", "userChartAlternateValues"}
CellFields        == {"mcc", "mnc", "defaultCellId"}
GeoFields         == {"location", "radius", "path", "eopMode", "velocity"}
ImageFields       == {"image", "envVar", "placementId"} \union GpuGroup \union CommandGroup
Apps              == {"UE APPLICATION", "EDGE APPLICATION", "CLOUD APPLICATION"}

(* An application shows one of three sets of fields: what it is outside,    *)
(* its chart, or its image. It has a service unless it runs on a terminal.  *)
UeAppFields(external, chart) ==
    NCGroup("app") \union {"isExternal"}
    \union IF external THEN ExternalFields \union {"placementId"}
           ELSE {"userChartEnabled"} \union IF chart THEN UserChartFields ELSE ImageFields

CloudAppFields(external, chart) ==
    UeAppFields(external, chart) \union IF external \/ chart THEN {} ELSE PortProtocolGroup

EdgeAppFields(external, chart) ==
    CloudAppFields(external, chart) \union IF external \/ chart THEN {} ELSE {"group"}

PoaFields(type) ==
    NCGroup("terminalLink") \union {"location", "radius"}
    \union IF type = "POA CELLULAR" THEN {"cellId"} ELSE {}

LinkFields(type) ==
    NCGroup("link") \union {"location"}
    \union IF type = "UE" THEN {"path", "eopMode", "velocity"} ELSE {}

TypeRelatedFormFields(type, external, chart) ==
    CASE type = "SCENARIO"                -> NCGroup("interDomain")
      [] type = "OPERATOR"                -> NCGroup("interZone")
      [] type = "OPERATOR CELLULAR"       -> NCGroup("interZone") \union CellFields
      [] type = "ZONE"                    -> NCGroup("intraZone")
      [] type \in {"POA", "POA CELLULAR"} -> PoaFields(type)
      [] type \in {"UE", "DISTANT CLOUD", "EDGE", "FOG"} -> LinkFields(type)
      [] type = "UE APPLICATION"          -> UeAppFields(external, chart)
      [] type = "CLOUD APPLICATION"       -> CloudAppFields(external, chart)
      [] type = "EDGE APPLICATION"        -> EdgeAppFields(external, chart)
      [] OTHER                            -> {}

Characteristics == Latencies \union Variations \union Losses \union Throughputs

AcceptsRate(f, t) ==
    CASE f \in Latencies   -> validateLatency(t)
      [] f \in Variations  -> validateLatencyVariation(t)
      [] f \in Losses      -> validatePacketLoss(t)
      [] f \in Throughputs -> validateThroughput(t)

(* What the form says of a text in a field. A choice from a list or a box   *)
(* is never in error. The radius of a cellular POA is any number.           *)
Accepts(type, f, t) ==
    CASE f = "name"                         -> validateName(t)
      [] f = "group"                        -> validateName(t)
      [] f \in Characteristics              -> AcceptsRate(f, t)
      [] f \in {"mcc", "mnc"}               -> validateCellularMccMnc(t)
      [] f \in {"defaultCellId", "cellId"}  -> validateCellularCellId(t)
      [] f = "location"                     -> validateLocation(t)
      [] f = "path"                         -> validateGeoPath(t)
      [] f = "radius"                       -> IF type = "POA" THEN validatePositiveInt(t)
                                               ELSE validateNumber(t)
      [] f = "velocity"                     -> validateNumber(t)
      [] f = "port"                         -> validatePort(t)
      [] f = "externalPort"                 -> validateExternalPort(t)
      [] f = "gpuCount"                     -> validateGpuCount(t)
      [] f \in {"image", "cmd", "userChartLocation", "userChartAlternateValues"}
                                            -> validatePath(t)
      [] f = "userChartGroup"               -> validateChartGroupEntry(t)
      [] f = "ingressServiceMap"            -> validateIngressServiceMapping(t)
      [] f = "egressServiceMap"             -> validateEgressServiceMapping(t)
      [] f = "envVar"                       -> validateEnvironmentVariables(t)
      [] OTHER                              -> TRUE
-----------------------------------------------------------------------------
(* A new element: every characteristic has a value, every text is empty.    *)
Default(f) ==
    IF f \in Losses THEN "0"
    ELSE IF f \in Latencies \union Variations \union Throughputs THEN "1000"
    ELSE IF f = "interDomainLatencyDistribution" THEN "Normal"
    ELSE ""

createElem(fields) == [f \in fields |-> Default(f)]

(* The value of a field in an element of which only some are followed.      *)
Val(v, f) == IF f \in DOMAIN v THEN v[f] ELSE Default(f)

(* What an element keeps of its form: the fields of a set, the others are   *)
(* not written.                                                             *)
Keep(v, fields) == [f \in DOMAIN v \intersect fields |-> v[f]] @@ createElem(DOMAIN v)
=============================================================================
