---------------------------- MODULE PlatformClient ----------------------------
(******************************************************************************)
(* The JavaScript client of the platform controller (js-packages/meep-        *)
(* platform-ctrl-client): for each model the JSON keys its                    *)
(* constructFromObject copies and the type each is converted to, then the     *)
(* request each operation of the API classes makes.                           *)
(******************************************************************************)
EXTENDS WireTypes, TLC

Base == "/platform-ctrl/v1"

CellularDomainConfig == Words({"mnc", "mcc", "defaultCellId"})
CellularPoaConfig == Words({"cellId"})
Deployment ==
    Numbers({"interDomainLatency", "interDomainLatencyVariation", "interDomainThroughput",
          "interDomainPacketLoss"}) @@ Dicts({"meta", "userMeta"})
    @@ One("netChar", "NetworkCharacteristics") @@ Many("domains", "Domain")
Domain ==
    Words({"id", "name", "type"})
    @@ Numbers({"interZoneLatency", "interZoneLatencyVariation", "interZoneThroughput",
          "interZonePacketLoss"}) @@ Dicts({"meta", "userMeta"})
    @@ One("netChar", "NetworkCharacteristics")
    @@ One("cellularDomainConfig", "CellularDomainConfig") @@ Many("zones", "Zone")
EgressService == Words({"name", "meSvcName", "ip", "protocol"}) @@ Numbers({"port"})
ExternalConfig ==
    Many("ingressServiceMap", "IngressService") @@ Many("egressServiceMap", "EgressService")
(* Mutant: the key of a later version of the API is left out. *)
GeoDataOfOlderApi == Numbers({"radius"}) @@ Words({"eopMode"}) @@ One("location", "Point")
    @@ One("path", "LineString")
GeoData ==
    Numbers({"radius", "velocity"}) @@ Words({"eopMode"}) @@ One("location", "Point")
    @@ One("path", "LineString")
GpuConfig == Words({"type"}) @@ Numbers({"count"})
IngressService == Words({"name", "protocol"}) @@ Numbers({"port", "externalPort"})
LineString == Words({"type"}) @@ NumberTables({"coordinates"})
NetworkCharacteristics ==
    Numbers({"latency", "latencyVariation", "throughput", "throughputDl", "throughputUl",
          "packetLoss"}) @@ Words({"latencyDistribution"})
NetworkLocation ==
    Words({"id", "name", "type"})
    @@ Numbers({"terminalLinkLatency", "terminalLinkLatencyVariation", "terminalLinkThroughput",
          "terminalLinkPacketLoss"}) @@ Dicts({"meta", "userMeta"})
    @@ One("netChar", "NetworkCharacteristics") @@ One("cellularPoaConfig", "CellularPoaConfig")
    @@ One("geoData", "GeoData") @@ Many("physicalLocations", "PhysicalLocation")
PhysicalLocation ==
    Words({"id", "name", "type"}) @@ Flags({"isExternal"})
    @@ TextLists({"networkLocationsInRange"}) @@ Dicts({"meta", "userMeta"})
    @@ Numbers({"linkLatency", "linkLatencyVariation", "linkThroughput", "linkPacketLoss"})
    @@ One("geoData", "GeoData") @@ Many("processes", "Process")
    @@ One("netChar", "NetworkCharacteristics")
Point == Words({"type"}) @@ NumberLists({"coordinates"})
Process ==
    Words({"id", "name", "type", "image", "environment", "commandArguments", "commandExe",
          "status", "userChartLocation", "userChartAlternateValues", "userChartGroup",
          "placementId"}) @@ Flags({"isExternal"}) @@ Dicts({"meta", "userMeta"})
    @@ Numbers({"appLatency", "appLatencyVariation", "appThroughput", "appPacketLoss"})
    @@ One("serviceConfig", "ServiceConfig") @@ One("gpuConfig", "GpuConfig")
    @@ One("externalConfig", "ExternalConfig") @@ One("netChar", "NetworkCharacteristics")
Sandbox == Words({"name"})
SandboxConfig == Words({"scenarioName"})
SandboxList == Many("sandboxes", "Sandbox")
Scenario ==
    Words({"version", "id", "name", "description"}) @@ One("config", "ScenarioConfig")
    @@ One("deployment", "Deployment")
ScenarioConfig == Words({"visualization", "other"})
ScenarioList == Many("scenarios", "Scenario")
ServiceConfig == Words({"name", "meSvcName"}) @@ Many("ports", "ServicePort")
ServicePort == Words({"protocol"}) @@ Numbers({"port", "externalPort"})
Zone ==
    Words({"id", "name", "type"})
    @@ Numbers({"interFogLatency", "interFogLatencyVariation", "interFogThroughput",
          "interFogPacketLoss", "interEdgeLatency", "interEdgeLatencyVariation",
          "interEdgeThroughput", "interEdgePacketLoss", "edgeFogLatency",
          "edgeFogLatencyVariation", "edgeFogThroughput", "edgeFogPacketLoss"})
    @@ Dicts({"meta", "userMeta"}) @@ One("netChar", "NetworkCharacteristics")
    @@ Many("networkLocations", "NetworkLocation")

createSandbox ==
    Op("POST", "/sandboxes", {"config"}, Of("SandboxConfig"), Of("Sandbox"))
createSandboxWithName ==
    Op("POST", "/sandboxes/{name}", {"name", "config"}, Of("SandboxConfig"), Nothing)
deleteSandbox ==
    Op("DELETE", "/sandboxes/{name}", {"name"}, Nothing, Nothing)
deleteSandboxList ==
    Op("DELETE", "/sandboxes", {}, Nothing, Nothing)
getSandbox ==
    Op("GET", "/sandboxes/{name}", {"name"}, Nothing, Of("Sandbox"))
getSandboxList ==
    Op("GET", "/sandboxes", {}, Nothing, Of("SandboxList"))
createScenario ==
    Op("POST", "/scenarios/{name}", {"name", "scenario"}, Of("Scenario"), Nothing)
deleteScenario ==
    Op("DELETE", "/scenarios/{name}", {"name"}, Nothing, Nothing)
deleteScenarioList ==
    Op("DELETE", "/scenarios", {}, Nothing, Nothing)
getScenario ==
    Op("GET", "/scenarios/{name}", {"name"}, Nothing, Of("Scenario"))
getScenarioList ==
    Op("GET", "/scenarios", {}, Nothing, Of("ScenarioList"))
setScenario ==
    Op("PUT", "/scenarios/{name}", {"name", "scenario"}, Of("Scenario"), Nothing)

Models ==
    [CellularDomainConfig |-> CellularDomainConfig, CellularPoaConfig |-> CellularPoaConfig,
     Deployment |-> Deployment, Domain |-> Domain, EgressService |-> EgressService,
     ExternalConfig |-> ExternalConfig, GeoData |-> GeoData, GpuConfig |-> GpuConfig,
     IngressService |-> IngressService, LineString |-> LineString,
     NetworkCharacteristics |-> NetworkCharacteristics, NetworkLocation |-> NetworkLocation,
     PhysicalLocation |-> PhysicalLocation, Point |-> Point, Process |-> Process,
     Sandbox |-> Sandbox, SandboxConfig |-> SandboxConfig, SandboxList |-> SandboxList,
     Scenario |-> Scenario, ScenarioConfig |-> ScenarioConfig, ScenarioList |-> ScenarioList,
     ServiceConfig |-> ServiceConfig, ServicePort |-> ServicePort, Zone |-> Zone]
Operations ==
    [createSandbox |-> createSandbox, createSandboxWithName |-> createSandboxWithName,
     deleteSandbox |-> deleteSandbox, deleteSandboxList |-> deleteSandboxList,
     getSandbox |-> getSandbox, getSandboxList |-> getSandboxList,
     createScenario |-> createScenario, deleteScenario |-> deleteScenario,
     deleteScenarioList |-> deleteScenarioList, getScenario |-> getScenario,
     getScenarioList |-> getScenarioList, setScenario |-> setScenario]
==============================================================================
