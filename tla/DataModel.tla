------------------------------ MODULE DataModel -------------------------------
(******************************************************************************)
(* The Go structs of go-packages/meep-data-model as encoding/json sees them   *)
(* (the key of each field and its type; every field of Always has no          *)
(* omitempty), and the routes of the two controllers that decode and encode   *)
(* them: what each handler takes from the body and what it answers with.      *)
(******************************************************************************)
EXTENDS WireTypes, TLC

ActivationInfo == Words({"replayFileName"})
CellularDomainConfig == Words({"mnc", "mcc", "defaultCellId"})
(* Mutant: a cell id is a number. *)
CellularPoaConfigOfNumbers == Ints({"cellId"})
CellularPoaConfig == Words({"cellId"})
Deployment ==
    Ints({"interDomainLatency", "interDomainLatencyVariation", "interDomainThroughput"})
    @@ Floats({"interDomainPacketLoss"}) @@ Dicts({"meta", "userMeta"})
    @@ One("netChar", "NetworkCharacteristics") @@ Many("domains", "Domain")
Domain ==
    Words({"id", "name", "type"})
    @@ Ints({"interZoneLatency", "interZoneLatencyVariation", "interZoneThroughput"})
    @@ Floats({"interZonePacketLoss"}) @@ Dicts({"meta", "userMeta"})
    @@ One("netChar", "NetworkCharacteristics")
    @@ One("cellularDomainConfig", "CellularDomainConfig") @@ Many("zones", "Zone")
EgressService == Words({"name", "meSvcName", "ip", "protocol"}) @@ Ints({"port"})
Event ==
    Words({"name", "type"}) @@ One("eventMobility", "EventMobility")
    @@ One("eventNetworkCharacteristicsUpdate", "EventNetworkCharacteristicsUpdate")
    @@ One("eventPoasInRange", "EventPoasInRange")
    @@ One("eventScenarioUpdate", "EventScenarioUpdate")
EventMobility == Words({"elementName", "dest"})
EventNetworkCharacteristicsUpdate ==
    Words({"elementName", "elementType"}) @@ One("netChar", "NetworkCharacteristics")
EventPoasInRange == Words({"ue"}) @@ TextLists({"poasInRange"})
EventScenarioUpdate == Words({"action"}) @@ One("node", "ScenarioNode")
ExternalConfig ==
    Many("ingressServiceMap", "IngressService") @@ Many("egressServiceMap", "EgressService")
GeoData ==
    Floats({"radius", "velocity"}) @@ Words({"eopMode"}) @@ One("location", "Point")
    @@ One("path", "LineString")
GpuConfig == Words({"type"}) @@ Ints({"count"})
IngressService == Words({"name", "protocol"}) @@ Ints({"port", "externalPort"})
LineString == Always({"type"}) @@ FloatTables({"coordinates"})
NetworkCharacteristics ==
    Ints({"latency", "latencyVariation", "throughput", "throughputDl", "throughputUl"})
    @@ Words({"latencyDistribution"}) @@ Floats({"packetLoss"})
NetworkLocation ==
    Words({"id", "name", "type"})
    @@ Ints({"terminalLinkLatency", "terminalLinkLatencyVariation", "terminalLinkThroughput"})
    @@ Floats({"terminalLinkPacketLoss"}) @@ Dicts({"meta", "userMeta"})
    @@ One("netChar", "NetworkCharacteristics") @@ One("cellularPoaConfig", "CellularPoaConfig")
    @@ One("geoData", "GeoData") @@ Many("physicalLocations", "PhysicalLocation")
NodeDataUnion == One("physicalLocation", "PhysicalLocation")
NodeServiceMaps ==
    Words({"node"}) @@ Many("ingressServiceMap", "IngressService")
    @@ Many("egressServiceMap", "EgressService")
PhysicalLocation ==
    Words({"id", "name", "type"}) @@ Flags({"isExternal"})
    @@ TextLists({"networkLocationsInRange"}) @@ Dicts({"meta", "userMeta"})
    @@ Ints({"linkLatency", "linkLatencyVariation", "linkThroughput"})
    @@ Floats({"linkPacketLoss"}) @@ One("geoData", "GeoData") @@ Many("processes", "Process")
    @@ One("netChar", "NetworkCharacteristics")
Point == Always({"type"}) @@ FloatLists({"coordinates"})
Process ==
    Words({"id", "name", "type", "image", "environment", "commandArguments", "commandExe",
          "status", "userChartLocation", "userChartAlternateValues", "userChartGroup",
          "placementId"}) @@ Flags({"isExternal"}) @@ Dicts({"meta", "userMeta"})
    @@ Ints({"appLatency", "appLatencyVariation", "appThroughput"}) @@ Floats({"appPacketLoss"})
    @@ One("serviceConfig", "ServiceConfig") @@ One("gpuConfig", "GpuConfig")
    @@ One("externalConfig", "ExternalConfig") @@ One("netChar", "NetworkCharacteristics")
Replay == Words({"description"}) @@ Many("events", "ReplayEvent")
ReplayEvent == Ints({"index", "time"}) @@ One("event", "Event")
ReplayFileList == TextLists({"replay-files"})
ReplayInfo == Words({"scenarioName", "description"})
ReplayStatus ==
    Words({"replayFileRunning"})
    @@ Ints({"index", "maxIndex", "timeRemaining", "timeToNextEvent"}) @@ Flags({"loopMode"})
Sandbox == Words({"name"})
SandboxConfig == Words({"scenarioName"})
SandboxList == Many("sandboxes", "Sandbox")
Scenario ==
    Words({"version", "id", "name", "description"}) @@ One("config", "ScenarioConfig")
    @@ One("deployment", "Deployment")
ScenarioConfig == Words({"visualization", "other"})
ScenarioList == Many("scenarios", "Scenario")
ScenarioNode ==
    Words({"type", "parent"}) @@ TextLists({"children"}) @@ One("nodeDataUnion", "NodeDataUnion")
ServiceConfig == Words({"name", "meSvcName"}) @@ Many("ports", "ServicePort")
ServicePort == Words({"protocol"}) @@ Ints({"port", "externalPort"})
Zone ==
    Words({"id", "name", "type"})
    @@ Ints({"interFogLatency", "interFogLatencyVariation", "interFogThroughput",
          "interEdgeLatency", "interEdgeLatencyVariation", "interEdgeThroughput",
          "edgeFogLatency", "edgeFogLatencyVariation", "edgeFogThroughput"})
    @@ Floats({"interFogPacketLoss", "interEdgePacketLoss", "edgeFogPacketLoss"})
    @@ Dicts({"meta", "userMeta"}) @@ One("netChar", "NetworkCharacteristics")
    @@ Many("networkLocations", "NetworkLocation")

Structs ==
    [ActivationInfo |-> ActivationInfo, CellularDomainConfig |-> CellularDomainConfig,
     CellularPoaConfig |-> CellularPoaConfig, Deployment |-> Deployment, Domain |-> Domain,
     EgressService |-> EgressService, Event |-> Event, EventMobility |-> EventMobility,
     EventNetworkCharacteristicsUpdate |-> EventNetworkCharacteristicsUpdate,
     EventPoasInRange |-> EventPoasInRange, EventScenarioUpdate |-> EventScenarioUpdate,
     ExternalConfig |-> ExternalConfig, GeoData |-> GeoData, GpuConfig |-> GpuConfig,
     IngressService |-> IngressService, LineString |-> LineString,
     NetworkCharacteristics |-> NetworkCharacteristics, NetworkLocation |-> NetworkLocation,
     NodeDataUnion |-> NodeDataUnion, NodeServiceMaps |-> NodeServiceMaps,
     PhysicalLocation |-> PhysicalLocation, Point |-> Point, Process |-> Process,
     Replay |-> Replay, ReplayEvent |-> ReplayEvent, ReplayFileList |-> ReplayFileList,
     ReplayInfo |-> ReplayInfo, ReplayStatus |-> ReplayStatus, Sandbox |-> Sandbox,
     SandboxConfig |-> SandboxConfig, SandboxList |-> SandboxList, Scenario |-> Scenario,
     ScenarioConfig |-> ScenarioConfig, ScenarioList |-> ScenarioList,
     ScenarioNode |-> ScenarioNode, ServiceConfig |-> ServiceConfig, ServicePort |-> ServicePort,
     Zone |-> Zone]

PlatformBase == "/platform-ctrl/v1"
PlatformRoutes ==
   [createSandbox |-> Route("POST", "/sandboxes", Of("SandboxConfig"), Of("Sandbox")),
    createSandboxWithName |-> Route("POST", "/sandboxes/{name}", Of("SandboxConfig"), Of("Sandbox")),
    deleteSandbox |-> Route("DELETE", "/sandboxes/{name}", Nothing, Nothing),
    deleteSandboxList |-> Route("DELETE", "/sandboxes", Nothing, Nothing),
    getSandbox |-> Route("GET", "/sandboxes/{name}", Nothing, Of("Sandbox")),
    getSandboxList |-> Route("GET", "/sandboxes", Nothing, Of("SandboxList")),
    createScenario |-> Route("POST", "/scenarios/{name}", Of("Scenario"), Nothing),
    deleteScenario |-> Route("DELETE", "/scenarios/{name}", Nothing, Nothing),
    deleteScenarioList |-> Route("DELETE", "/scenarios", Nothing, Nothing),
    getScenario |-> Route("GET", "/scenarios/{name}", Nothing, Of("Scenario")),
    getScenarioList |-> Route("GET", "/scenarios", Nothing, Of("ScenarioList")),
    setScenario |-> Route("PUT", "/scenarios/{name}", Of("Scenario"), Nothing)]

SandboxBase == "/sandbox-ctrl/v1"
SandboxRoutes ==
   [activateScenario |-> Route("POST", "/active/{name}", Of("ActivationInfo"), Nothing),
    getActiveNodeServiceMaps |-> Route("GET", "/active/serviceMaps",
        Nothing, ListOf("NodeServiceMaps")),
    getActiveScenario |-> Route("GET", "/active", Nothing, Of("Scenario")),
    terminateScenario |-> Route("DELETE", "/active", Nothing, Nothing),
    createReplayFile |-> Route("POST", "/replay/{name}", Of("Replay"), Nothing),
    createReplayFileFromScenarioExec |-> Route("POST", "/replay/{name}/generate",
        Of("ReplayInfo"), Nothing),
    deleteReplayFile |-> Route("DELETE", "/replay/{name}", Nothing, Nothing),
    deleteReplayFileList |-> Route("DELETE", "/replay", Nothing, Nothing),
    getReplayFile |-> Route("GET", "/replay/{name}", Nothing, Of("Replay")),
    getReplayFileList |-> Route("GET", "/replay", Nothing, Of("ReplayFileList")),
    getReplayStatus |-> Route("GET", "/replaystatus", Nothing, Of("ReplayStatus")),
    loopReplay |-> Route("POST", "/replay/{name}/loop", Nothing, Nothing),
    playReplayFile |-> Route("POST", "/replay/{name}/play", Nothing, Nothing),
    stopReplayFile |-> Route("POST", "/replay/{name}/stop", Nothing, Nothing),
    sendEvent |-> Route("POST", "/events/{type}", Of("Event"), Nothing)]
==============================================================================
