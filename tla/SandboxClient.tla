---------------------------- MODULE SandboxClient -----------------------------
(******************************************************************************)
(* The JavaScript client of the sandbox controller. It holds its own copy of  *)
(* every model of a scenario, the same text as the platform controller's      *)
(* client; the models of events, replays and service maps are its own.        *)
(******************************************************************************)
EXTENDS WireTypes, TLC

Platform == INSTANCE PlatformClient

Base == "/sandbox-ctrl/v1"

ActivationInfo == Words({"replayFileName"})
CellularDomainConfig == Platform!CellularDomainConfig
CellularPoaConfig == Platform!CellularPoaConfig
Deployment == Platform!Deployment
Domain == Platform!Domain
EgressService == Platform!EgressService
Event ==
    Words({"name", "type"}) @@ One("eventMobility", "EventMobility")
    @@ One("eventNetworkCharacteristicsUpdate", "EventNetworkCharacteristicsUpdate")
    @@ One("eventPoasInRange", "EventPoasInRange")
    @@ One("eventScenarioUpdate", "EventScenarioUpdate")
EventMobility == Words({"elementName", "dest"})
EventNetworkCharacteristicsUpdate ==
    Words({"elementName", "elementType"}) @@ One("netChar", "NetworkCharacteristics")
EventPoasInRange == Words({"ue"}) @@ TextLists({"poasInRange"})
EventScenarioUpdate == Words({"action"}) @@ One("node", "ScenarioNode")
ExternalConfig == Platform!ExternalConfig
GeoData == Platform!GeoData
GpuConfig == Platform!GpuConfig
IngressService == Platform!IngressService
LineString == Platform!LineString
NetworkCharacteristics == Platform!NetworkCharacteristics
NetworkLocation == Platform!NetworkLocation
NodeDataUnion == One("physicalLocation", "PhysicalLocation")
NodeServiceMaps ==
    Words({"node"}) @@ Many("ingressServiceMap", "IngressService")
    @@ Many("egressServiceMap", "EgressService")
PhysicalLocation == Platform!PhysicalLocation
Point == Platform!Point
Process == Platform!Process
Replay == Words({"description"}) @@ Many("events", "ReplayEvent")
ReplayEvent == Numbers({"index", "time"}) @@ One("event", "Event")
ReplayFileList == As("replay-files", "replayFiles", TextLists({"replayFiles"}))
ReplayInfo == Words({"scenarioName", "description"})
ReplayStatus ==
    Words({"replayFileRunning"})
    @@ Numbers({"index", "maxIndex", "timeRemaining", "timeToNextEvent"}) @@ Flags({"loopMode"})
Scenario == Platform!Scenario
ScenarioConfig == Platform!ScenarioConfig
ScenarioNode ==
    Words({"type", "parent"}) @@ TextLists({"children"}) @@ One("nodeDataUnion", "NodeDataUnion")
ServiceConfig == Platform!ServiceConfig
ServicePort == Platform!ServicePort
Zone == Platform!Zone

activateScenario ==
    Op("POST", "/active/{name}", {"name"}, Of("ActivationInfo"), Nothing)
getActiveNodeServiceMaps ==
    Op("GET", "/active/serviceMaps", {}, Nothing, ListOf("NodeServiceMaps"))
getActiveScenario ==
    Op("GET", "/active", {}, Nothing, Of("Scenario"))
terminateScenario ==
    Op("DELETE", "/active", {}, Nothing, Nothing)
createReplayFile ==
    Op("POST", "/replay/{name}", {"name", "replayFile"}, Of("Replay"), Nothing)
createReplayFileFromScenarioExec ==
    Op("POST", "/replay/{name}/generate", {"name", "replayInfo"}, Of("ReplayInfo"), Nothing)
deleteReplayFile ==
    Op("DELETE", "/replay/{name}", {"name"}, Nothing, Nothing)
deleteReplayFileList ==
    Op("DELETE", "/replay", {}, Nothing, Nothing)
getReplayFile ==
    Op("GET", "/replay/{name}", {"name"}, Nothing, Of("Replay"))
getReplayFileList ==
    Op("GET", "/replay", {}, Nothing, Of("ReplayFileList"))
getReplayStatus ==
    Op("GET", "/replaystatus", {}, Nothing, Of("ReplayStatus"))
(* Mutant: the path of the operation before it. *)
LoopReplayAsPlay == Op("POST", "/replay/{name}/play", {"name"}, Nothing, Nothing)
loopReplay ==
    Op("POST", "/replay/{name}/loop", {"name"}, Nothing, Nothing)
playReplayFile ==
    Op("POST", "/replay/{name}/play", {"name"}, Nothing, Nothing)
stopReplayFile ==
    Op("POST", "/replay/{name}/stop", {"name"}, Nothing, Nothing)
sendEvent ==
    Op("POST", "/events/{type}", {"type", "event"}, Of("Event"), Nothing)

Models ==
    [ActivationInfo |-> ActivationInfo, CellularDomainConfig |-> CellularDomainConfig,
     CellularPoaConfig |-> CellularPoaConfig, Deployment |-> Deployment, Domain |-> Domain,
     EgressService |-> EgressService, Event |-> Event, EventMobility |-> EventMobility,
     EventNetworkCharacteristicsUpdate |-> EventNetworkCharacteristicsUpdate,
     EventPoasInRange |-> EventPoasInRange, EventScenarioUpdate |-> EventScenarioUpdate,
     ExternalConfig |-> ExternalConfig, GeoData |-> GeoData, GpuConfig |-> GpuConfig,
     IngressService |-> IngressService, LineString |-> LineString,
     NetworkCharacteristics |-> NetworkCharacteristics, NetworkLocation |-> NetworkLocation,
     NodeDataUnion |-> NodeDataUnion, NodeServiceMaps |-> NodeServiceMaps,
     PhysicalLocation |-> PhysicalLocation, Point |-> Point, Process |-> Process,
     Replay |-> Replay, ReplayEvent |-> ReplayEvent, ReplayFileList |-> ReplayFileList,
     ReplayInfo |-> ReplayInfo, ReplayStatus |-> ReplayStatus, Scenario |-> Scenario,
     ScenarioConfig |-> ScenarioConfig, ScenarioNode |-> ScenarioNode,
     ServiceConfig |-> ServiceConfig, ServicePort |-> ServicePort, Zone |-> Zone]
Operations ==
    [activateScenario |-> activateScenario,
     getActiveNodeServiceMaps |-> getActiveNodeServiceMaps,
     getActiveScenario |-> getActiveScenario, terminateScenario |-> terminateScenario,
     createReplayFile |-> createReplayFile,
     createReplayFileFromScenarioExec |-> createReplayFileFromScenarioExec,
     deleteReplayFile |-> deleteReplayFile, deleteReplayFileList |-> deleteReplayFileList,
     getReplayFile |-> getReplayFile, getReplayFileList |-> getReplayFileList,
     getReplayStatus |-> getReplayStatus, loopReplay |-> loopReplay,
     playReplayFile |-> playReplayFile, stopReplayFile |-> stopReplayFile,
     sendEvent |-> sendEvent]
==============================================================================
