----------------------------- MODULE EngineModels -----------------------------
(******************************************************************************)
(* The Go structs of the bodies of the GIS, monitoring and metrics engines,   *)
(* and the routes of the three.                                               *)
(******************************************************************************)
EXTENDS WireTypes, TLC

AutomationState == Words({"type"}) @@ Flags({"active"})
AutomationStateList == Many("states", "AutomationState")
GeoData ==
    Floats({"radius", "velocity"}) @@ Words({"eopMode"}) @@ One("location", "Point")
    @@ One("path", "LineString")
GeoDataAsset ==
    Floats({"radius", "velocity"}) @@ Words({"eopMode", "assetName", "assetType", "subType"})
    @@ One("location", "Point") @@ One("path", "LineString")
GeoDataAssetList == Many("geoDataAssets", "GeoDataAsset")
LineString == Always({"type"}) @@ FloatTables({"coordinates"})
Point == Always({"type"}) @@ FloatLists({"coordinates"})
PodStatus ==
    Words({"podType", "sandbox", "name", "namespace", "meepApp", "meepOrigin", "meepScenario",
          "phase", "podInitialized", "podReady", "podScheduled", "podUnschedulable",
          "podConditionError", "containerStatusesMsg", "nbOkContainers", "nbTotalContainers",
          "nbPodRestart", "logicalState", "startTime"})
PodsStatus == Many("podStatus", "PodStatus")
EventMetric == Words({"time", "event"})
EventMetricList == Words({"name"}) @@ TextLists({"columns"}) @@ Many("values", "EventMetric")
EventQueryParams == TextLists({"fields"}) @@ Many("tags", "Tag") @@ One("scope", "Scope")
EventSubscription ==
    Words({"subscriptionId", "clientCorrelator", "resourceURL", "subscriptionType"})
    @@ Ints({"period"}) @@ One("callbackReference", "EventsCallbackReference")
    @@ One("eventQueryParams", "EventQueryParams")
EventSubscriptionList == Words({"resourceURL"}) @@ Many("eventSubscription", "EventSubscription")
EventSubscriptionParams ==
    Words({"clientCorrelator", "subscriptionType"}) @@ Ints({"period"})
    @@ One("callbackReference", "EventsCallbackReference")
    @@ One("eventQueryParams", "EventQueryParams")
EventsCallbackReference == Always({"notifyURL"})
HttpMetric ==
    Words({"time", "endpoint", "url", "method", "resp_code", "resp_body", "body", "proc_time",
          "logger_name", "direction"}) @@ Ints({"id"})
HttpMetricList == Words({"name"}) @@ TextLists({"columns"}) @@ Many("values", "HttpMetric")
HttpQueryParams == TextLists({"fields"}) @@ Many("tags", "Tag") @@ One("scope", "Scope")
NetworkCallbackReference == Always({"notifyURL"})
NetworkMetric == Words({"time"}) @@ Ints({"lat"}) @@ Floats({"ul", "dl", "ulos", "dlos"})
NetworkMetricList == Words({"name"}) @@ TextLists({"columns"}) @@ Many("values", "NetworkMetric")
NetworkQueryParams == TextLists({"fields"}) @@ Many("tags", "Tag") @@ One("scope", "Scope")
NetworkSubscription ==
    Words({"subscriptionId", "clientCorrelator", "resourceURL", "subscriptionType"})
    @@ Ints({"period"}) @@ One("callbackReference", "NetworkCallbackReference")
    @@ One("networkQueryParams", "NetworkQueryParams")
NetworkSubscriptionList ==
    Words({"resourceURL"}) @@ Many("networkSubscription", "NetworkSubscription")
NetworkSubscriptionParams ==
    Words({"clientCorrelator", "subscriptionType"}) @@ Ints({"period"})
    @@ One("callbackReference", "NetworkCallbackReference")
    @@ One("networkQueryParams", "NetworkQueryParams")
Scope == Ints({"limit"}) @@ Words({"duration"})
Tag == Words({"name", "value"})

Structs ==
    [AutomationState |-> AutomationState, AutomationStateList |-> AutomationStateList,
     GeoData |-> GeoData, GeoDataAsset |-> GeoDataAsset, GeoDataAssetList |-> GeoDataAssetList,
     LineString |-> LineString, Point |-> Point, PodStatus |-> PodStatus,
     PodsStatus |-> PodsStatus, EventMetric |-> EventMetric, EventMetricList |-> EventMetricList,
     EventQueryParams |-> EventQueryParams, EventSubscription |-> EventSubscription,
     EventSubscriptionList |-> EventSubscriptionList,
     EventSubscriptionParams |-> EventSubscriptionParams,
     EventsCallbackReference |-> EventsCallbackReference, HttpMetric |-> HttpMetric,
     HttpMetricList |-> HttpMetricList, HttpQueryParams |-> HttpQueryParams,
     NetworkCallbackReference |-> NetworkCallbackReference, NetworkMetric |-> NetworkMetric,
     NetworkMetricList |-> NetworkMetricList, NetworkQueryParams |-> NetworkQueryParams,
     NetworkSubscription |-> NetworkSubscription,
     NetworkSubscriptionList |-> NetworkSubscriptionList,
     NetworkSubscriptionParams |-> NetworkSubscriptionParams, Scope |-> Scope, Tag |-> Tag]

GisBase == "/gis/v1"
GisRoutes ==
   [getAutomationState |-> Route("GET", "/automation", Nothing, Of("AutomationStateList")),
    getAutomationStateByName |-> Route("GET", "/automation/{type}", Nothing, Of("AutomationState")),
    setAutomationStateByName |-> Route("POST", "/automation/{type}", Nothing, Nothing),
    deleteGeoDataByName |-> Route("DELETE", "/geodata/{assetName}", Nothing, Nothing),
    getAssetData |-> Route("GET", "/geodata", Nothing, Of("GeoDataAssetList")),
    getGeoDataByName |-> Route("GET", "/geodata/{assetName}", Nothing, Of("GeoDataAsset")),
    updateGeoDataByName |-> Route("POST", "/geodata/{assetName}", Of("GeoDataAsset"), Nothing)]

MonBase == "/mon-engine/v1"
MonRoutes ==
   [getStates |-> Route("GET", "/states", Nothing, Of("PodsStatus"))]

MetricsBase == "/metrics/v2"
MetricsRoutes ==
   [postEventQuery |-> Route("POST", "/metrics/query/event",
        Of("EventQueryParams"), Of("EventMetricList")),
    postHttpQuery |-> Route("POST", "/metrics/query/http",
        Of("HttpQueryParams"), Of("HttpMetricList")),
    postNetworkQuery |-> Route("POST", "/metrics/query/network",
        Of("NetworkQueryParams"), Of("NetworkMetricList")),
    createEventSubscription |-> Route("POST", "/metrics/subscriptions/event",
        Of("EventSubscriptionParams"), Of("EventSubscription")),
    createNetworkSubscription |-> Route("POST", "/metrics/subscriptions/network",
        Of("NetworkSubscriptionParams"), Of("NetworkSubscription")),
    deleteEventSubscriptionById |-> Route("DELETE", "/metrics/subscriptions/event/{subscriptionId}",
        Nothing, Nothing),
    deleteNetworkSubscriptionById |-> Route("DELETE", "/metrics/subscriptions/network/{subscriptionId}",
        Nothing, Nothing),
    getEventSubscription |-> Route("GET", "/metrics/subscriptions/event",
        Nothing, Of("EventSubscriptionList")),
    getEventSubscriptionById |-> Route("GET", "/metrics/subscriptions/event/{subscriptionId}",
        Nothing, Of("EventSubscription")),
    getNetworkSubscription |-> Route("GET", "/metrics/subscriptions/network",
        Nothing, Of("NetworkSubscriptionList")),
    getNetworkSubscriptionById |-> Route("GET", "/metrics/subscriptions/network/{subscriptionId}",
        Nothing, Of("NetworkSubscription"))]
==============================================================================
