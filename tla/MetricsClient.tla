---------------------------- MODULE MetricsClient -----------------------------
(******************************************************************************)
(* The JavaScript client of the metrics engine, version 2 of its API.         *)
(******************************************************************************)
EXTENDS WireTypes, TLC

Base == "/metrics/v2"

EventMetric == Words({"time", "event"})
EventMetricList == Words({"name"}) @@ TextLists({"columns"}) @@ Many("values", "EventMetric")
EventQueryParams == TextLists({"fields"}) @@ Many("tags", "Tag") @@ One("scope", "Scope")
EventSubscription ==
    Words({"subscriptionId", "clientCorrelator", "resourceURL", "subscriptionType"})
    @@ Numbers({"period"}) @@ One("callbackReference", "EventsCallbackReference")
    @@ One("eventQueryParams", "EventQueryParams")
EventSubscriptionList == Words({"resourceURL"}) @@ Many("eventSubscription", "EventSubscription")
EventSubscriptionParams ==
    Words({"clientCorrelator", "subscriptionType"}) @@ Numbers({"period"})
    @@ One("callbackReference", "EventsCallbackReference")
    @@ One("eventQueryParams", "EventQueryParams")
EventsCallbackReference == Words({"notifyURL"})
HttpMetric ==
    Words({"time", "endpoint", "url", "method", "body", "direction"}) @@ Numbers({"id"})
    @@ As("resp_code", "respCode", Words({"respCode"}))
    @@ As("resp_body", "respBody", Words({"respBody"}))
    @@ As("proc_time", "procTime", Words({"procTime"}))
    @@ As("logger_name", "loggerName", Words({"loggerName"}))
HttpMetricList == Words({"name"}) @@ TextLists({"columns"}) @@ Many("values", "HttpMetric")
HttpQueryParams == TextLists({"fields"}) @@ Many("tags", "Tag") @@ One("scope", "Scope")
NetworkCallbackReference == Words({"notifyURL"})
NetworkMetric == Words({"time"}) @@ Numbers({"lat", "ul", "dl", "ulos", "dlos"})
NetworkMetricList == Words({"name"}) @@ TextLists({"columns"}) @@ Many("values", "NetworkMetric")
NetworkQueryParams == TextLists({"fields"}) @@ Many("tags", "Tag") @@ One("scope", "Scope")
NetworkSubscription ==
    Words({"subscriptionId", "clientCorrelator", "resourceURL", "subscriptionType"})
    @@ Numbers({"period"}) @@ One("callbackReference", "NetworkCallbackReference")
    @@ One("networkQueryParams", "NetworkQueryParams")
NetworkSubscriptionList ==
    Words({"resourceURL"}) @@ Many("networkSubscription", "NetworkSubscription")
NetworkSubscriptionParams ==
    Words({"clientCorrelator", "subscriptionType"}) @@ Numbers({"period"})
    @@ One("callbackReference", "NetworkCallbackReference")
    @@ One("networkQueryParams", "NetworkQueryParams")
Scope == Numbers({"limit"}) @@ Words({"duration"})
Tag == Words({"name", "value"})

postEventQuery ==
    Op("POST", "/metrics/query/event", {"params"}, Of("EventQueryParams"), Of("EventMetricList"))
postHttpQuery ==
    Op("POST", "/metrics/query/http", {"params"}, Of("HttpQueryParams"), Of("HttpMetricList"))
postNetworkQuery ==
    Op("POST", "/metrics/query/network", {"params"}, 
       Of("NetworkQueryParams"), Of("NetworkMetricList"))
createEventSubscription ==
    Op("POST", "/metrics/subscriptions/event", {"params"}, 
       Of("EventSubscriptionParams"), Of("EventSubscription"))
createNetworkSubscription ==
    Op("POST", "/metrics/subscriptions/network", {"params"}, 
       Of("NetworkSubscriptionParams"), Of("NetworkSubscription"))
deleteEventSubscriptionById ==
    Op("DELETE", "/metrics/subscriptions/event/{subscriptionId}", {"subscriptionId"}, 
       Nothing, Nothing)
deleteNetworkSubscriptionById ==
    Op("DELETE", "/metrics/subscriptions/network/{subscriptionId}", {"subscriptionId"}, 
       Nothing, Nothing)
getEventSubscription ==
    Op("GET", "/metrics/subscriptions/event", {}, Nothing, Of("EventSubscriptionList"))
getEventSubscriptionById ==
    Op("GET", "/metrics/subscriptions/event/{subscriptionId}", {"subscriptionId"}, 
       Nothing, Of("EventSubscription"))
getNetworkSubscription ==
    Op("GET", "/metrics/subscriptions/network", {}, Nothing, Of("NetworkSubscriptionList"))
getNetworkSubscriptionById ==
    Op("GET", "/metrics/subscriptions/network/{subscriptionId}", {"subscriptionId"}, 
       Nothing, Of("NetworkSubscription"))

Models ==
    [EventMetric |-> EventMetric, EventMetricList |-> EventMetricList,
     EventQueryParams |-> EventQueryParams, EventSubscription |-> EventSubscription,
     EventSubscriptionList |-> EventSubscriptionList,
     EventSubscriptionParams |-> EventSubscriptionParams,
     EventsCallbackReference |-> EventsCallbackReference, HttpMetric |-> HttpMetric,
     HttpMetricList |-> HttpMetricList, HttpQueryParams |-> HttpQueryParams,
     NetworkCallbackReference |-> NetworkCallbackReference, NetworkMetric |-> NetworkMetric,
     NetworkMetricList |-> NetworkMetricList, NetworkQueryParams |-> NetworkQueryParams,
     NetworkSubscription |-> NetworkSubscription,
     NetworkSubscriptionList |-> NetworkSubscriptionList,
     NetworkSubscriptionParams |-> NetworkSubscriptionParams, Scope |-> Scope, Tag |-> Tag]
Operations ==
    [postEventQuery |-> postEventQuery, postHttpQuery |-> postHttpQuery,
     postNetworkQuery |-> postNetworkQuery, createEventSubscription |-> createEventSubscription,
     createNetworkSubscription |-> createNetworkSubscription,
     deleteEventSubscriptionById |-> deleteEventSubscriptionById,
     deleteNetworkSubscriptionById |-> deleteNetworkSubscriptionById,
     getEventSubscription |-> getEventSubscription,
     getEventSubscriptionById |-> getEventSubscriptionById,
     getNetworkSubscription |-> getNetworkSubscription,
     getNetworkSubscriptionById |-> getNetworkSubscriptionById]
==============================================================================
