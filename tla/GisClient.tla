------------------------------ MODULE GisClient -------------------------------
(******************************************************************************)
(* The JavaScript client of the GIS engine: its models and its operations.    *)
(******************************************************************************)
EXTENDS WireTypes, TLC

Base == "/gis/v1"

AutomationState == Words({"type"}) @@ Flags({"active"})
AutomationStateList == Many("states", "AutomationState")
GeoData ==
    Numbers({"radius", "velocity"}) @@ Words({"eopMode"}) @@ One("location", "Point")
    @@ One("path", "LineString")
GeoDataAsset == GeoData @@ Words({"assetName", "assetType", "subType"})
GeoDataAssetList == Many("geoDataAssets", "GeoDataAsset")
LineString == Words({"type"}) @@ NumberTables({"coordinates"})
Point == Words({"type"}) @@ NumberLists({"coordinates"})

getAutomationState ==
    Op("GET", "/automation", {}, Nothing, Of("AutomationStateList"))
getAutomationStateByName ==
    Op("GET", "/automation/{type}", {"type"}, Nothing, Of("AutomationState"))
setAutomationStateByName ==
    Op("POST", "/automation/{type}", {"type", "run"}, Nothing, Nothing)
deleteGeoDataByName ==
    Op("DELETE", "/geodata/{assetName}", {"assetName"}, Nothing, Nothing)
getAssetData ==
    Op("GET", "/geodata", {}, Nothing, Of("GeoDataAssetList"))
getGeoDataByName ==
    Op("GET", "/geodata/{assetName}", {"assetName"}, Nothing, Of("GeoDataAsset"))
updateGeoDataByName ==
    Op("POST", "/geodata/{assetName}", {"assetName", "geoData"}, Of("GeoDataAsset"), Nothing)

Models ==
    [AutomationState |-> AutomationState, AutomationStateList |-> AutomationStateList,
     GeoData |-> GeoData, GeoDataAsset |-> GeoDataAsset, GeoDataAssetList |-> GeoDataAssetList,
     LineString |-> LineString, Point |-> Point]
Operations ==
    [getAutomationState |-> getAutomationState,
     getAutomationStateByName |-> getAutomationStateByName,
     setAutomationStateByName |-> setAutomationStateByName,
     deleteGeoDataByName |-> deleteGeoDataByName, getAssetData |-> getAssetData,
     getGeoDataByName |-> getGeoDataByName, updateGeoDataByName |-> updateGeoDataByName]
==============================================================================
