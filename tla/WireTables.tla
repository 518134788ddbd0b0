------------------------------ MODULE WireTables ------------------------------
(****************************************************************************)
(* The five clients of the frontend, the servers they call, and the         *)
(* operations by which a resource is loaded and saved.                      *)
(****************************************************************************)
EXTENDS WireAgreement

P == INSTANCE PlatformClient
S == INSTANCE SandboxClient
G == INSTANCE GisClient
N == INSTANCE MonClient
M == INSTANCE MetricsClient
D == INSTANCE DataModel
E == INSTANCE EngineModels

MCClients ==
    [platform |-> [base |-> P!Base, models |-> P!Models, operations |-> P!Operations],
     sandbox  |-> [base |-> S!Base, models |-> S!Models, operations |-> S!Operations],
     gis      |-> [base |-> G!Base, models |-> G!Models, operations |-> G!Operations],
     mon      |-> [base |-> N!Base, models |-> N!Models, operations |-> N!Operations],
     metrics  |-> [base |-> M!Base, models |-> M!Models, operations |-> M!Operations]]

MCServers ==
    [platform |-> [base |-> D!PlatformBase, structs |-> D!Structs, routes |-> D!PlatformRoutes],
     sandbox  |-> [base |-> D!SandboxBase, structs |-> D!Structs, routes |-> D!SandboxRoutes],
     gis      |-> [base |-> E!GisBase, structs |-> E!Structs, routes |-> E!GisRoutes],
     mon      |-> [base |-> E!MonBase, structs |-> E!Structs, routes |-> E!MonRoutes],
     metrics  |-> [base |-> E!MetricsBase, structs |-> E!Structs, routes |-> E!MetricsRoutes]]

Talk(from, load, into, save) == [from |-> from, load |-> load, into |-> into, save |-> save]

Loops == {Talk("platform", "getScenario", "platform", "setScenario"),
          Talk("sandbox", "getActiveScenario", "platform", "createScenario"),
          Talk("sandbox", "getReplayFile", "sandbox", "createReplayFile"),
          Talk("gis", "getGeoDataByName", "gis", "updateGeoDataByName")}

MCTalks ==
    Loops
    \union UNION {{Talk(c, o, c, NoOp) : o \in {n \in DOMAIN MCClients[c].operations :
                      MCClients[c].operations[n].gives.of # ""}} : c \in DOMAIN MCClients}
    \union UNION {{Talk(c, NoOp, c, o) : o \in {n \in DOMAIN MCClients[c].operations :
                      MCClients[c].operations[n].gives.of = ""
                      \/ MCClients[c].operations[n].takes.of # ""}} : c \in DOMAIN MCClients}

(* All models but these are kept as they are sent. The client keeps some    *)
(* keys of these under another name; no operation sends them.               *)
MCSent ==
    [c \in DOMAIN MCClients |->
       DOMAIN MCClients[c].models \
         CASE c = "sandbox" -> {"ReplayFileList"}
           [] c = "metrics" -> {"HttpMetric", "HttpMetricList"}
           [] OTHER -> {}]
===============================================================================
