--------------------------- MODULE MCSegmentAlgo ----------------------------
(* A small network for SegmentAlgo.                                          *)
EXTENDS SegmentAlgo

CONSTANTS srv, hub, app, fog, edge1, cloud, ue, poa1, poa2, def1, def3, zone1, zone2, zone3, dom1, dom2, dom3

TheTypeOf == fog :> "FOG" @@ edge1 :> "EDGE" @@ cloud :> "DC" @@ ue :> "UE"
TheZones  == poa1 :> zone1 @@ poa2 :> zone2 @@ def1 :> zone1 @@ def3 :> zone3
TheDomains == zone1 :> dom1 @@ zone2 :> dom2 @@ zone3 :> dom3
Names == {srv, hub, app, fog, edge1, cloud, ue, poa1, poa2, def1, def3,
          zone1, zone2, zone3, dom1, dom2, dom3, Scenario}

Doc(node, at, wide) ==
  [phyLoc |-> srv :> node @@ hub :> cloud @@ app :> ue,
   netLoc |-> fog :> poa1 @@ edge1 :> def1 @@ cloud :> def3 @@ ue :> at,
   rate |-> [n \in Names |-> IF n = poa1 THEN wide * Mbps ELSE 1000 * Mbps]]

TheDocs == {Doc(fog, poa1, 100), Doc(edge1, poa2, 100), Doc(fog, poa1, 10)}

Forward == <<srv, fog, edge1, hub, cloud, app, ue, poa1, poa2, def1, def3, zone1, zone2, zone3,
             dom1, dom2, dom3, Scenario>>
Position(x) == CHOOSE i \in DOMAIN Forward : Forward[i] = x
TheLatency == [n \in Names |-> IF n \in Procs THEN 0 ELSE Position(n)]
TheOrders == {[n \in Names \X {"uplink", "downlink"} |->
                 2 * Position(n[1]) + (IF n[2] = "uplink" THEN 0 ELSE 1)]}
TheListing == <<<<srv, hub>>, <<srv, app>>, <<hub, srv>>, <<hub, app>>, <<app, srv>>, <<app, hub>>>>
ToUE == {<<srv, app>>, <<hub, app>>}
TheDemands == {0, 30 * Mbps, 60 * Mbps, 97 * Mbps}
=============================================================================
