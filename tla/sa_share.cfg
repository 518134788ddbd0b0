SPECIFICATION SaSpec
CONSTANTS
  srv = srv
  hub = hub
  app = app
  fog = fog
  edge1 = edge1
  cloud = cloud
  ue = ue
  poa1 = poa1
  poa2 = poa2
  def1 = def1
  def3 = def3
  zone1 = zone1
  zone2 = zone2
  zone3 = zone3
  dom1 = dom1
  dom2 = dom2
  dom3 = dom3
  Scenario = scn
  NoName = NoName
  NoDoc = NoDoc
  Procs = {srv, hub, app}
  TypeOf <- TheTypeOf
  ZoneOf <- TheZones
  DomainOf <- TheDomains
  Latency <- TheLatency
  Docs <- TheDocs
  Talkers <- ToUE
  Demands <- TheDemands
  Orders <- TheOrders
  Listing <- TheListing
  Mbps = 360
  MAX_THROUGHPUT = 1000000000
  Settling = 25
  MaxChanges = 4
INVARIANTS LatencyIsEndToEnd Served
