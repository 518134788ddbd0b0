SPECIFICATION Spec
CONSTANTS
  poa1 = poa1
  poa2 = poa2
  ue1 = ue1
  ue2 = ue2
  fog1 = fog1
  fog2 = fog2
  p1 = p1
  p2 = p2
  iperf = iperf
  v0 = v0
  v1 = v1
  NoProc = NoProc
  NoPlace = NoPlace
  NetLocs <- TwoPoas
  Layout <- TwoFogs
  Capacity = 4
  Values = {v0}
  Value0 = v0
  UEs = {ue1, ue2}
  Fogs = {fog1, fog2}
  Procs = {p1, p2, iperf}
  MgProcs = {iperf}
  Hosted <- OnFog1
  Named = {ue1, p1, p2}
  MaxArrays = 2
  MaxLocs = 3
PROPERTIES StaleAfterEdgeMove RefinesTree
