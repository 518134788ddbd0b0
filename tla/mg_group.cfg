SPECIFICATION Spec
CONSTANTS
  g1 = g1
  a1 = a1
  a2 = a2
  ue1 = ue1
  client = client
  poa1 = poa1
  poa2 = poa2
  t1 = t1
  stranger = stranger
  NoDoc = NoDoc
  NoApp = NoApp
  Unset = Unset
  Listener = Listener
  Elems = {client}
  PLs = {ue1}
  Locs = {poa1, poa2}
  PhyOf <- ThePhyOf
  Hops <- TheHops
  Groups = {g1}
  Apps = {a1, a2, stranger}
  Docs <- Moves
  RestThreads = {t1}
  Settings <- TheSettings
  MaxAtWork = 2
  MaxEvents = 2
  MaxReq = 3
INVARIANTS StoredIsExplained  TransferFlagIsTrue PanicIsExplained
