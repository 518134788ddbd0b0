SPECIFICATION FairSpec
CONSTANTS
  p1 = p1
  p2 = p2
  p3 = p3
  v1 = v1
  NoDoc = NoDoc
  NoSvc = NoSvc
  Nil = Nil
  Pods = {p1, p2, p3}
  Svcs = {v1}
  Docs <- Shrinking
  Pollers = {q1, q2}
  MayLinger = FALSE
  MaxEvents = 3
INVARIANTS ReadyIsComplete FlowsHaveOwnRules AddressesAreCurrent
PROPERTY EventuallyServed
CHECK_DEADLOCK FALSE
