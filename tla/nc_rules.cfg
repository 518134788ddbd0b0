SPECIFICATION FairSpec
CONSTANTS
  f1 = f1
  f2 = f2
  x = x
  y = y
  w1 = w1
  NoDoc = NoDoc
  Default = Default
  Zero = Zero
  Listener = Listener
  Free = Free
  Flows = {f1, f2}
  Docs <- Versions
  Workers = {w1}
  MaxEvents = 3
  Traffic = TRUE
INVARIANTS  SidecarsAreTold
 
