SPECIFICATION FairSpec
CONSTANTS
  r1 = r1
  r2 = r2
  r3 = r3
  NoChain = NoChain
  Chains = {r1, r2, r3}
  Files <- TheFiles
  MaxStarts = 3
INVARIANTS OneReplay StatusIsLastRan CrashIsExplained
PROPERTIES RunInOrder Completes
