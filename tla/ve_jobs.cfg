SPECIFICATION FairSpec
CONSTANTS
  b1 = b1
  b2 = b2
  s1 = s1
  s2 = s2
  ctrl = ctrl
  c1 = c1
  c2 = c2
  u1 = u1
  NoScenario = NoScenario
  Sandboxes = {b1, b2}
  Scenarios = {s1, s2}
  SboxPods = {ctrl}
  Procs <- TheProcs
  UserCharts = {u1}
  Covers <- NoCovers
  HelmMayFail = TRUE
  MaxRequests = 5
  ChannelSize = 1
INVARIANTS QuietIsExpected
PROPERTY EventuallyStill
