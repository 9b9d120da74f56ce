SPECIFICATION Spec
CONSTANTS
  Tabs = {t1,t2,t3}
  NoTab = NoTab
  TTL = 2
  SettleTime = 1
  Stalls = FALSE
  Throttled = TRUE
  BackForward = TRUE
  StorageFails = FALSE
INVARIANTS TypeOK OneLeader
SYMMETRY TabSymmetry
CHECK_DEADLOCK FALSE
