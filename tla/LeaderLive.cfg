SPECIFICATION LiveSpec
CONSTANTS
  Tabs = {t1,t2}
  NoTab = NoTab
  TTL = 2
  SettleTime = 1
  Stalls = TRUE
  Throttled = FALSE
  BackForward = FALSE
  StorageFails = TRUE
PROPERTIES ExtraRunnersStop SomeoneRuns
CHECK_DEADLOCK FALSE
