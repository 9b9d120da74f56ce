SPECIFICATION LiveSpec
CONSTANTS
  a = a  b = b  l1 = l1  l2 = l2  j1 = j1  j2 = j2  j3 = j3  NoItem = NoItem  NoJob = NoJob  NoLoop = NoLoop  NoRoom = NoRoom
  Items = {a, b}
  Queued <- TwoRows
  KindOf <- Files
  Tier <- NoTiers
  Loops = {l1, l2}
  Jobs = {j1, j2, j3}
  MaxRecover = 1
  MaxEvents = 3
  AutoResume = TRUE
  ContinueOnFailure = TRUE
  Web = FALSE
  Persist = FALSE
  Ops = {"start", "cancel", "remove", "pause", "resume", "sendNow", "restart", "move"}
  Faults = {"jobFails", "lostContact"}
PROPERTIES StartedQueueDrains
CHECK_DEADLOCK FALSE
