SPECIFICATION Spec
CONSTANTS
  a = a  b = b  l1 = l1  l2 = l2  j1 = j1  j2 = j2  j3 = j3  NoItem = NoItem  NoJob = NoJob  NoLoop = NoLoop  NoRoom = NoRoom
  Items = {a}
  Queued <- OneFile
  KindOf <- Files
  Tier <- NoTiers
  Loops = {l1, l2}
  Jobs = {j1, j2, j3}
  MaxRecover = 1
  MaxEvents = 3
  AutoResume = TRUE
  ContinueOnFailure = FALSE
  Web = FALSE
  Persist = FALSE
  Ops = {"start", "stop"}
  Faults = {}
PROPERTIES RunKeepsItsTransfer
CHECK_DEADLOCK FALSE
