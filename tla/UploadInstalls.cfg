SPECIFICATION Spec
CONSTANTS
  a = a  b = b  l1 = l1  l2 = l2  j1 = j1  j2 = j2  NoItem = NoItem  NoJob = NoJob  NoLoop = NoLoop  NoRoom = NoRoom
  Items = {a, b}
  Queued <- OneFile
  KindOf <- PkgThenInstall
  Tier <- UpdateFirst
  Loops = {l1, l2}
  Jobs = {j1, j2}
  MaxRecover = 1
  MaxEvents = 4
  AutoResume = TRUE
  ContinueOnFailure = FALSE
  Web = TRUE
  Persist = TRUE
  Ops = {"add", "start", "stop", "cancel", "retry", "retryInstall"}
  Faults = {"reload", "installFails", "otherDevice"}
INVARIANTS RunningHasRunner InstallsOnlyWhenAsked
CHECK_DEADLOCK FALSE
