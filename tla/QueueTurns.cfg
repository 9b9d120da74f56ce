SPECIFICATION Spec
CONSTANTS
  a = a  b = b  c = c  x = x
  Items = {a, b}
  Consoles = {x}
  Requests = {r1}
  Holders = {h}
  ConsoleOf <- OneConsole
  KindOf <- MCKindOf
  StopOnFailure = {a}
  Secret = {}
  MaxWaiting = 2
  MaxFinished = 1
  Obstacles = {"other_work", "console", "console_task"}
  Faults = {"crash", "drop", "panic"}
  Positions = {0}
  HasFile = FALSE
  MaxBehind = 3
  NoItem = NoItem


PROPERTY TakesTurns StartsInOrder
INVARIANTS TypeOK RunningIsFollowed HoldExcludesRunning IntentOnlyWhileRunning
CHECK_DEADLOCK FALSE
