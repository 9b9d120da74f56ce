SPECIFICATION LiveSpec
CONSTANTS
  a = a  b = b  c = c  x = x
  Items = {a, b}
  Consoles = {x}
  Requests = {r1}
  Holders = {h}
  ConsoleOf <- OneConsole
  KindOf <- MCKindOf
  StopOnFailure = {a}
  Secret = {}
  MaxWaiting = 2
  MaxFinished = 1
  Obstacles = {"console"}
  Faults = {}
  Positions = {}
  HasFile = FALSE
  MaxBehind = 3
  NoItem = NoItem
INVARIANTS FinishedBound
PROPERTIES QueuedItemsMove StopsAreCarriedOut
CHECK_DEADLOCK FALSE
