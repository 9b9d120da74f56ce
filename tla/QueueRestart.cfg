SPECIFICATION Spec
CONSTANTS
  a = a  b = b  c = c  x = x
  Items = {a, b}
  Consoles = {x}
  Requests = {r1}
  Holders = {}
  ConsoleOf <- OneConsole
  KindOf <- MCKindOf
  StopOnFailure = {a}
  Secret = {a}
  MaxWaiting = 2
  MaxFinished = 1
  Obstacles = {}
  Faults = {"crash"}
  Positions = {0}
  HasFile = TRUE
  MaxBehind = 3
  NoItem = NoItem
INVARIANTS NeverRunsAgainByItself NoLostWakeup SecretIsThere
PROPERTIES FailureHoldsTheRest
CHECK_DEADLOCK FALSE
