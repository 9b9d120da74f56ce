SPECIFICATION Spec
CONSTANTS
  a = a  b = b  c = c  x = x
  Items = {a}
  Consoles = {x}
  Requests = {r1, r2}
  Holders = {}
  ConsoleOf <- OneConsole
  KindOf <- MCKindOf
  StopOnFailure = {a}
  Secret = {a}
  MaxWaiting = 2
  MaxFinished = 1
  Obstacles = {}
  Faults = {"crash", "drop", "panic", "write"}
  Positions = {}
  HasFile = TRUE
  MaxBehind = 3
  NoItem = NoItem
INVARIANTS FileMatchesBook SecretIsThere
CHECK_DEADLOCK FALSE
