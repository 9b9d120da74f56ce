SPECIFICATION LiveSpec
CONSTANTS
  Devices = {1, 2}
  Consoles = {x, y}
  Settings = {s1}
  Entries = {e1}
  s1 = s1
  e1 = e1
  v1 = v1
  v2 = v2
  Values = {v1}
  Default = Default
  Null = Null
  Before <- OneSetUp
  MaxWall = 2
  MaxEvents = 2
  Faults = {"lost", "clock"}
INVARIANTS StampsAreUnique NoGhostChange
PROPERTIES NothingIsUndone Converges
