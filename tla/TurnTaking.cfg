SPECIFICATION LiveSpec
CONSTANTS
  Items = {i}
  Runs = {r1, r2}
  NoRun = NoRun
  TTL = 5
  RenewBy = 2
  MaxDelay = 1
  MaxRenewals = 1
  Faults = {"lateTimer", "lostRelease", "noAnswer"}
INVARIANTS TypeOK NeverTogether
PROPERTIES ConsoleComesFree TurnComes
