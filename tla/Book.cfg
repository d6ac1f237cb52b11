SPECIFICATION Spec
CONSTANTS
  MaxPosition = 3
  GrossPct = 100
  MaxDrawdownPct = 20
  ThresholdPct = 80
  Budget <- MCBudget
  SortedIds <- MCSortedIds
  Signallers = {"A", "B"}
  Decoupled = {"A"}
  Hazarded = {"A"}
  Portfolio = "P"
  Targets = {1, 2}
  Envs <- MCEnvs
  Desks <- MCDesks
  MinShares = 1
  MinAge = 1
  HardAge = 3
  MaxHold = 2
  CloseAt = 9
  MaxNow = 4
  MaxRejects = 1
INVARIANTS
  BooksAgree
  ExitsNeverOvershoot
PROPERTIES
  BoundedHold
