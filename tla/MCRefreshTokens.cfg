SPECIFICATION Spec
CONSTANTS
  Families = {f1}
  NoFamily = NoFamily
  Calls = {c1, c2}
  Grace = 0
  Margin = 1
  Retention = 1
  AccessTTL = 0
  RefreshTTL = 1
  MaxPairs = 3
  MaxFaults = 1
SYMMETRY Symmetry
INVARIANTS OneSessionPerFamily EndedSessionIsDead WinnerIsVisible
PROPERTIES NothingLostEarly ImplementsChain
CHECK_DEADLOCK FALSE
