SPECIFICATION Spec
CONSTANTS
  Users = {u1}
  Keys = {k1}
  NoKey = NoKey
  Calls = {c1, c2}
  Workers = {w1}
  Seats = 1
  Attempts = 2
  MaxStalls = 1
  Nobody = Nobody
  MaxFaults = 1
  MaxExpiries = 1
  MaxLeaves = 0
SYMMETRY Symmetry
PROPERTIES RerunIsConfirmed
CHECK_DEADLOCK FALSE
