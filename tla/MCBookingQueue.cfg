SPECIFICATION Spec
CONSTANTS
  Users = {u1, u2}
  Keys = {k1}
  NoKey = NoKey
  Calls = {c1, c2}
  Workers = {w1, w2}
  Seats = 1
  Attempts = 2
  MaxStalls = 1
  Nobody = Nobody
  MaxFaults = 1
  MaxExpiries = 1
  MaxLeaves = 1
SYMMETRY Symmetry
INVARIANTS ConfirmedHoldsSeat JoinsAreSerial OneRequestPerUser
PROPERTIES ReleasesOnlyItsOwn
CHECK_DEADLOCK FALSE
