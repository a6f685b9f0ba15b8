SPECIFICATION FairSpec
CONSTANTS
  Users = {u1, u2}
  Keys = {}
  NoKey = NoKey
  Calls = {c1, c2, c3}
  Workers = {w1}
  Seats = 1
  Attempts = 2
  MaxStalls = 1
  Nobody = Nobody
  MaxFaults = 0
  MaxExpiries = 1
  MaxLeaves = 0
PROPERTIES EveryJoinSettles
CHECK_DEADLOCK FALSE
