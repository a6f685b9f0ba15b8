SPECIFICATION FairSpec
CONSTANTS
  Rows = {m1, m2}
  Events = {e1, e2}
  EventTopics = {"created", "joined"}
  Relays = {r1}
  Services = {"analytics"}
  BatchSize = 1
  Window = 1
  MaxFaults = 1
  MaxStops = 0
  MaxRewinds = 2
INVARIANTS DuplicatesOnlyBeyondWindow NothingIsSkipped
PROPERTIES FactsReachEveryService
CHECK_DEADLOCK FALSE
