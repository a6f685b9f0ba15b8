SPECIFICATION Spec
CONSTANTS
  Rows = {m1, m2, m3}
  Events = {e1, e2}
  EventTopics = {"created", "joined"}
  Relays = {r1, r2}
  Services = {}
  BatchSize = 2
  Window = 1
  MaxFaults = 1
  MaxStops = 1
  MaxRewinds = 0
SYMMETRY Symmetry
INVARIANTS SentIsPublished PublishedInOrder
CHECK_DEADLOCK FALSE
