SPECIFICATION FairSpec
CONSTANTS
  s1 = s1  s2 = s2  s3 = s3
  Events = {e1}
  Users = {u1, u2}
  Sessions = {s1, s2, s3}
  Capacities = {1}
  NoCap = NoCap
  NoReq = NoReq
  NoUser = NoUser
  NoSession = NoSession
  MaxRequests = 4
  StampAt = "create"
INVARIANTS SeatsMatchParticipants OutboxTellsHistory OutboxInCommitOrder
PROPERTIES JoinWithinCapacity ImplementsLedger FirstSessionAnswered
CHECK_DEADLOCK FALSE
