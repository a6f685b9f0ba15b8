SPECIFICATION FairSpec
CONSTANTS
  t1 = t1  t2 = t2  k1 = k1  k2 = k2  k3 = k3
  Tabs = {t1, t2}
  Requests = {k1, k2, k3}
  TabOf <- MCTabOf
  KindsOf <- MCKindsOf
  MaxSessions = 1
  MaxTokens = 2
  MaxReloads = 1
INVARIANTS OneRefreshPerToken
PROPERTIES RetryHasNewToken EveryRequestSettles
CHECK_DEADLOCK FALSE
