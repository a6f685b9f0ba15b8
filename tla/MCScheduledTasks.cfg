SPECIFICATION FairSpec
CONSTANTS
  Processes = {p1, p2}
  Jobs = {j1, j2}
  Rows = {r1, r2}
  Nobody = Nobody
  NoJob = NoJob
  Production = FALSE
  MaxStalls = 1
  MaxFaults = 2
INVARIANT HistoryAddsUp
PROPERTIES OutcomeIsTheTasks StaleRowsGo
