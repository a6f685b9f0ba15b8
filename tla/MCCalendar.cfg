SPECIFICATION Spec
CONSTANTS
  e1 = e1  e2 = e2  e3 = e3
  BaseYear = 2024
  FirstWeekday = 1
  LastMonth = 14
  Offset = 3
  Events = {e1, e2, e3}
  At <- MCAt
INVARIANTS GridShowsPeriod EventsOnTheirDay
PROPERTIES PagingLeavesNoGap
