------------------------------ MODULE Calendar ------------------------------
(***************************************************************************)
(* MyEventsCalendar.tsx: a month or a week of the user's events, the pages *)
(* before and after it, and the cell each event is shown in.               *)
(*                                                                         *)
(* Days are numbered from the first of January of BaseYear and months from *)
(* that January, both in the time zone of the browser; an event has an     *)
(* instant, in hours of UTC from the same origin.  External: date-fns.     *)
(* The time zone has a fixed offset: no summer time.                       *)
(***************************************************************************)
EXTENDS Integers, SequencesExt, Functions

CONSTANTS
  BaseYear,
  FirstWeekday,   \* weekday of day 0, Sunday being 0
  LastMonth,      \* bound: the months a user pages through are 1..LastMonth - 1
  Offset,         \* hours the browser's clock is ahead of UTC
  Events,
  At              \* instant of each event

ASSUME CalendarAssumption ==
  /\ BaseYear \in Nat /\ FirstWeekday \in 0..6 /\ LastMonth \in Nat \ {0, 1}
  /\ Offset \in -12..14
  /\ IsFiniteSet(Events) /\ At \in [Events -> Int]

VARIABLES
  events,        \* data of getMyCalendar, in the order of the server
  currentDate,   \* the day of currentDate
  viewMode

vars == <<events, currentDate, viewMode>>

(***************************************************************************)
(* date-fns                                                                *)
(***************************************************************************)
Leap(y) == y % 4 = 0 /\ (y % 100 # 0 \/ y % 400 = 0)

MonthLength(m) ==
  IF m % 12 = 1 THEN IF Leap(BaseYear + m \div 12) THEN 29 ELSE 28
  ELSE IF m % 12 \in {3, 5, 8, 10} THEN 30 ELSE 31

monthStart[m \in 0..LastMonth + 1] == IF m = 0 THEN 0 ELSE monthStart[m - 1] + MonthLength(m - 1)

Month(d) == CHOOSE m \in 0..LastMonth : monthStart[m] <= d /\ d < monthStart[m + 1]

Weekday(d) == (d + FirstWeekday) % 7

startOfWeek(d) == d - Weekday(d)

\* Mutant: weekStartsOn is given to startOfWeek only and the locale's Monday holds.
endOfWeek_Monday(d) == d + ((7 - Weekday(d)) % 7)

endOfWeek(d) == d + 6 - Weekday(d)

\* The same day of another month, or its last
addMonths(d, n) ==
  LET m == Month(d) + n
      day == d - monthStart[Month(d)]
  IN monthStart[m] + (IF day < MonthLength(m) THEN day ELSE MonthLength(m) - 1)

addWeeks(d, n) == d + 7 * n

(***************************************************************************)
(* The component                                                           *)
(***************************************************************************)
\* daysGrid
Grid(d, mode) ==
  LET m == Month(d) IN
  IF mode = "month"
    THEN startOfWeek(monthStart[m]) .. endOfWeek(monthStart[m + 1] - 1)
    ELSE startOfWeek(d) .. endOfWeek(d)

\* Mutant: the list as the server sent it.
sortedEvents_Unsorted(list) == list

\* A stable sort by time
sortedEvents(list) ==
  LET Before(i, j) == At[list[i]] < At[list[j]] \/ (At[list[i]] = At[list[j]] /\ i < j)
  IN [k \in DOMAIN list |->
        list[CHOOSE i \in DOMAIN list : Cardinality({j \in DOMAIN list : Before(j, i)}) = k - 1]]

\* Mutant: toISOString().slice(0, 10), the day in UTC.
DateKey_UTC(e) == At[e] \div 24

\* format(new Date(event.date), "yyyy-MM-dd")
DateKey(e) == (At[e] + Offset) \div 24

\* The events of a day, pushed one after the other
PushedTo(day, list) ==
  LET pushed[n \in 0..Len(list)] ==
        IF n = 0 THEN <<>>
        ELSE IF DateKey(list[n]) = day THEN Append(pushed[n - 1], list[n])
        ELSE pushed[n - 1]
  IN pushed[Len(list)]

groupedEvents(day) == PushedTo(day, sortedEvents(events))

\* Mutant: the month is compared with the one the grid begins in.
MonthCell_FirstWeek(day) ==
  [day |-> day, events |-> groupedEvents(day),
   outside |-> Month(day) # Month(startOfWeek(monthStart[Month(currentDate)]))]

\* A day of the month view; those of other months are dimmed.
MonthCell(day) ==
  [day |-> day, events |-> groupedEvents(day),
   outside |-> Month(day) % 12 # Month(currentDate) % 12]

WeekCell(day) == [day |-> day, events |-> groupedEvents(day), outside |-> FALSE]

\* The cells in the order they are laid out in, seven to a row
Cells ==
  LET days == Grid(currentDate, viewMode)
      first == CHOOSE x \in days : x - 1 \notin days
  IN [i \in 1..Cardinality(days) |->
        IF viewMode = "month" THEN MonthCell(first + i - 1) ELSE WeekCell(first + i - 1)]

\* Mutant: Date.setMonth, which carries the days a month does not have.
Turned_SetMonth(d, mode, n) ==
  IF mode = "month" THEN monthStart[Month(d) + n] + (d - monthStart[Month(d)]) ELSE addWeeks(d, n)

Turned(d, mode, n) == IF mode = "month" THEN addMonths(d, n) ELSE addWeeks(d, n)

InBounds(d) == monthStart[1] <= d /\ d < monthStart[LastMonth]

handlePrev ==
  /\ currentDate' = Turned(currentDate, viewMode, -1)
  /\ InBounds(currentDate')
  /\ UNCHANGED <<events, viewMode>>

handleNext ==
  /\ currentDate' = Turned(currentDate, viewMode, 1)
  /\ InBounds(currentDate')
  /\ UNCHANGED <<events, viewMode>>

setViewMode(mode) ==
  /\ viewMode' = mode
  /\ UNCHANGED <<events, currentDate>>

Lists == {list \in UNION {[1..n -> Events] : n \in 0..Cardinality(Events)} : IsInjective(list)}

\* An answer of getMyCalendar
Fetched ==
  /\ events' \in Lists
  /\ UNCHANGED <<currentDate, viewMode>>

Init ==
  /\ events = <<>>
  /\ currentDate \in {d \in 0..monthStart[LastMonth] : InBounds(d)}
  /\ viewMode = "month"

Next ==
  \/ handlePrev \/ handleNext
  \/ \E mode \in {"month", "week"} : setViewMode(mode)
  \/ Fetched

Spec == Init /\ [][Next]_vars

-----------------------------------------------------------------------------
(***************************************************************************)
(* Properties                                                              *)
(***************************************************************************)
\* The days of the period that a view is about, whatever the grid adds to it
Period(d, mode) ==
  IF mode = "month" THEN monthStart[Month(d)] .. monthStart[Month(d) + 1] - 1
  ELSE {x \in d-6..d+6 : \E k \in 0..6 : Weekday(d - k) = 0 /\ x \in d-k..d-k+6
                                        /\ \A h \in 0..k-1 : Weekday(d - h) # 0}

\* The rows of the grid are whole weeks under the names WEEK_DAYS, every day of
\* the period is in it once, and the days that are not dimmed are those of it.
GridShowsPeriod ==
  LET cells == Cells
      shown == [i \in DOMAIN cells |-> cells[i].day]
  IN
  /\ Len(cells) % 7 = 0
  /\ \A i \in DOMAIN cells : Weekday(shown[i]) = (i - 1) % 7
  /\ \A i \in 2..Len(cells) : shown[i] = shown[i - 1] + 1
  /\ {c.day : c \in {x \in ToSet(cells) : ~x.outside}} = Period(currentDate, viewMode)

\* An event is shown on the day it begins on by the browser's clock, from one
\* midnight to the next, once, and after the earlier events of that day.
EventsOnTheirDay ==
  LET Midnight(day) == 24 * day - Offset IN
  \A cell \in ToSet(Cells) :
    /\ ToSet(cell.events) = {e \in ToSet(events) : Midnight(cell.day) <= At[e] /\ At[e] < Midnight(cell.day + 1)}
    /\ \A k, l \in DOMAIN cell.events : k < l =>
         cell.events[k] # cell.events[l] /\ At[cell.events[k]] <= At[cell.events[l]]

\* Paging forward or back leaves no day between what was shown and what is
\* shown next: no event is passed over, from whatever day of whatever month.
PagingLeavesNoGap ==
  [][currentDate' # currentDate =>
       LET old == Grid(currentDate, viewMode)
           new == Grid(currentDate', viewMode')
       IN new # old /\ \E x \in old, y \in new : x - y \in -1..1]_vars
=============================================================================
