--------------------------- MODULE AlgorithmProofs ---------------------------
(***************************************************************************)
(* Proofs about the two parts of the repository that compute and store     *)
(* nothing: the calendar (Calendar) and the chess engine (ChessGame).      *)
(* They share no state; each half uses its own module only.                *)
(*                                                                         *)
(* Calendar, for any year, first weekday, time zone and set of events:     *)
(* whole weeks that show the month or the week they are about, paging      *)
(* without a gap, and each event once, on its day and in order.            *)
(*                                                                         *)
(* Chess, for any legal starting positions and any length of game: no king *)
(* is ever left to be taken, what attacks is what captures, castling is    *)
(* two legal steps of the king, the game ends as the rules say, and the    *)
(* text of a move names one move.                                          *)
(***************************************************************************)
EXTENDS Calendar, ChessGame, FiniteSetTheorems, WellFoundedInduction, TLAPS

(***************************************************************************)
(* Induction over data: a property of numbers that fails has a least       *)
(* number it fails for.                                                    *)
(***************************************************************************)
LEMMA LeastOf ==
  ASSUME NEW T \in SUBSET Nat, T # {}
  PROVE  \E x \in T : \A y \in T : x <= y
  <1>1. IsWellFoundedOn({ss \in Nat \X Nat : ss[1] < ss[2]}, Nat)
    BY NatLessThanWellFounded DEF OpToRel
  <1>2. PICK x \in T : \A y \in T : ~(<<y, x>> \in {ss \in Nat \X Nat : ss[1] < ss[2]})
    BY <1>1, WFMin
  <1>3. ASSUME NEW y \in T PROVE x <= y
    <2>1. x \in Nat /\ y \in Nat
      OBVIOUS
    <2>2. CASE y < x
      <3>1. <<y, x>> \in {ss \in Nat \X Nat : ss[1] < ss[2]}
        BY <2>1, <2>2
      <3>2. QED
        BY <1>2, <3>1
    <2>3. QED
      BY <2>1, <2>2
  <1>4. QED
    BY <1>3

(***************************************************************************)
(* Months                                                                  *)
(***************************************************************************)
Months == 0..LastMonth + 1

LEMMA LastMonthType == LastMonth \in Nat /\ LastMonth >= 2 /\ BaseYear \in Nat
                         /\ FirstWeekday \in 0..6
  BY CalendarAssumption DEF CalendarAssumption

LEMMA MonthLengthType == \A m \in Nat : MonthLength(m) \in 28..31
  BY DEF MonthLength

\* A function f that adds up the lengths of n months
Adds(f, n) == f = [m \in 0..n |-> IF m = 0 THEN 0 ELSE f[m - 1] + MonthLength(m - 1)]

LEMMA AddsExists ==
  ASSUME NEW n \in Nat
  PROVE  \E f : Adds(f, n)
  <1>1. PICK Bad : Bad = {k \in Nat : ~\E f : Adds(f, k)}
    OBVIOUS
  <1>2. SUFFICES ASSUME Bad # {} PROVE FALSE
    BY <1>1
  <1>3. PICK k \in Bad : \A y \in Bad : k <= y
    BY <1>1, <1>2, LeastOf
  <1>4. Adds([m \in 0..0 |-> 0], 0)
    BY DEF Adds
  <1>5. k \in Nat /\ k # 0 /\ ~\E f : Adds(f, k)
    BY <1>1, <1>4
  <1>6. k - 1 \in Nat /\ k - 1 \notin Bad
    BY <1>3, <1>5
  <1>7. PICK f : Adds(f, k - 1)
    BY <1>1, <1>6
  <1>8. Adds([m \in 0..k |-> IF m < k THEN f[m] ELSE f[k - 1] + MonthLength(k - 1)], k)
    BY <1>5, <1>6, <1>7 DEF Adds
  <1>9. QED
    BY <1>5, <1>8

LEMMA monthStartIs ==
  monthStart = [m \in Months |-> IF m = 0 THEN 0 ELSE monthStart[m - 1] + MonthLength(m - 1)]
  <1>1. LastMonth + 1 \in Nat
    BY LastMonthType
  <1>2. PICK f : f = [m \in 0..LastMonth + 1 |-> IF m = 0 THEN 0 ELSE f[m - 1] + MonthLength(m - 1)]
    BY <1>1, AddsExists DEF Adds
  <1>3. QED
    BY <1>2 DEF monthStart, Months

\* Each month begins where the one before it ends.
LEMMA NextMonth ==
  /\ monthStart[0] = 0
  /\ \A m \in 0..LastMonth : monthStart[m + 1] = monthStart[m] + MonthLength(m)
  <1>1. LastMonth \in Nat
    BY LastMonthType
  <1>2. 0 \in Months /\ \A m \in 0..LastMonth : m + 1 \in Months /\ m + 1 # 0 /\ m + 1 - 1 = m
    BY <1>1 DEF Months
  <1>3. PICK f : f = monthStart /\ f = [m \in Months |-> IF m = 0 THEN 0 ELSE f[m - 1] + MonthLength(m - 1)]
    BY monthStartIs
  <1>4. f[0] = 0
    BY <1>2, <1>3
  <1>5. ASSUME NEW m \in 0..LastMonth PROVE f[m + 1] = f[m] + MonthLength(m)
    BY <1>2, <1>3
  <1>6. QED
    BY <1>3, <1>4, <1>5

LEMMA monthStartType == \A m \in Months : monthStart[m] \in Nat
  <1>1. PICK Bad : Bad = {k \in Months : monthStart[k] \notin Nat}
    OBVIOUS
  <1>2. SUFFICES ASSUME Bad # {} PROVE FALSE
    BY <1>1
  <1>3. Bad \in SUBSET Nat
    BY <1>1, LastMonthType DEF Months
  <1>4. PICK k \in Bad : \A y \in Bad : k <= y
    BY <1>2, <1>3, LeastOf
  <1>5. k # 0 /\ k \in Months
    BY <1>1, NextMonth
  <1>6. k - 1 \in 0..LastMonth /\ k - 1 \notin Bad /\ k - 1 \in Months
    BY <1>3, <1>4, <1>5, LastMonthType DEF Months
  <1>7. monthStart[k - 1] \in Nat
    BY <1>1, <1>6
  <1>8. monthStart[k] = monthStart[k - 1] + MonthLength(k - 1) /\ MonthLength(k - 1) \in Nat
    <2>1. k - 1 + 1 = k /\ k - 1 \in Nat
      BY <1>5, <1>6 DEF Months
    <2>2. monthStart[k - 1 + 1] = monthStart[k - 1] + MonthLength(k - 1)
      BY <1>6, NextMonth
    <2>3. QED
      BY <2>1, <2>2, MonthLengthType
  <1>9. QED
    BY <1>1, <1>7, <1>8

\* Later months begin later.
LEMMA LaterMonth ==
  ASSUME NEW a \in Months, NEW b \in Months, a < b
  PROVE  monthStart[a] + 28 <= monthStart[b]
  <1>1. PICK Bad : Bad = {k \in Nat : k \in Months /\ a < k /\ ~(monthStart[a] + 28 <= monthStart[k])}
    OBVIOUS
  <1>2. a \in Nat /\ b \in Nat
    BY LastMonthType DEF Months
  <1>3. SUFFICES ASSUME Bad # {} PROVE FALSE
    BY <1>1, <1>2
  <1>4. Bad \in SUBSET Nat
    BY <1>1
  <1>5. PICK k \in Bad : \A y \in Bad : k <= y
    BY <1>3, <1>4, LeastOf
  <1>6. k \in Nat /\ k \in Months /\ a < k /\ ~(monthStart[a] + 28 <= monthStart[k])
    BY <1>1
  <1>7. k - 1 \in Nat /\ k - 1 \in 0..LastMonth /\ k - 1 \in Months /\ a <= k - 1 /\ k - 1 + 1 = k
    BY <1>2, <1>6, LastMonthType DEF Months
  <1>8. monthStart[k] = monthStart[k - 1] + MonthLength(k - 1) /\ MonthLength(k - 1) \in 28..31
    <2>1. monthStart[k - 1 + 1] = monthStart[k - 1] + MonthLength(k - 1)
      BY <1>7, NextMonth
    <2>2. QED
      BY <1>7, <2>1, MonthLengthType
  <1>9. monthStart[a] <= monthStart[k - 1]
    <2>1. monthStart[a] \in Nat /\ monthStart[k - 1] \in Nat
      BY <1>7, monthStartType
    <2>2. CASE a = k - 1
      BY <2>1, <2>2
    <2>3. CASE a # k - 1
      <3>1. k - 1 \notin Bad /\ a < k - 1
        BY <1>2, <1>5, <1>7, <2>3
      <3>2. QED
        BY <1>1, <1>7, <2>1, <3>1
    <2>4. QED
      BY <2>2, <2>3
  <1>10. monthStart[a] \in Nat /\ monthStart[k - 1] \in Nat /\ monthStart[k] \in Nat
    BY <1>6, <1>7, monthStartType
  <1>11. QED
    BY <1>6, <1>8, <1>9, <1>10

\* A day is in the one month that has begun and not ended.
LEMMA MonthOf ==
  ASSUME NEW d \in Int, NEW m \in 0..LastMonth, monthStart[m] <= d, d < monthStart[m + 1]
  PROVE  Month(d) = m
  <1>1. ASSUME NEW n \in 0..LastMonth, monthStart[n] <= d, d < monthStart[n + 1]
        PROVE  n = m
    <2>1. m \in Months /\ n \in Months /\ m + 1 \in Months /\ n + 1 \in Months /\ m \in Nat /\ n \in Nat
      BY LastMonthType DEF Months
    <2>2. /\ monthStart[m] \in Nat /\ monthStart[n] \in Nat
          /\ monthStart[m + 1] \in Nat /\ monthStart[n + 1] \in Nat
      BY <2>1, monthStartType
    <2>3. CASE m < n
      <3>1. m + 1 = n \/ m + 1 < n
        BY <2>1, <2>3
      <3>2. monthStart[m + 1] <= monthStart[n]
        BY <2>1, <2>2, <3>1, LaterMonth
      <3>3. QED
        BY <1>1, <2>2, <3>2
    <2>4. CASE n < m
      <3>1. n + 1 = m \/ n + 1 < m
        BY <2>1, <2>4
      <3>2. monthStart[n + 1] <= monthStart[m]
        BY <2>1, <2>2, <3>1, LaterMonth
      <3>3. QED
        BY <1>1, <2>2, <3>2
    <2>5. QED
      BY <2>1, <2>3, <2>4
  <1>2. QED
    BY <1>1 DEF Month

\* A day within the bounds has a month.
LEMMA MonthExists ==
  ASSUME NEW d \in Int, NEW hi \in 0..LastMonth + 1, 0 <= d, d < monthStart[hi]
  PROVE  \E m \in 0..LastMonth : m < hi /\ monthStart[m] <= d /\ d < monthStart[m + 1]
  <1>1. PICK T : T = {k \in Nat : k \in Months /\ d < monthStart[k]}
    OBVIOUS
  <1>2. hi \in T /\ T \in SUBSET Nat
    BY <1>1, LastMonthType DEF Months
  <1>3. PICK k \in T : \A y \in T : k <= y
    BY <1>2, LeastOf
  <1>4. k \in Nat /\ k \in Months /\ d < monthStart[k] /\ k <= hi
    BY <1>1, <1>2, <1>3
  <1>5. k # 0
    BY <1>4, NextMonth
  <1>6. k - 1 \in Nat /\ k - 1 \in Months /\ k - 1 \notin T /\ k - 1 \in 0..LastMonth /\ k - 1 + 1 = k
    BY <1>2, <1>3, <1>4, <1>5, LastMonthType DEF Months
  <1>7. monthStart[k - 1] \in Nat /\ ~(d < monthStart[k - 1])
    BY <1>1, <1>6, monthStartType
  <1>8. monthStart[k - 1] <= d /\ k - 1 < hi
    BY <1>4, <1>7
  <1>9. QED
    BY <1>4, <1>6, <1>8

(***************************************************************************)
(* Weeks                                                                   *)
(***************************************************************************)
LEMMA WeekOf ==
  ASSUME NEW d \in Int
  PROVE  /\ Weekday(d) \in 0..6
         /\ startOfWeek(d) \in Int /\ startOfWeek(d) = d - Weekday(d)
         /\ endOfWeek(d) \in Int /\ endOfWeek(d) = d + 6 - Weekday(d)
         /\ \A i \in Int : Weekday(startOfWeek(d) + i) = i % 7
  <1>1. FirstWeekday \in 0..6
    BY LastMonthType
  <1>2. PICK n \in Int : n = d + FirstWeekday
    BY <1>1
  <1>3. PICK w \in Int : w = n % 7 /\ w \in 0..6
    BY <1>2
  <1>4. Weekday(d) = w
    BY <1>2, <1>3 DEF Weekday
  <1>5. ASSUME NEW i \in Int PROVE Weekday(d - w + i) = i % 7
    <2>1. (n - w + i) % 7 = i % 7
      BY <1>3
    <2>2. d - w + i + FirstWeekday = n - w + i
      BY <1>1, <1>2, <1>3
    <2>3. QED
      BY <2>1, <2>2 DEF Weekday
  <1>6. startOfWeek(d) = d - w /\ endOfWeek(d) = d + 6 - w
    BY <1>4 DEF startOfWeek, endOfWeek
  <1>7. \A i \in Int : Weekday(startOfWeek(d) + i) = i % 7
    BY <1>5, <1>6
  <1>8. QED
    BY <1>3, <1>4, <1>6, <1>7

\* From the beginning of one week to the end of a week it is whole weeks.
LEMMA WholeWeeks ==
  ASSUME NEW x \in Int, NEW y \in Int, x <= y
  PROVE  /\ startOfWeek(x) <= x /\ y <= endOfWeek(y)
         /\ x - 6 <= startOfWeek(x) /\ endOfWeek(y) <= y + 6
         /\ (endOfWeek(y) - startOfWeek(x) + 1) % 7 = 0
  <1>0. /\ Weekday(x) \in 0..6 /\ startOfWeek(x) = x - Weekday(x)
        /\ Weekday(y) \in 0..6 /\ startOfWeek(y) = y - Weekday(y)
        /\ endOfWeek(y) = y + 6 - Weekday(y)
    BY WeekOf
  <1>1. PICK a \in Int : a = startOfWeek(x) /\ a <= x /\ x - 6 <= a
    BY <1>0
  <1>2. PICK b \in Int : b = startOfWeek(y) /\ b <= y /\ y - 6 <= b /\ endOfWeek(y) = b + 6
    BY <1>0
  <1>3. Weekday(b) = 0
    <2>1. Weekday(b + 0) = 0 % 7
      BY <1>2, WeekOf
    <2>2. QED
      BY <1>2, <2>1
  <1>4. Weekday(a + (b - a)) = (b - a) % 7
    BY <1>1, <1>2, WeekOf
  <1>5. (b - a) % 7 = 0
    BY <1>1, <1>2, <1>3, <1>4
  <1>6. (b + 6 - a + 1) % 7 = 0
    BY <1>1, <1>2, <1>5
  <1>7. QED
    BY <1>1, <1>2, <1>6

(***************************************************************************)
(* The inductive invariant                                                 *)
(***************************************************************************)
DateInv == currentDate \in Int /\ InBounds(currentDate) /\ viewMode \in {"month", "week"}

\* The month that a day within the bounds is in, and its neighbours
LEMMA MonthInBounds ==
  ASSUME NEW d \in Int, InBounds(d)
  PROVE  \E m \in 1..LastMonth - 1 :
           /\ Month(d) = m /\ monthStart[m] <= d /\ d < monthStart[m + 1]
           /\ m - 1 \in 0..LastMonth /\ m \in 0..LastMonth /\ m + 1 \in 0..LastMonth
           /\ \A k \in {m - 1, m, m + 1, m + 2} : k \in Months /\ monthStart[k] \in Nat
           /\ monthStart[m - 1] + 28 <= monthStart[m]
           /\ monthStart[m] + 28 <= monthStart[m + 1]
           /\ monthStart[m + 1] + 28 <= monthStart[m + 2]
  <1>1. 0 \in Months /\ 1 \in Months /\ LastMonth \in Months /\ LastMonth \in Nat /\ LastMonth >= 2
    BY LastMonthType DEF Months
  <1>2. monthStart[1] \in Nat /\ monthStart[1] <= d /\ d < monthStart[LastMonth]
    BY <1>1, monthStartType DEF InBounds
  <1>3. PICK m \in 0..LastMonth : m < LastMonth /\ monthStart[m] <= d /\ d < monthStart[m + 1]
    BY <1>1, <1>2, MonthExists
  <1>4. m # 0
    BY <1>2, <1>3
  <1>5. m \in 1..LastMonth - 1 /\ \A k \in {m - 1, m, m + 1, m + 2} : k \in Months
    BY <1>1, <1>3, <1>4 DEF Months
  <1>6. Month(d) = m
    BY <1>3, MonthOf
  <1>7. /\ m - 1 \in Months /\ m \in Months /\ m + 1 \in Months /\ m + 2 \in Months
        /\ m - 1 < m /\ m < m + 1 /\ m + 1 < m + 2
    BY <1>5
  <1>8. /\ monthStart[m - 1] + 28 <= monthStart[m]
        /\ monthStart[m] + 28 <= monthStart[m + 1]
        /\ monthStart[m + 1] + 28 <= monthStart[m + 2]
    BY <1>7, LaterMonth
  <1>9. QED
    BY <1>1, <1>3, <1>5, <1>6, <1>8, monthStartType

\* A month on or back, the day being cut to the length of the month
LEMMA AddMonth ==
  ASSUME NEW d \in Int, InBounds(d), NEW n \in {-1, 1}
  PROVE  /\ addMonths(d, n) \in Int
         /\ monthStart[Month(d) + n] <= addMonths(d, n)
         /\ addMonths(d, n) < monthStart[Month(d) + n + 1]
  <1>1. PICK m \in 1..LastMonth - 1 :
           /\ Month(d) = m /\ monthStart[m] <= d /\ d < monthStart[m + 1]
           /\ m + n \in 0..LastMonth /\ m + n \in Nat
           /\ monthStart[m] \in Nat /\ monthStart[m + n] \in Nat /\ monthStart[m + n + 1] \in Nat
    <2>1. PICK m \in 1..LastMonth - 1 :
           /\ Month(d) = m /\ monthStart[m] <= d /\ d < monthStart[m + 1]
           /\ m - 1 \in 0..LastMonth /\ m + 1 \in 0..LastMonth
           /\ \A k \in {m - 1, m, m + 1, m + 2} : monthStart[k] \in Nat
      BY MonthInBounds
    <2>2. m \in Nat /\ m - 1 + 1 = m /\ m + 1 + 1 = m + 2 /\ m + (-1) = m - 1 /\ m - 1 \in Nat
      BY LastMonthType
    <2>3. CASE n = 1
      BY <2>1, <2>2, <2>3
    <2>4. CASE n = -1
      BY <2>1, <2>2, <2>4
    <2>5. QED
      BY <2>3, <2>4
  <1>2. monthStart[m + n + 1] = monthStart[m + n] + MonthLength(m + n)
          /\ MonthLength(m + n) \in 28..31
    BY <1>1, NextMonth, MonthLengthType
  <1>3. PICK day \in Nat : day = d - monthStart[m]
    BY <1>1
  <1>4. addMonths(d, n) = monthStart[m + n] + (IF day < MonthLength(m + n) THEN day ELSE MonthLength(m + n) - 1)
    BY <1>1, <1>3 DEF addMonths
  <1>5. QED
    BY <1>1, <1>2, <1>3, <1>4

(***************************************************************************)
(* The grid                                                                *)
(***************************************************************************)
\* The grid of a view goes from the week of its first day to that of its last.
LEMMA GridOf ==
  ASSUME NEW d \in Int, InBounds(d), NEW mode \in {"month", "week"}
  PROVE  \E x, y \in Int :
           /\ x <= y /\ Grid(d, mode) = startOfWeek(x) .. endOfWeek(y)
           /\ IF mode = "month" THEN x = monthStart[Month(d)] /\ y = monthStart[Month(d) + 1] - 1
                                ELSE x = d /\ y = d
  <1>1. CASE mode = "month"
    <2>1. PICK m \in 1..LastMonth - 1 :
            /\ Month(d) = m /\ monthStart[m] \in Nat /\ monthStart[m + 1] \in Nat
            /\ monthStart[m] + 28 <= monthStart[m + 1]
      BY MonthInBounds
    <2>2. monthStart[m] <= monthStart[m + 1] - 1
      BY <2>1
    <2>3. QED
      BY <1>1, <2>1, <2>2 DEF Grid
  <1>2. CASE mode = "week"
    BY <1>2 DEF Grid
  <1>3. QED
    BY <1>1, <1>2

\* The cell of a day in the view there is
CellOf(day) == IF viewMode = "month" THEN MonthCell(day) ELSE WeekCell(day)

\* The cells are those of the days of the grid, one after the other.
LEMMA CellsOf ==
  ASSUME NEW lo \in Int, NEW hi \in Int, lo <= hi, Grid(currentDate, viewMode) = lo..hi
  PROVE  /\ DOMAIN Cells = 1..hi - lo + 1 /\ Len(Cells) = hi - lo + 1 /\ hi - lo + 1 \in Nat
         /\ \A i \in 1..hi - lo + 1 : Cells[i] = CellOf(lo + i - 1)
         /\ ToSet(Cells) = {CellOf(day) : day \in lo..hi}
  <1>1. PICK days : days = Grid(currentDate, viewMode) /\ days = lo..hi
    OBVIOUS
  <1>2. Cardinality(days) = hi - lo + 1 /\ hi - lo + 1 \in Nat
    BY <1>1, FS_Interval
  <1>3. (CHOOSE x \in days : x - 1 \notin days) = lo
    <2>1. lo \in days /\ lo - 1 \notin days
      BY <1>1
    <2>2. \A x \in days : x - 1 \notin days => x = lo
      BY <1>1
    <2>3. QED
      BY <2>1, <2>2
  <1>4. PICK n \in Nat : n = hi - lo + 1
    BY <1>2
  <1>5. Cells = [i \in 1..n |-> IF viewMode = "month" THEN MonthCell(lo + i - 1)
                                ELSE WeekCell(lo + i - 1)]
    BY <1>1, <1>2, <1>3, <1>4 DEF Cells
  <1>6. DOMAIN Cells = 1..n /\ Len(Cells) = n /\ \A i \in 1..n : Cells[i] = CellOf(lo + i - 1)
    BY <1>5 DEF CellOf
  <1>7. ToSet(Cells) = {Cells[i] : i \in 1..n}
    BY <1>6 DEF ToSet
  <1>8. {Cells[i] : i \in 1..n} = {CellOf(day) : day \in lo..hi}
    <2>1. ASSUME NEW i \in 1..n PROVE lo + i - 1 \in lo..hi
      BY <1>4
    <2>2. ASSUME NEW day \in lo..hi PROVE day - lo + 1 \in 1..n /\ lo + (day - lo + 1) - 1 = day
      BY <1>4
    <2>3. \A day \in lo..hi : CellOf(day) = Cells[day - lo + 1]
      BY <1>6, <2>2
    <2>4. ASSUME NEW i \in 1..n PROVE Cells[i] \in {CellOf(day) : day \in lo..hi}
      BY <1>6, <2>1
    <2>5. ASSUME NEW day \in lo..hi PROVE CellOf(day) \in {Cells[i] : i \in 1..n}
      BY <2>2, <2>3
    <2>6. QED
      BY <2>4, <2>5
  <1>9. QED
    BY <1>4, <1>6, <1>7, <1>8

LEMMA CellFields ==
  ASSUME NEW day
  PROVE  /\ CellOf(day).day = day /\ CellOf(day).events = groupedEvents(day)
         /\ CellOf(day).outside = IF viewMode = "month"
                                    THEN Month(day) % 12 # Month(currentDate) % 12 ELSE FALSE
  BY DEF CellOf, MonthCell, WeekCell

\* The week of a day, looked for in either direction
LEMMA WeekPeriod ==
  ASSUME NEW d \in Int
  PROVE  Period(d, "week") = startOfWeek(d) .. endOfWeek(d)
  <1>1. PICK w \in 0..6 : /\ w = Weekday(d) /\ startOfWeek(d) = d - w /\ endOfWeek(d) = d + 6 - w
                          /\ \A i \in Int : Weekday(d - w + i) = i % 7
    BY WeekOf
  <1>2. ASSUME NEW h \in 0..6 PROVE Weekday(d - h) = (w - h) % 7
    <2>1. d - h = d - w + (w - h) /\ w - h \in Int
      OBVIOUS
    <2>2. QED
      BY <1>1, <2>1
  <1>3. ASSUME NEW h \in 0..6 PROVE Weekday(d - h) = 0 <=> h = w
    BY <1>2
  <1>4. ASSUME NEW x \in Int
        PROVE  (x \in d-6..d+6 /\ \E k \in 0..6 : Weekday(d - k) = 0 /\ x \in d-k..d-k+6
                                                /\ \A h \in 0..k-1 : Weekday(d - h) # 0)
                 <=> x \in d-w..d+6-w
    <2>1. ASSUME NEW k \in 0..6, Weekday(d - k) = 0, x \in d-k..d-k+6 PROVE x \in d-w..d+6-w
      BY <1>3, <2>1
    <2>2. ASSUME x \in d-w..d+6-w
          PROVE  /\ x \in d-6..d+6 /\ Weekday(d - w) = 0 /\ x \in d-w..d-w+6
                 /\ \A h \in 0..w-1 : Weekday(d - h) # 0
      BY <1>3, <2>2
    <2>3. QED
      BY <2>1, <2>2
  <1>5. PICK S : S = Period(d, "week")
    OBVIOUS
  <1>6. S = {x \in d-6..d+6 : \E k \in 0..6 : Weekday(d - k) = 0 /\ x \in d-k..d-k+6
                                                /\ \A h \in 0..k-1 : Weekday(d - h) # 0}
    BY <1>5 DEF Period
  <1>7. ASSUME NEW x \in S PROVE x \in Int
    BY <1>6
  <1>8. ASSUME NEW x \in S PROVE x \in d-w..d+6-w
    BY <1>4, <1>6, <1>7
  <1>9. ASSUME NEW x \in d-w..d+6-w PROVE x \in S
    <2>1. x \in Int
      OBVIOUS
    <2>2. QED
      BY <1>4, <1>6, <2>1
  <1>10. S = d-w..d+6-w
    BY <1>8, <1>9
  <1>11. QED
    BY <1>1, <1>5, <1>10

\* Of the days in the grid of a month those are in the month that are in its
\* period: the months beside it are other ones even modulo twelve.
LEMMA MonthPeriod ==
  ASSUME NEW d \in Int, InBounds(d), NEW day \in Grid(d, "month")
  PROVE  Month(day) % 12 = Month(d) % 12 <=> day \in Period(d, "month")
  <1>1. PICK m \in 1..LastMonth - 1 :
           /\ Month(d) = m /\ monthStart[m] <= d /\ d < monthStart[m + 1]
           /\ m - 1 \in 0..LastMonth /\ m \in 0..LastMonth /\ m + 1 \in 0..LastMonth
           /\ \A k \in {m - 1, m, m + 1, m + 2} : k \in Months /\ monthStart[k] \in Nat
           /\ monthStart[m - 1] + 28 <= monthStart[m]
           /\ monthStart[m] + 28 <= monthStart[m + 1]
           /\ monthStart[m + 1] + 28 <= monthStart[m + 2]
    BY MonthInBounds
  <1>2. m \in Nat /\ m - 1 + 1 = m /\ m + 1 + 1 = m + 2
    BY LastMonthType
  <1>3. Grid(d, "month") = startOfWeek(monthStart[m]) .. endOfWeek(monthStart[m + 1] - 1)
    BY <1>1 DEF Grid
  <1>4. day \in Int /\ monthStart[m] - 6 <= day /\ day < monthStart[m + 1] + 6
    <2>1. /\ monthStart[m] - 6 <= startOfWeek(monthStart[m])
          /\ endOfWeek(monthStart[m + 1] - 1) <= monthStart[m + 1] - 1 + 6
          /\ startOfWeek(monthStart[m]) \in Int /\ endOfWeek(monthStart[m + 1] - 1) \in Int
      <3>1. PICK a \in Int, b \in Int : a = monthStart[m] /\ b = monthStart[m + 1] - 1 /\ a <= b
        BY <1>1
      <3>2. /\ a - 6 <= startOfWeek(a) /\ endOfWeek(b) <= b + 6
            /\ startOfWeek(a) \in Int /\ endOfWeek(b) \in Int
        BY <3>1, WholeWeeks, WeekOf
      <3>3. QED
        BY <3>1, <3>2
    <2>2. PICK a \in Int, b \in Int : a = startOfWeek(monthStart[m]) /\ b = endOfWeek(monthStart[m + 1] - 1)
      BY <2>1
    <2>3. monthStart[m] \in Nat /\ monthStart[m + 1] \in Nat
      BY <1>1
    <2>4. day \in a..b
      BY <1>3, <2>2
    <2>5. QED
      BY <2>1, <2>2, <2>3, <2>4
  <1>5. Period(d, "month") = monthStart[m] .. monthStart[m + 1] - 1
    BY <1>1 DEF Period
  <1>6. CASE day < monthStart[m]
    <2>1. Month(day) = m - 1
      BY <1>1, <1>2, <1>4, <1>6, MonthOf
    <2>2. (m - 1) % 12 # m % 12
      BY <1>2
    <2>3. QED
      BY <1>1, <1>5, <1>6, <2>1, <2>2
  <1>7. CASE monthStart[m] <= day /\ day < monthStart[m + 1]
    <2>1. Month(day) = m
      BY <1>1, <1>4, <1>7, MonthOf
    <2>2. QED
      BY <1>1, <1>4, <1>5, <1>7, <2>1
  <1>8. CASE monthStart[m + 1] <= day
    <2>1. Month(day) = m + 1
      BY <1>1, <1>2, <1>4, <1>8, MonthOf
    <2>2. (m + 1) % 12 # m % 12
      BY <1>2
    <2>3. QED
      BY <1>1, <1>5, <1>8, <2>1, <2>2
  <1>9. QED
    BY <1>1, <1>4, <1>6, <1>7, <1>8

LEMMA ShowsPeriod ==
  ASSUME DateInv
  PROVE  GridShowsPeriod
  <1>1. currentDate \in Int /\ InBounds(currentDate) /\ viewMode \in {"month", "week"}
    BY DEF DateInv
  <1>2. PICK x \in Int, y \in Int :
           /\ x <= y /\ Grid(currentDate, viewMode) = startOfWeek(x) .. endOfWeek(y)
           /\ IF viewMode = "month"
                THEN x = monthStart[Month(currentDate)] /\ y = monthStart[Month(currentDate) + 1] - 1
                ELSE x = currentDate /\ y = currentDate
    BY <1>1, GridOf
  <1>3. PICK lo \in Int, hi \in Int :
           /\ lo = startOfWeek(x) /\ hi = endOfWeek(y) /\ lo <= x /\ y <= hi /\ lo <= hi
           /\ (hi - lo + 1) % 7 = 0 /\ Grid(currentDate, viewMode) = lo..hi
    <2>1. startOfWeek(x) \in Int /\ endOfWeek(y) \in Int
      BY WeekOf
    <2>2. /\ startOfWeek(x) <= x /\ y <= endOfWeek(y)
          /\ (endOfWeek(y) - startOfWeek(x) + 1) % 7 = 0
      BY <1>2, WholeWeeks
    <2>3. PICK lo \in Int, hi \in Int : lo = startOfWeek(x) /\ hi = endOfWeek(y)
      BY <2>1
    <2>4. lo <= x /\ y <= hi /\ (hi - lo + 1) % 7 = 0 /\ Grid(currentDate, viewMode) = lo..hi
      BY <1>2, <2>2, <2>3
    <2>5. lo <= hi
      BY <1>2, <2>4
    <2>6. QED
      BY <2>3, <2>4, <2>5
  <1>4. \A i \in Int : Weekday(lo + i) = i % 7
    BY <1>3, WeekOf
  <1>5. PICK n \in Nat : n = hi - lo + 1
    BY <1>3
  <1>6. /\ DOMAIN Cells = 1..n /\ Len(Cells) = n
        /\ \A i \in 1..n : Cells[i] = CellOf(lo + i - 1) /\ Cells[i].day = lo + i - 1
        /\ ToSet(Cells) = {CellOf(day) : day \in lo..hi}
    BY <1>3, <1>5, CellsOf, CellFields
  <1>7. Len(Cells) % 7 = 0
    BY <1>3, <1>5, <1>6
  <1>8. ASSUME NEW i \in 1..n PROVE Weekday(lo + i - 1) = (i - 1) % 7
    <2>1. lo + (i - 1) = lo + i - 1 /\ i - 1 \in Int
      BY <1>3
    <2>2. QED
      BY <1>4, <2>1
  <1>9. \A i \in 2..n : lo + i - 1 = lo + (i - 1) - 1 + 1 /\ i - 1 \in 1..n /\ i \in 1..n
    BY <1>3, <1>5
  <1>10. {c.day : c \in {z \in ToSet(Cells) : ~z.outside}} = {day \in lo..hi : ~CellOf(day).outside}
    <2>1. ASSUME NEW day \in lo..hi, ~CellOf(day).outside
          PROVE  day \in {c.day : c \in {z \in ToSet(Cells) : ~z.outside}}
      <3>1. CellOf(day) \in {z \in ToSet(Cells) : ~z.outside} /\ CellOf(day).day = day
        BY <1>6, <2>1, CellFields
      <3>2. QED
        BY <3>1
    <2>2. ASSUME NEW c \in ToSet(Cells), ~c.outside
          PROVE  c.day \in {day \in lo..hi : ~CellOf(day).outside}
      <3>1. PICK day \in lo..hi : c = CellOf(day)
        BY <1>6
      <3>2. c.day = day
        BY <3>1, CellFields
      <3>3. QED
        BY <2>2, <3>1, <3>2
    <2>3. QED
      BY <2>1, <2>2
  <1>11. {day \in lo..hi : ~CellOf(day).outside} = Period(currentDate, viewMode)
    <2>1. CASE viewMode = "month"
      <3>1. \A day \in lo..hi : ~CellOf(day).outside <=> day \in Period(currentDate, "month")
        BY <1>1, <1>3, <2>1, MonthPeriod, CellFields
      <3>2. Period(currentDate, "month") \subseteq lo..hi
        <4>1. Period(currentDate, "month") = x..y
          BY <1>2, <2>1 DEF Period
        <4>2. QED
          BY <1>3, <4>1
      <3>3. QED
        BY <2>1, <3>1, <3>2
    <2>2. CASE viewMode = "week"
      <3>1. Period(currentDate, "week") = lo..hi
        BY <1>1, <1>2, <1>3, <2>2, WeekPeriod
      <3>2. \A day : ~CellOf(day).outside
        BY <2>2, CellFields
      <3>3. QED
        BY <2>2, <3>1, <3>2
    <2>3. QED
      BY <1>1, <2>1, <2>2
  <1>12. PICK cells : cells = Cells
    OBVIOUS
  <1>13. PICK shown : shown = [i \in DOMAIN cells |-> cells[i].day]
    OBVIOUS
  <1>14. \A i \in 1..n : shown[i] = lo + i - 1
    BY <1>6, <1>12, <1>13
  <1>15. /\ Len(cells) % 7 = 0
         /\ \A i \in DOMAIN cells : Weekday(shown[i]) = (i - 1) % 7
         /\ \A i \in 2..Len(cells) : shown[i] = shown[i - 1] + 1
         /\ {c.day : c \in {z \in ToSet(cells) : ~z.outside}} = Period(currentDate, viewMode)
    BY <1>6, <1>7, <1>8, <1>9, <1>10, <1>11, <1>12, <1>14
  <1>16. QED
    BY <1>12, <1>13, <1>15 DEF GridShowsPeriod

(***************************************************************************)
(* Paging                                                                  *)
(***************************************************************************)
\* The page before or after, from a day within the bounds to one within them
PagedBy(n) ==
  /\ currentDate' = Turned(currentDate, viewMode, n)
  /\ InBounds(currentDate')
  /\ UNCHANGED <<events, viewMode>>

LEMMA PagedDate ==
  ASSUME DateInv, NEW n \in {-1, 1}, PagedBy(n)
  PROVE  /\ currentDate' \in Int /\ InBounds(currentDate') /\ viewMode' = viewMode
         /\ viewMode = "week" => currentDate' = currentDate + 7 * n
         /\ viewMode = "month" => Month(currentDate') = Month(currentDate) + n
  <1>1. currentDate \in Int /\ InBounds(currentDate) /\ viewMode \in {"month", "week"}
    BY DEF DateInv
  <1>2. CASE viewMode = "week"
    <2>1. currentDate' = currentDate + 7 * n
      BY <1>2 DEF PagedBy, Turned, addWeeks
    <2>2. QED
      BY <1>1, <1>2, <2>1 DEF PagedBy
  <1>3. CASE viewMode = "month"
    <2>1. currentDate' = addMonths(currentDate, n)
      BY <1>3 DEF PagedBy, Turned
    <2>2. /\ currentDate' \in Int
          /\ monthStart[Month(currentDate) + n] <= currentDate'
          /\ currentDate' < monthStart[Month(currentDate) + n + 1]
      BY <1>1, <2>1, AddMonth
    <2>3. Month(currentDate) + n \in 0..LastMonth
      <3>1. PICK m \in 1..LastMonth - 1 : Month(currentDate) = m
        BY <1>1, MonthInBounds
      <3>2. m + n \in 0..LastMonth
        BY LastMonthType
      <3>3. QED
        BY <3>1, <3>2
    <2>4. Month(currentDate') = Month(currentDate) + n
      BY <2>2, <2>3, MonthOf
    <2>5. QED
      BY <1>3, <2>2, <2>4 DEF PagedBy
  <1>4. QED
    BY <1>1, <1>2, <1>3

\* The weeks of consecutive periods x..y and y+1..z touch or overlap, and the
\* later grid ends later if its period is longer than a week.
LEMMA WeeksTouch ==
  ASSUME NEW x \in Int, NEW y \in Int, NEW z \in Int, x <= y, y + 7 <= z
  PROVE  /\ y \in startOfWeek(x) .. endOfWeek(y)
         /\ y + 1 \in startOfWeek(y + 1) .. endOfWeek(z)
         /\ startOfWeek(x) .. endOfWeek(y) # startOfWeek(y + 1) .. endOfWeek(z)
  <1>1. PICK a \in Int, b \in Int, c \in Int, d \in Int :
          /\ a = startOfWeek(x) /\ b = endOfWeek(y) /\ c = startOfWeek(y + 1) /\ d = endOfWeek(z)
    <2>1. y + 1 \in Int
      OBVIOUS
    <2>2. startOfWeek(x) \in Int /\ endOfWeek(y) \in Int /\ endOfWeek(z) \in Int
      BY WeekOf
    <2>3. startOfWeek(y + 1) \in Int
      BY <2>1, WeekOf
    <2>4. QED
      BY <2>2, <2>3
  <1>2. a <= x /\ y <= b /\ b <= y + 6
    BY <1>1, WholeWeeks
  <1>3. c <= y + 1 /\ z <= d
    <2>1. y + 1 \in Int /\ y + 1 <= z
      OBVIOUS
    <2>2. startOfWeek(y + 1) <= y + 1 /\ z <= endOfWeek(z)
      BY <2>1, WholeWeeks
    <2>3. QED
      BY <1>1, <2>2
  <1>4. d \in c..d /\ d \notin a..b
    BY <1>2, <1>3
  <1>5. y \in a..b /\ y + 1 \in c..d
    BY <1>2, <1>3
  <1>6. QED
    BY <1>1, <1>4, <1>5

\* The grids of a view of consecutive months and of consecutive weeks
LEMMA GridsTouch ==
  ASSUME NEW d \in Int, InBounds(d), NEW e \in Int, InBounds(e), NEW mode \in {"month", "week"},
         IF mode = "month" THEN Month(e) = Month(d) + 1 ELSE e = d + 7
  PROVE  /\ Grid(d, mode) # Grid(e, mode)
         /\ \E x \in Grid(d, mode), y \in Grid(e, mode) : y - x = 1
  <1>1. CASE mode = "month"
    <2>1. PICK m \in 1..LastMonth - 1 :
            /\ Month(d) = m /\ m + 1 \in Nat
            /\ monthStart[m] \in Nat /\ monthStart[m + 1] \in Nat /\ monthStart[m + 2] \in Nat
            /\ monthStart[m] + 28 <= monthStart[m + 1]
            /\ monthStart[m + 1] + 28 <= monthStart[m + 2]
      BY MonthInBounds
    <2>2. m + 1 + 1 = m + 2
      OBVIOUS
    <2>3. PICK x \in Int, y \in Int, z \in Int :
            /\ x = monthStart[m] /\ y = monthStart[m + 1] - 1 /\ z = monthStart[m + 2] - 1
            /\ monthStart[m + 1] = y + 1 /\ x <= y /\ y + 7 <= z
      BY <2>1
    <2>4. Grid(d, mode) = startOfWeek(x) .. endOfWeek(y)
      BY <1>1, <2>1, <2>3 DEF Grid
    <2>5. Grid(e, mode) = startOfWeek(y + 1) .. endOfWeek(z)
      BY <1>1, <2>1, <2>2, <2>3 DEF Grid
    <2>6. y \in Grid(d, mode) /\ y + 1 \in Grid(e, mode) /\ Grid(d, mode) # Grid(e, mode)
      BY <2>3, <2>4, <2>5, WeeksTouch
    <2>7. y + 1 - y = 1
      OBVIOUS
    <2>8. QED
      BY <2>6, <2>7
  <1>2. CASE mode = "week"
    <2>1. PICK w \in 0..6 :
            /\ w = Weekday(d) /\ startOfWeek(d) = d - w /\ endOfWeek(d) = d + 6 - w
            /\ \A i \in Int : Weekday(d - w + i) = i % 7
      <3>1. /\ Weekday(d) \in 0..6 /\ startOfWeek(d) = d - Weekday(d)
            /\ endOfWeek(d) = d + 6 - Weekday(d)
            /\ \A i \in Int : Weekday(startOfWeek(d) + i) = i % 7
        BY WeekOf
      <3>2. PICK w \in 0..6 : w = Weekday(d)
        BY <3>1
      <3>3. QED
        BY <3>1, <3>2
    <2>2. Weekday(d + 7) = w
      <3>1. d + 7 = d - w + (w + 7) /\ w + 7 \in Int /\ (w + 7) % 7 = w
        OBVIOUS
      <3>2. Weekday(d - w + (w + 7)) = (w + 7) % 7
        BY <2>1, <3>1
      <3>3. QED
        BY <3>1, <3>2
    <2>3. startOfWeek(d + 7) = d + 7 - w /\ endOfWeek(d + 7) = d + 13 - w
      BY <2>2 DEF startOfWeek, endOfWeek
    <2>4. Grid(d, mode) = d - w .. d + 6 - w /\ Grid(e, mode) = d + 7 - w .. d + 13 - w
      BY <1>2, <2>1, <2>3 DEF Grid
    <2>5. PICK G, H : G = d - w .. d + 6 - w /\ H = d + 7 - w .. d + 13 - w
      OBVIOUS
    <2>6. PICK x \in Int, y \in Int : x = d + 6 - w /\ y = d + 7 - w
      OBVIOUS
    <2>7. x \in G /\ y \in H /\ x \notin H /\ y - x = 1
      BY <2>5, <2>6
    <2>8. G # H /\ \E a \in G, b \in H : b - a = 1
      BY <2>7
    <2>9. QED
      BY <2>4, <2>5, <2>8
  <1>3. QED
    BY <1>1, <1>2

LEMMA PagingTouches ==
  ASSUME DateInv, NEW n \in {-1, 1}, PagedBy(n)
  PROVE  /\ Grid(currentDate', viewMode') # Grid(currentDate, viewMode)
         /\ \E x \in Grid(currentDate, viewMode), y \in Grid(currentDate', viewMode') : x - y \in -1..1
  <1>1. /\ currentDate \in Int /\ InBounds(currentDate) /\ viewMode \in {"month", "week"}
        /\ currentDate' \in Int /\ InBounds(currentDate') /\ viewMode' = viewMode
    BY PagedDate DEF DateInv
  <1>2. PICK d \in Int, e \in Int, mode \in {"month", "week"} :
          d = currentDate /\ e = currentDate' /\ mode = viewMode /\ mode = viewMode'
    BY <1>1
  <1>3. PICK G, H : G = Grid(d, mode) /\ H = Grid(e, mode)
    OBVIOUS
  <1>4. G \subseteq Int /\ H \subseteq Int
    <2>1. ASSUME NEW c \in Int, InBounds(c) PROVE Grid(c, mode) \subseteq Int
      <3>1. PICK x \in Int, y \in Int : Grid(c, mode) = startOfWeek(x) .. endOfWeek(y)
        BY <2>1, GridOf
      <3>2. QED
        BY <3>1
    <2>2. QED
      BY <1>1, <1>2, <1>3, <2>1
  <1>5. CASE n = 1
    <2>1. IF mode = "month" THEN Month(e) = Month(d) + 1 ELSE e = d + 7
      BY <1>1, <1>2, <1>5, PagedDate
    <2>2. G # H /\ \E x \in G, y \in H : y - x = 1
      BY <1>1, <1>2, <1>3, <2>1, GridsTouch
    <2>3. PICK x \in G, y \in H : y - x = 1
      BY <2>2
    <2>4. x - y \in -1..1
      BY <1>4, <2>3
    <2>5. QED
      BY <1>2, <1>3, <2>2, <2>4
  <1>6. CASE n = -1
    <2>1. IF mode = "month" THEN Month(d) = Month(e) + 1 ELSE d = e + 7
      <3>1. PICK m \in Int : m = Month(d)
        <4>1. PICK m \in 1..LastMonth - 1 : Month(d) = m
          BY <1>1, <1>2, MonthInBounds
        <4>2. QED
          BY <4>1
      <3>2. /\ mode = "week" => e = d + 7 * n
            /\ mode = "month" => Month(e) = m + n
        BY <1>2, <3>1, PagedDate
      <3>3. QED
        BY <1>6, <3>1, <3>2
    <2>2. G # H /\ \E x \in H, y \in G : y - x = 1
      <3>1. InBounds(d) /\ InBounds(e)
        BY <1>1, <1>2
      <3>2. /\ Grid(e, mode) # Grid(d, mode)
            /\ \E x \in Grid(e, mode), y \in Grid(d, mode) : y - x = 1
        BY <2>1, <3>1, GridsTouch
      <3>3. QED
        BY <1>3, <3>2
    <2>3. PICK x \in H, y \in G : y - x = 1
      BY <2>2
    <2>4. y - x \in -1..1
      BY <1>4, <2>3
    <2>5. QED
      BY <1>2, <1>3, <2>2, <2>4
  <1>7. QED
    BY <1>5, <1>6

\* A step pages, changes the mode, or leaves the date and the mode alone.
LEMMA StepsOf ==
  ASSUME [Next]_vars
  PROVE  \/ \E n \in {-1, 1} : PagedBy(n)
         \/ currentDate' = currentDate /\ viewMode' \in {"month", "week", viewMode}
              /\ (events' = events \/ events' \in Lists)
  BY DEF Next, vars, handlePrev, handleNext, setViewMode, Fetched, PagedBy

LEMMA DateInvariance == Spec => []DateInv
  <1>1. Init => DateInv
    <2>1. ASSUME Init PROVE currentDate \in Int
      <3>1. monthStart[LastMonth] \in Nat
        BY monthStartType, LastMonthType DEF Months
      <3>2. QED
        BY <2>1, <3>1 DEF Init
    <2>2. QED
      BY <2>1 DEF Init, DateInv
  <1>2. DateInv /\ [Next]_vars => DateInv'
    <2>1. SUFFICES ASSUME DateInv, [Next]_vars PROVE DateInv'
      OBVIOUS
    <2>2. ASSUME NEW n \in {-1, 1}, PagedBy(n) PROVE DateInv'
      BY <2>1, <2>2, PagedDate DEF DateInv, InBounds
    <2>3. CASE currentDate' = currentDate /\ viewMode' \in {"month", "week", viewMode}
      BY <2>1, <2>3 DEF DateInv, InBounds
    <2>4. QED
      BY <2>1, <2>2, <2>3, StepsOf
  <1>3. QED
    BY <1>1, <1>2, PTL DEF Spec

\* Theorem: the grid of every month and of every week is whole weeks under the
\* right names of days, without a day left out or twice, and the days it does
\* not dim are those of the month or the week it is about.
THEOREM GridIsRight == Spec => []GridShowsPeriod
  <1>1. DateInv => GridShowsPeriod
    BY ShowsPeriod
  <1>2. QED
    BY <1>1, DateInvariance, PTL

\* Theorem: from whatever day, paging shows other days than before, and between
\* those before and those after there is none.
THEOREM NoDayIsPassedOver == Spec => PagingLeavesNoGap
  <1>1. DateInv /\ [Next]_vars =>
          [currentDate' # currentDate =>
             LET old == Grid(currentDate, viewMode)
                 new == Grid(currentDate', viewMode')
             IN new # old /\ \E x \in old, y \in new : x - y \in -1..1]_vars
    <2>1. SUFFICES ASSUME DateInv, [Next]_vars, currentDate' # currentDate
                   PROVE  /\ Grid(currentDate', viewMode') # Grid(currentDate, viewMode)
                          /\ \E x \in Grid(currentDate, viewMode), y \in Grid(currentDate', viewMode') :
                               x - y \in -1..1
      OBVIOUS
    <2>2. PICK n \in {-1, 1} : PagedBy(n)
      BY <2>1, StepsOf
    <2>3. QED
      BY <2>1, <2>2, PagingTouches
  <1>2. QED
    BY <1>1, DateInvariance, PTL DEF Spec, PagingLeavesNoGap

(***************************************************************************)
(* The order of the events                                                 *)
(***************************************************************************)
Earlier(t, i, j) == t[i] < t[j] \/ (t[i] = t[j] /\ i < j)

Rank(t, n, i) == Cardinality({j \in 1..n : Earlier(t, j, i)})

\* A place that comes before another one has the smaller rank.
LEMMA RankGrows ==
  ASSUME NEW n \in Nat, NEW t \in [1..n -> Int], NEW i \in 1..n, NEW j \in 1..n, Earlier(t, i, j)
  PROVE  Rank(t, n, i) < Rank(t, n, j)
  <1>1. PICK A, B : A = {k \in 1..n : Earlier(t, k, i)} /\ B = {k \in 1..n : Earlier(t, k, j)}
    OBVIOUS
  <1>2. A \in SUBSET B
    <2>1. ASSUME NEW k \in 1..n, Earlier(t, k, i) PROVE Earlier(t, k, j)
      BY <2>1 DEF Earlier
    <2>2. QED
      BY <1>1, <2>1
  <1>3. i \in B /\ i \notin A
    BY <1>1 DEF Earlier
  <1>4. B \in SUBSET (1..n) /\ IsFiniteSet(1..n)
    BY <1>1, FS_Interval
  <1>5. IsFiniteSet(B)
    BY <1>4, FS_Subset
  <1>6. IsFiniteSet(A) /\ Cardinality(A) <= Cardinality(B) /\ Cardinality(A) # Cardinality(B)
    BY <1>2, <1>3, <1>5, FS_Subset
  <1>7. Cardinality(A) \in Nat /\ Cardinality(B) \in Nat
    BY <1>5, <1>6, FS_CardinalityType
  <1>8. QED
    BY <1>1, <1>6, <1>7 DEF Rank

\* The ranks of n places are 0 to n - 1, each that of one place.
LEMMA RankIsPlace ==
  ASSUME NEW n \in Nat, NEW t \in [1..n -> Int]
  PROVE  /\ \A k \in 1..n : \E i \in 1..n : Rank(t, n, i) = k - 1
         /\ \A i, j \in 1..n : Rank(t, n, i) = Rank(t, n, j) => i = j
         /\ \A i \in 1..n : Rank(t, n, i) \in 0..n-1
  <1>1. ASSUME NEW i \in 1..n PROVE Rank(t, n, i) \in 0..n-1
    <2>1. PICK A : A = {k \in 1..n : Earlier(t, k, i)}
      OBVIOUS
    <2>2. A \in SUBSET (1..n) /\ IsFiniteSet(1..n) /\ Cardinality(1..n) = n
      BY <2>1, FS_Interval
    <2>3. i \notin A
      BY <2>1 DEF Earlier
    <2>4. IsFiniteSet(A) /\ Cardinality(A) <= n /\ Cardinality(A) # n
      BY <2>2, <2>3, FS_Subset
    <2>5. Cardinality(A) \in Nat
      BY <2>4, FS_CardinalityType
    <2>6. QED
      BY <2>1, <2>4, <2>5 DEF Rank
  <1>2. ASSUME NEW i \in 1..n, NEW j \in 1..n, Rank(t, n, i) = Rank(t, n, j) PROVE i = j
    <2>1. Rank(t, n, i) \in Int /\ Rank(t, n, j) \in Int
      BY <1>1
    <2>2. ~Earlier(t, i, j) /\ ~Earlier(t, j, i)
      BY <1>2, <2>1, RankGrows
    <2>3. QED
      BY <2>2 DEF Earlier
  <1>3. PICK f : f = [i \in 1..n |-> Rank(t, n, i) + 1]
    OBVIOUS
  <1>4. f \in Injection(1..n, 1..n)
    <2>1. f \in [1..n -> 1..n]
      <3>1. ASSUME NEW i \in 1..n PROVE Rank(t, n, i) + 1 \in 1..n
        <4>1. PICK r \in 0..n-1 : r = Rank(t, n, i)
          BY <1>1
        <4>2. QED
          BY <4>1
      <3>2. QED
        BY <1>3, <3>1
    <2>2. ASSUME NEW a \in 1..n, NEW b \in 1..n, f[a] = f[b] PROVE a = b
      <3>1. Rank(t, n, a) \in Int /\ Rank(t, n, b) \in Int
        BY <1>1
      <3>2. Rank(t, n, a) + 1 = Rank(t, n, b) + 1
        BY <1>3, <2>2
      <3>3. QED
        BY <1>2, <3>1, <3>2
    <2>3. QED
      BY <2>1, <2>2 DEF Injection, IsInjective
  <1>5. f \in Surjection(1..n, 1..n)
    BY <1>4, FS_Injection, FS_Interval
  <1>6. ASSUME NEW k \in 1..n PROVE \E i \in 1..n : Rank(t, n, i) = k - 1
    <2>1. PICK i \in 1..n : f[i] = k
      BY <1>5 DEF Surjection
    <2>2. Rank(t, n, i) + 1 = k /\ Rank(t, n, i) \in Int
      BY <1>1, <1>3, <2>1
    <2>3. QED
      BY <2>2
  <1>7. QED
    BY <1>1, <1>2, <1>6

\* The sorted list has the places of the list in another order, in which none
\* comes after a later one.
LEMMA Sorted ==
  ASSUME NEW n \in Nat, NEW list \in [1..n -> Events]
  PROVE  \E order \in [1..n -> 1..n] :
           /\ sortedEvents(list) = [k \in 1..n |-> list[order[k]]]
           /\ \A i \in 1..n : \E k \in 1..n : order[k] = i
           /\ \A k, l \in 1..n : k < l => order[k] # order[l] /\ At[list[order[k]]] <= At[list[order[l]]]
  <1>1. PICK t : t = [i \in 1..n |-> At[list[i]]]
    OBVIOUS
  <1>2. t \in [1..n -> Int]
    BY <1>1, CalendarAssumption DEF CalendarAssumption
  <1>3. PICK order : order = [k \in 1..n |-> CHOOSE i \in 1..n : Rank(t, n, i) = k - 1]
    OBVIOUS
  <1>4. ASSUME NEW k \in 1..n PROVE order[k] \in 1..n /\ Rank(t, n, order[k]) = k - 1
    <2>1. \E i \in 1..n : Rank(t, n, i) = k - 1
      BY <1>2, RankIsPlace
    <2>2. order[k] = CHOOSE i \in 1..n : Rank(t, n, i) = k - 1
      BY <1>3
    <2>3. QED
      BY <2>1, <2>2
  <1>5. sortedEvents(list) = [k \in 1..n |-> list[order[k]]]
    <2>1. DOMAIN list = 1..n
      OBVIOUS
    <2>2. ASSUME NEW i \in 1..n
          PROVE  Rank(t, n, i) = Cardinality({j \in 1..n :
                   At[list[j]] < At[list[i]] \/ (At[list[j]] = At[list[i]] /\ j < i)})
      <3>1. {j \in 1..n : Earlier(t, j, i)}
              = {j \in 1..n : At[list[j]] < At[list[i]] \/ (At[list[j]] = At[list[i]] /\ j < i)}
        BY <1>1 DEF Earlier
      <3>2. QED
        BY <3>1 DEF Rank
    <2>3. ASSUME NEW k \in 1..n
          PROVE  order[k] = CHOOSE i \in 1..n : Cardinality({j \in 1..n :
                   At[list[j]] < At[list[i]] \/ (At[list[j]] = At[list[i]] /\ j < i)}) = k - 1
      BY <1>3, <2>2
    <2>4. sortedEvents(list) = [k \in 1..n |-> list[CHOOSE i \in 1..n : Cardinality({j \in 1..n :
            At[list[j]] < At[list[i]] \/ (At[list[j]] = At[list[i]] /\ j < i)}) = k - 1]]
      BY <2>1 DEF sortedEvents
    <2>5. QED
      BY <2>3, <2>4
  <1>6. ASSUME NEW i \in 1..n PROVE \E k \in 1..n : order[k] = i
    <2>1. PICK r \in 0..n-1 : r = Rank(t, n, i)
      BY <1>2, RankIsPlace
    <2>2. r + 1 \in 1..n /\ r + 1 - 1 = r
      BY <2>1
    <2>3. Rank(t, n, order[r + 1]) = r /\ order[r + 1] \in 1..n
      BY <1>4, <2>2
    <2>4. order[r + 1] = i
      BY <1>2, <2>1, <2>3, RankIsPlace
    <2>5. QED
      BY <2>2, <2>4
  <1>7. ASSUME NEW k \in 1..n, NEW l \in 1..n, k < l
        PROVE  order[k] # order[l] /\ At[list[order[k]]] <= At[list[order[l]]]
    <2>1. PICK i \in 1..n, j \in 1..n : i = order[k] /\ j = order[l]
      BY <1>4
    <2>2. Rank(t, n, i) = k - 1 /\ Rank(t, n, j) = l - 1
      BY <1>4, <2>1
    <2>3. i # j
      BY <1>7, <2>2
    <2>4. ~Earlier(t, j, i)
      <3>1. ASSUME Earlier(t, j, i) PROVE Rank(t, n, j) < Rank(t, n, i)
        BY <1>2, <3>1, RankGrows
      <3>2. QED
        BY <1>7, <2>2, <3>1
    <2>5. t[i] <= t[j]
      <3>1. t[i] \in Int /\ t[j] \in Int
        BY <1>2
      <3>2. QED
        BY <2>4, <3>1 DEF Earlier
    <2>6. QED
      BY <1>1, <2>1, <2>3, <2>5
  <1>8. order \in [1..n -> 1..n]
    BY <1>3, <1>4
  <1>9. QED
    BY <1>5, <1>6, <1>7, <1>8

(***************************************************************************)
(* The events of a day                                                     *)
(***************************************************************************)
\* What has been pushed after each of the first n events of the list
Pushes(f, day, list, n) ==
  f = [m \in 0..n |->
         IF m = 0 THEN <<>>
         ELSE IF DateKey(list[m]) = day THEN Append(f[m - 1], list[m])
         ELSE f[m - 1]]

LEMMA PushesExists ==
  ASSUME NEW day, NEW list, NEW n \in Nat
  PROVE  \E f : Pushes(f, day, list, n)
  <1>1. PICK Bad : Bad = {k \in Nat : ~\E f : Pushes(f, day, list, k)}
    OBVIOUS
  <1>2. SUFFICES ASSUME Bad # {} PROVE FALSE
    BY <1>1
  <1>3. PICK k \in Bad : \A y \in Bad : k <= y
    BY <1>1, <1>2, LeastOf
  <1>4. Pushes([m \in 0..0 |-> <<>>], day, list, 0)
    BY DEF Pushes
  <1>5. k \in Nat /\ k # 0 /\ ~\E f : Pushes(f, day, list, k)
    BY <1>1, <1>4
  <1>6. k - 1 \in Nat /\ k - 1 \notin Bad
    BY <1>3, <1>5
  <1>7. PICK f : Pushes(f, day, list, k - 1)
    BY <1>1, <1>6
  <1>8. Pushes([m \in 0..k |-> IF m < k THEN f[m]
                               ELSE IF DateKey(list[k]) = day THEN Append(f[k - 1], list[k])
                               ELSE f[k - 1]], day, list, k)
    <2>1. PICK g : g = [m \in 0..k |-> IF m < k THEN f[m]
                               ELSE IF DateKey(list[k]) = day THEN Append(f[k - 1], list[k])
                               ELSE f[k - 1]]
      OBVIOUS
    <2>2. g[0] = <<>>
      BY <1>5, <1>6, <1>7, <2>1 DEF Pushes
    <2>3. ASSUME NEW m \in 0..k, m # 0
          PROVE  g[m] = IF DateKey(list[m]) = day THEN Append(g[m - 1], list[m]) ELSE g[m - 1]
      <3>1. m - 1 \in 0..k /\ m - 1 \in 0..k-1 /\ m - 1 < k
        BY <1>5, <2>3
      <3>2. g[m - 1] = f[m - 1]
        BY <2>1, <3>1
      <3>3. CASE m < k
        <4>1. m \in 0..k-1
          BY <1>5, <3>3
        <4>2. f[m] = IF DateKey(list[m]) = day THEN Append(f[m - 1], list[m]) ELSE f[m - 1]
          BY <1>7, <2>3, <4>1 DEF Pushes
        <4>3. QED
          BY <2>1, <3>2, <3>3, <4>2
      <3>4. CASE m = k
        <4>1. ~(m < k)
          BY <1>5, <3>4
        <4>2. g[m] = IF DateKey(list[k]) = day THEN Append(f[k - 1], list[k]) ELSE f[k - 1]
          BY <2>1, <4>1
        <4>3. QED
          BY <3>2, <3>4, <4>2
      <3>5. QED
        BY <1>5, <3>3, <3>4
    <2>4. g = [m \in 0..k |->
                 IF m = 0 THEN <<>>
                 ELSE IF DateKey(list[m]) = day THEN Append(g[m - 1], list[m])
                 ELSE g[m - 1]]
      BY <2>1, <2>2, <2>3
    <2>5. QED
      BY <2>1, <2>4 DEF Pushes
  <1>9. QED
    BY <1>5, <1>8

\* The events of the day among the first n of the list, in the order they have there
OfDay(q, day, list, n) ==
  /\ q \in Seq(Events)
  /\ ToSet(q) = {e \in Events : DateKey(e) = day /\ \E i \in 1..n : list[i] = e}
  /\ \A k, l \in DOMAIN q : k < l => \E i, j \in 1..n : i < j /\ q[k] = list[i] /\ q[l] = list[j]

LEMMA PushOne ==
  ASSUME NEW N \in Nat, NEW list \in [1..N -> Events], NEW day,
         NEW n \in 1..N, NEW q, OfDay(q, day, list, n - 1)
  PROVE  OfDay(IF DateKey(list[n]) = day THEN Append(q, list[n]) ELSE q, day, list, n)
  <1>1. q \in Seq(Events) /\ list[n] \in Events /\ n - 1 \in Nat
    BY DEF OfDay
  <1>2. \A i \in 1..n : i \in 1..n-1 \/ i = n
    OBVIOUS
  <1>3. 1..n-1 \subseteq 1..n /\ n \in 1..n
    OBVIOUS
  <1>4. CASE DateKey(list[n]) # day
    <2>1. {e \in Events : DateKey(e) = day /\ \E i \in 1..n : list[i] = e}
            = {e \in Events : DateKey(e) = day /\ \E i \in 1..n-1 : list[i] = e}
      BY <1>2, <1>3, <1>4
    <2>2. QED
      BY <1>3, <1>4, <2>1 DEF OfDay
  <1>5. CASE DateKey(list[n]) = day
    <2>1. PICK r : r = Append(q, list[n])
      OBVIOUS
    <2>2. PICK len \in Nat : len = Len(q) /\ DOMAIN q = 1..len
      BY <1>1
    <2>3. /\ r \in Seq(Events) /\ DOMAIN r = 1..len+1 /\ r[len + 1] = list[n]
          /\ \A k \in 1..len : r[k] = q[k]
      BY <1>1, <2>1, <2>2
    <2>4. ToSet(r) = ToSet(q) \cup {list[n]}
      <3>1. \A k \in 1..len+1 : k \in 1..len \/ k = len + 1
        BY <2>2
      <3>2. 1..len \subseteq 1..len+1 /\ len + 1 \in 1..len+1
        BY <2>2
      <3>3. QED
        BY <2>2, <2>3, <3>1, <3>2 DEF ToSet
    <2>5. {e \in Events : DateKey(e) = day /\ \E i \in 1..n : list[i] = e}
            = {e \in Events : DateKey(e) = day /\ \E i \in 1..n-1 : list[i] = e} \cup {list[n]}
      BY <1>1, <1>2, <1>3, <1>5
    <2>6. ToSet(r) = {e \in Events : DateKey(e) = day /\ \E i \in 1..n : list[i] = e}
      BY <2>4, <2>5 DEF OfDay
    <2>7. ASSUME NEW k \in DOMAIN r, NEW l \in DOMAIN r, k < l
          PROVE  \E i, j \in 1..n : i < j /\ r[k] = list[i] /\ r[l] = list[j]
      <3>1. k \in 1..len /\ (l \in 1..len \/ l = len + 1)
        BY <2>2, <2>3, <2>7
      <3>2. CASE l \in 1..len
        <4>1. PICK i \in 1..n-1, j \in 1..n-1 : i < j /\ q[k] = list[i] /\ q[l] = list[j]
          BY <2>2, <2>7, <3>1, <3>2 DEF OfDay
        <4>2. QED
          BY <1>3, <2>3, <3>1, <3>2, <4>1
      <3>3. CASE l = len + 1
        <4>1. q[k] \in ToSet(q)
          BY <2>2, <3>1 DEF ToSet
        <4>2. PICK i \in 1..n-1 : list[i] = q[k]
          BY <4>1 DEF OfDay
        <4>3. i < n
          OBVIOUS
        <4>4. QED
          BY <1>3, <2>3, <3>1, <3>3, <4>2, <4>3
      <3>4. QED
        BY <3>1, <3>2, <3>3
    <2>8. OfDay(r, day, list, n)
      BY <2>3, <2>6, <2>7 DEF OfDay
    <2>9. QED
      BY <1>5, <2>1, <2>8
  <1>6. QED
    BY <1>4, <1>5

LEMMA PushedOfDay ==
  ASSUME NEW N \in Nat, NEW list \in [1..N -> Events], NEW day
  PROVE  OfDay(PushedTo(day, list), day, list, N)
  <1>1. PICK f : Pushes(f, day, list, N)
    BY PushesExists
  <1>2. PICK pushed : /\ Pushes(pushed, day, list, N)
                      /\ PushedTo(day, list) = pushed[N]
    <2>1. Len(list) = N
      OBVIOUS
    <2>2. Pushes(CHOOSE g : Pushes(g, day, list, N), day, list, N)
      BY <1>1
    <2>3. PushedTo(day, list) = (CHOOSE g : Pushes(g, day, list, N))[N]
      BY <2>1 DEF PushedTo, Pushes
    <2>4. QED
      BY <2>2, <2>3
  <1>3. PICK Bad : Bad = {m \in Nat : m <= N /\ ~OfDay(pushed[m], day, list, m)}
    OBVIOUS
  <1>4. ASSUME Bad # {} PROVE FALSE
    <2>1. PICK m \in Bad : \A y \in Bad : m <= y
      BY <1>3, <1>4, LeastOf
    <2>2. m \in Nat /\ m <= N /\ ~OfDay(pushed[m], day, list, m)
      BY <1>3
    <2>3. CASE m = 0
      <3>1. pushed[0] = <<>>
        BY <1>2 DEF Pushes
      <3>2. OfDay(<<>>, day, list, 0)
        BY DEF OfDay, ToSet
      <3>3. QED
        BY <2>2, <2>3, <3>1, <3>2
    <2>4. CASE m # 0
      <3>1. m \in 1..N /\ m \in 0..N /\ m - 1 \in Nat /\ m - 1 <= N /\ ~(m <= m - 1)
        BY <2>2, <2>4
      <3>2. OfDay(pushed[m - 1], day, list, m - 1)
        BY <1>3, <2>1, <3>1
      <3>3. pushed[m] = IF DateKey(list[m]) = day THEN Append(pushed[m - 1], list[m]) ELSE pushed[m - 1]
        BY <1>2, <2>4, <3>1 DEF Pushes
      <3>4. OfDay(pushed[m], day, list, m)
        BY <3>1, <3>2, <3>3, PushOne
      <3>5. QED
        BY <2>2, <3>4
    <2>5. QED
      BY <2>3, <2>4
  <1>5. OfDay(pushed[N], day, list, N)
    BY <1>3, <1>4
  <1>6. QED
    BY <1>2, <1>5

\* A day goes from midnight to midnight by the clock of the browser.
LEMMA DayOfEvent ==
  ASSUME NEW e \in Events, NEW day \in Int
  PROVE  DateKey(e) = day <=> 24 * day - Offset <= At[e] /\ At[e] < 24 * (day + 1) - Offset
  <1>1. PICK t \in Int, o \in Int : t = At[e] /\ o = Offset
    BY CalendarAssumption DEF CalendarAssumption
  <1>2. PICK key \in Int : key = (t + o) \div 24 /\ 24 * key <= t + o /\ t + o < 24 * key + 24
    OBVIOUS
  <1>3. DateKey(e) = key
    BY <1>1, <1>2 DEF DateKey
  <1>4. key = day <=> 24 * day - o <= t /\ t < 24 * (day + 1) - o
    BY <1>2
  <1>5. QED
    BY <1>1, <1>3, <1>4

\* The list is one of events that are in it once: the table's ids are unique.
ListInv == \E n \in Nat : events \in [1..n -> Events] /\ IsInjective(events)

PagesInv == DateInv /\ ListInv

\* What is grouped under a day is on it, in order.
LEMMA GroupedOfDay ==
  ASSUME ListInv, NEW day \in Int
  PROVE  /\ ToSet(groupedEvents(day)) = {e \in ToSet(events) : DateKey(e) = day}
         /\ \A k, l \in DOMAIN groupedEvents(day) : k < l =>
              /\ groupedEvents(day)[k] # groupedEvents(day)[l]
              /\ At[groupedEvents(day)[k]] <= At[groupedEvents(day)[l]]
  <1>1. PICK n \in Nat : events \in [1..n -> Events] /\ IsInjective(events)
    BY DEF ListInv
  <1>2. PICK list : list = events /\ list \in [1..n -> Events]
          /\ \A a, b \in 1..n : list[a] = list[b] => a = b
    BY <1>1 DEF IsInjective
  <1>3. PICK order \in [1..n -> 1..n] :
          /\ sortedEvents(list) = [k \in 1..n |-> list[order[k]]]
          /\ \A i \in 1..n : \E k \in 1..n : order[k] = i
          /\ \A k, l \in 1..n : k < l => order[k] # order[l] /\ At[list[order[k]]] <= At[list[order[l]]]
    <2>1. list \in [1..n -> Events]
      BY <1>2
    <2>2. QED
      BY <2>1, Sorted
  <1>4. PICK sorted \in [1..n -> Events] :
          sorted = sortedEvents(list) /\ \A k \in 1..n : sorted[k] = list[order[k]]
    <2>1. PICK sorted : sorted = [k \in 1..n |-> list[order[k]]]
      OBVIOUS
    <2>2. sorted \in [1..n -> Events] /\ \A k \in 1..n : sorted[k] = list[order[k]]
      BY <1>2, <2>1
    <2>3. QED
      BY <1>3, <2>1, <2>2
  <1>5. PICK q : q = groupedEvents(day) /\ OfDay(q, day, sorted, n)
    <2>1. groupedEvents(day) = PushedTo(day, sorted)
      BY <1>2, <1>4 DEF groupedEvents
    <2>2. QED
      BY <2>1, PushedOfDay
  <1>6. ToSet(q) = {e \in ToSet(events) : DateKey(e) = day}
    <2>1. ToSet(events) = {list[i] : i \in 1..n}
      BY <1>2 DEF ToSet
    <2>2. ASSUME NEW e PROVE e \in ToSet(events) <=> e \in Events /\ \E i \in 1..n : sorted[i] = e
      BY <1>2, <1>3, <1>4, <2>1
    <2>3. QED
      BY <1>5, <2>2 DEF OfDay
  <1>7. ASSUME NEW k \in DOMAIN q, NEW l \in DOMAIN q, k < l
        PROVE  q[k] # q[l] /\ At[q[k]] <= At[q[l]]
    <2>1. PICK i \in 1..n, j \in 1..n : i < j /\ q[k] = sorted[i] /\ q[l] = sorted[j]
      BY <1>5, <1>7 DEF OfDay
    <2>2. order[i] # order[j] /\ At[list[order[i]]] <= At[list[order[j]]]
      BY <1>3, <2>1
    <2>3. order[i] \in 1..n /\ order[j] \in 1..n
      BY <1>3
    <2>4. QED
      BY <1>2, <1>4, <2>1, <2>2, <2>3
  <1>8. QED
    BY <1>5, <1>6, <1>7

LEMMA CellsAreOfDays ==
  ASSUME PagesInv
  PROVE  \A cell \in ToSet(Cells) : \E day \in Int : cell.day = day /\ cell.events = groupedEvents(day)
  <1>1. currentDate \in Int /\ InBounds(currentDate) /\ viewMode \in {"month", "week"}
    BY DEF PagesInv, DateInv
  <1>2. PICK x \in Int, y \in Int :
          x <= y /\ Grid(currentDate, viewMode) = startOfWeek(x) .. endOfWeek(y)
    BY <1>1, GridOf
  <1>3. PICK lo \in Int, hi \in Int : lo = startOfWeek(x) /\ hi = endOfWeek(y)
    BY WeekOf
  <1>4. lo <= x /\ y <= hi
    BY <1>2, <1>3, WholeWeeks
  <1>5. lo <= hi /\ Grid(currentDate, viewMode) = lo..hi
    BY <1>2, <1>3, <1>4
  <1>6. ToSet(Cells) = {CellOf(day) : day \in lo..hi}
    BY <1>5, CellsOf
  <1>7. ASSUME NEW cell \in ToSet(Cells)
        PROVE  \E day \in Int : cell.day = day /\ cell.events = groupedEvents(day)
    <2>1. PICK day \in lo..hi : cell = CellOf(day)
      BY <1>6
    <2>2. cell.day = day /\ cell.events = groupedEvents(day)
      BY <2>1, CellFields
    <2>3. day \in Int
      OBVIOUS
    <2>4. QED
      BY <2>2, <2>3
  <1>8. QED
    BY <1>7

LEMMA EventsPlaced ==
  ASSUME PagesInv
  PROVE  EventsOnTheirDay
  <1>1. ASSUME NEW cell \in ToSet(Cells)
        PROVE  /\ ToSet(cell.events) = {e \in ToSet(events) :
                    24 * cell.day - Offset <= At[e] /\ At[e] < 24 * (cell.day + 1) - Offset}
               /\ \A k, l \in DOMAIN cell.events : k < l =>
                    cell.events[k] # cell.events[l] /\ At[cell.events[k]] <= At[cell.events[l]]
    <2>1. PICK day \in Int : cell.day = day /\ cell.events = groupedEvents(day)
      BY CellsAreOfDays
    <2>2. ListInv
      BY DEF PagesInv
    <2>3. ToSet(events) \subseteq Events
      BY <2>2 DEF ListInv, ToSet
    <2>4. \A e \in ToSet(events) : DateKey(e) = day <=>
            24 * day - Offset <= At[e] /\ At[e] < 24 * (day + 1) - Offset
      BY <2>3, DayOfEvent
    <2>5. ToSet(groupedEvents(day)) = {e \in ToSet(events) : DateKey(e) = day}
      BY <2>2, GroupedOfDay
    <2>6. \A k, l \in DOMAIN groupedEvents(day) : k < l =>
              /\ groupedEvents(day)[k] # groupedEvents(day)[l]
              /\ At[groupedEvents(day)[k]] <= At[groupedEvents(day)[l]]
      BY <2>2, GroupedOfDay
    <2>7. QED
      BY <2>1, <2>4, <2>5, <2>6
  <1>2. QED
    BY <1>1 DEF EventsOnTheirDay

LEMMA ListInvariance == Spec => []ListInv
  <1>1. Init => ListInv
    <2>1. ASSUME events = <<>> PROVE events \in [1..0 -> Events] /\ IsInjective(events)
      BY <2>1 DEF IsInjective
    <2>2. QED
      BY <2>1 DEF Init, ListInv
  <1>2. ListInv /\ [Next]_vars => ListInv'
    <2>1. SUFFICES ASSUME ListInv, [Next]_vars PROVE ListInv'
      OBVIOUS
    <2>2. CASE events' = events
      BY <2>1, <2>2 DEF ListInv
    <2>3. CASE events' \in Lists
      <3>1. PICK m \in 0..Cardinality(Events) : events' \in [1..m -> Events] /\ IsInjective(events')
        BY <2>3 DEF Lists
      <3>2. Cardinality(Events) \in Nat
        BY CalendarAssumption, FS_CardinalityType DEF CalendarAssumption
      <3>3. m \in Nat
        BY <3>2
      <3>4. QED
        BY <3>1, <3>3 DEF ListInv
    <2>4. QED
      BY <2>1, <2>2, <2>3, StepsOf DEF PagedBy
  <1>3. QED
    BY <1>1, <1>2, PTL DEF Spec

\* Theorem: whatever the server sends and in whatever order, the cell of a day
\* holds the events that begin on it by the browser's clock, each once, by time.
THEOREM EachOnItsDay == Spec => []EventsOnTheirDay
  <1>1. DateInv /\ ListInv => EventsOnTheirDay
    BY EventsPlaced DEF PagesInv
  <1>2. QED
    BY <1>1, DateInvariance, ListInvariance, PTL

-----------------------------------------------------------------------------
(***************************************************************************)
(* Boards                                                                  *)
(***************************************************************************)
IsBoard(b) == DOMAIN b \subseteq Squares /\ \A s \in DOMAIN b : b[s] \in Symbols

LEMMA SymbolParts ==
  ASSUME NEW p \in Symbols
  PROVE  /\ getPieceColor(p) \in Colors /\ pieceType(p) \in {"P", "N", "B", "R", "Q", "K"}
         /\ p = <<getPieceColor(p), pieceType(p)>>
  BY DEF Symbols, Colors, getPieceColor, pieceType

LEMMA SquareParts ==
  ASSUME NEW s \in Squares
  PROVE  /\ s[1] \in 0..7 /\ s[2] \in 0..7 /\ s = <<s[1], s[2]>>
         /\ isInBounds(s) /\ s # NoSquare
  <1>1. s[1] \in 0..7 /\ s[2] \in 0..7 /\ s = <<s[1], s[2]>>
    BY DEF Squares
  <1>2. s # NoSquare
    BY <1>1 DEF NoSquare
  <1>3. QED
    BY <1>1, <1>2 DEF isInBounds

LEMMA OpponentOf ==
  ASSUME NEW c \in Colors
  PROVE  getOpponentColor(c) \in Colors /\ getOpponentColor(c) # c
         /\ getOpponentColor(getOpponentColor(c)) = c
         /\ \A d \in Colors : d # c => d = getOpponentColor(c)
  BY DEF Colors, getOpponentColor

LEMMA MenOf ==
  ASSUME NEW b, IsBoard(b), NEW c \in Colors, NEW s \in Men(b, c)
  PROVE  /\ s \in DOMAIN b /\ s \in Squares /\ b[s] \in Symbols /\ getPieceColor(b[s]) = c
         /\ pieceType(b[s]) \in {"P", "N", "B", "R", "Q", "K"}
         /\ ~Empty(b, s) /\ ~Owns(b, s, getOpponentColor(c)) /\ Owns(b, s, c)
  BY SymbolParts, OpponentOf DEF Men, IsBoard, Empty, Owns

(***************************************************************************)
(* attacks.js and pseudoMoves.js: what each says of one piece              *)
(***************************************************************************)
AttacksOf(b, s, c, t) ==
  LET type == pieceType(b[s]) IN
  \/ type = "P" /\ pawnAttacksSquare(s, c, t)
  \/ type = "N" /\ stepAttacksSquare(s, KNIGHT_OFFSETS, t)
  \/ type = "K" /\ stepAttacksSquare(s, KING_OFFSETS, t)
  \/ type = "R" /\ slideAttacksSquare(b, s, ROOK_DIRECTIONS, t)
  \/ type = "B" /\ slideAttacksSquare(b, s, BISHOP_DIRECTIONS, t)
  \/ type = "Q" /\ slideAttacksSquare(b, s, QUEEN_DIRECTIONS, t)

LEMMA AttackedBy ==
  ASSUME NEW b, NEW t, NEW c
  PROVE  isSquareAttacked(b, t, c) <=> \E s \in Men(b, c) : AttacksOf(b, s, c, t)
  BY DEF isSquareAttacked, AttacksOf

\* Where a pawn may go
LEMMA PawnMoves ==
  ASSUME NEW b, IsBoard(b), NEW c \in Colors, NEW s \in Squares, NEW target, NEW t
  PROVE  t \in getPawnMoves(b, s, c, target) <=>
           \/ /\ t = <<s[1] + Forward(c), s[2]>> /\ isInBounds(t) /\ Empty(b, t)
           \/ /\ t = <<s[1] + 2 * Forward(c), s[2]>> /\ isInBounds(t) /\ Empty(b, t)
              /\ s[1] = IF c = "w" THEN 6 ELSE 1
              /\ Empty(b, <<s[1] + Forward(c), s[2]>>)
           \/ /\ t \in {<<s[1] + Forward(c), s[2] - 1>>, <<s[1] + Forward(c), s[2] + 1>>}
              /\ isInBounds(t)
              /\ Owns(b, t, getOpponentColor(c)) \/ (t = target /\ Empty(b, t))
  <1>1. PICK r \in 0..7, f \in 0..7, w \in {-1, 1} : r = s[1] /\ f = s[2] /\ w = Forward(c)
    BY SquareParts DEF Forward
  <1>2. PICK ahead : ahead = <<w, 0>>
    OBVIOUS
  <1>3. /\ \A n \in 1..2 : Along(s, ahead, n) = <<r + n * w, f>>
        /\ Along(s, ahead, 1) = <<r + w, f>> /\ Along(s, ahead, 2) = <<r + 2 * w, f>>
    BY <1>1, <1>2 DEF Along
  <1>4. /\ Along(s, <<w, -1>>, 1) = <<r + w, f - 1>>
        /\ Along(s, <<w, 1>>, 1) = <<r + w, f + 1>>
    BY <1>1 DEF Along
  <1>5. PICK captures : captures = {Along(s, <<w, dCol>>, 1) : dCol \in {-1, 1}}
    OBVIOUS
  <1>6. captures = {<<r + w, f - 1>>, <<r + w, f + 1>>}
    BY <1>4, <1>5
  <1>7. PICK reach \in 1..2 : reach = IF r = (IF c = "w" THEN 6 ELSE 1) THEN 2 ELSE 1
    OBVIOUS
  <1>8. /\ Clear(b, s, ahead, 2) <=> Empty(b, <<r + w, f>>)
        /\ Clear(b, s, ahead, 3) <=> Empty(b, <<r + w, f>>) /\ Empty(b, <<r + 2 * w, f>>)
    <2>1. 1..(2-1) = {1} /\ 1..(3-1) = {1, 2}
      OBVIOUS
    <2>2. QED
      BY <1>3, <2>1 DEF Clear
  <1>9. PICK steps : steps = {n \in 1..reach : isInBounds(Along(s, ahead, n)) /\ Clear(b, s, ahead, n + 1)}
    OBVIOUS
  <1>10. t \in getPawnMoves(b, s, c, target) <=>
           \/ \E n \in steps : t = Along(s, ahead, n)
           \/ /\ t \in captures /\ isInBounds(t)
              /\ Owns(b, t, getOpponentColor(c)) \/ (t = target /\ Empty(b, t))
    BY <1>1, <1>2, <1>5, <1>7, <1>9 DEF getPawnMoves
  <1>11. (\E n \in steps : t = Along(s, ahead, n)) <=>
           \/ t = <<r + w, f>> /\ isInBounds(t) /\ Empty(b, t)
           \/ /\ t = <<r + 2 * w, f>> /\ isInBounds(t) /\ Empty(b, t)
              /\ r = IF c = "w" THEN 6 ELSE 1
              /\ Empty(b, <<r + w, f>>)
    <2>1. 1 \in steps <=> isInBounds(<<r + w, f>>) /\ Empty(b, <<r + w, f>>)
      BY <1>3, <1>7, <1>8, <1>9
    <2>2. 2 \in steps <=> /\ r = (IF c = "w" THEN 6 ELSE 1) /\ isInBounds(<<r + 2 * w, f>>)
                          /\ Empty(b, <<r + w, f>>) /\ Empty(b, <<r + 2 * w, f>>)
      BY <1>3, <1>7, <1>8, <1>9
    <2>3. \A n \in steps : n = 1 \/ n = 2
      BY <1>7, <1>9
    <2>4. QED
      BY <1>3, <2>1, <2>2, <2>3
  <1>12. QED
    BY <1>1, <1>6, <1>10, <1>11

(***************************************************************************)
(* What a move leaves                                                      *)
(***************************************************************************)
LEMMA InBoundsIsSquare ==
  ASSUME NEW i \in Int, NEW j \in Int, isInBounds(<<i, j>>)
  PROVE  <<i, j>> \in Squares
  BY DEF isInBounds, Squares

LEMMA AlongIs ==
  ASSUME NEW s \in Squares, NEW d \in Int \X Int, NEW n \in Int
  PROVE  /\ Along(s, d, n) = <<s[1] + n * d[1], s[2] + n * d[2]>>
         /\ s[1] + n * d[1] \in Int /\ s[2] + n * d[2] \in Int
  BY SquareParts DEF Along

LEMMA Directions ==
  /\ KNIGHT_OFFSETS \subseteq (-2..2) \X (-2..2)
  /\ KING_OFFSETS \subseteq (-1..1) \X (-1..1)
  /\ ROOK_DIRECTIONS \subseteq (-1..1) \X (-1..1)
  /\ BISHOP_DIRECTIONS \subseteq (-1..1) \X (-1..1)
  /\ QUEEN_DIRECTIONS \subseteq (-1..1) \X (-1..1)
  /\ <<0, 0>> \notin KNIGHT_OFFSETS \cup KING_OFFSETS \cup QUEEN_DIRECTIONS
  BY DEF KNIGHT_OFFSETS, KING_OFFSETS, ROOK_DIRECTIONS, BISHOP_DIRECTIONS, QUEEN_DIRECTIONS

LEMMA SteppingMoves ==
  ASSUME NEW b, NEW s \in Squares, NEW c, NEW offsets \in SUBSET (Int \X Int),
         NEW t \in getSteppingMoves(b, s, offsets, c)
  PROVE  t \in Squares /\ ~Owns(b, t, c)
  <1>1. PICK d \in offsets : t = Along(s, d, 1) /\ isInBounds(t) /\ ~Owns(b, t, c)
    BY DEF getSteppingMoves
  <1>2. QED
    BY <1>1, AlongIs, InBoundsIsSquare

LEMMA SlidingMoves ==
  ASSUME NEW b, NEW s \in Squares, NEW c, NEW directions \in SUBSET (Int \X Int),
         NEW t \in getSlidingMoves(b, s, directions, c)
  PROVE  t \in Squares /\ ~Owns(b, t, c)
  <1>1. PICK d \in directions, n \in 1..7 : t = Along(s, d, n) /\ isInBounds(t) /\ ~Owns(b, t, c)
    BY DEF getSlidingMoves
  <1>2. QED
    BY <1>1, AlongIs, InBoundsIsSquare

\* A move ends on the board and not on a piece of the mover; a pawn leaves its row.
LEMMA MovesOf ==
  ASSUME NEW b, IsBoard(b), NEW c \in Colors, NEW s \in Men(b, c), NEW target,
         NEW t \in getPseudoLegalMoves(b, s, target)
  PROVE  /\ t \in Squares /\ ~Owns(b, t, c) /\ t # s
         /\ pieceType(b[s]) = "P" => t[1] # s[1] /\ t \in getPawnMoves(b, s, c, target)
  <1>1. /\ getPieceColor(b[s]) = c /\ s \in Squares /\ Owns(b, s, c)
        /\ pieceType(b[s]) \in {"P", "N", "B", "R", "Q", "K"}
    BY MenOf
  <1>2. /\ KNIGHT_OFFSETS \in SUBSET (Int \X Int) /\ KING_OFFSETS \in SUBSET (Int \X Int)
        /\ ROOK_DIRECTIONS \in SUBSET (Int \X Int) /\ BISHOP_DIRECTIONS \in SUBSET (Int \X Int)
        /\ QUEEN_DIRECTIONS \in SUBSET (Int \X Int)
    BY Directions
  <1>3. CASE pieceType(b[s]) = "P"
    <2>1. t \in getPawnMoves(b, s, c, target)
      BY <1>1, <1>3 DEF getPseudoLegalMoves
    <2>2. PICK r \in 0..7, f \in 0..7, w \in {-1, 1} : r = s[1] /\ f = s[2] /\ w = Forward(c)
      BY <1>1, SquareParts DEF Forward
    <2>3. \/ t \in {<<r + w, f>>, <<r + 2 * w, f>>} /\ isInBounds(t) /\ Empty(b, t)
          \/ /\ t \in {<<r + w, f - 1>>, <<r + w, f + 1>>} /\ isInBounds(t)
             /\ Owns(b, t, getOpponentColor(c)) \/ Empty(b, t)
      BY <1>1, <2>1, <2>2, PawnMoves
    <2>4. ~Owns(b, t, c)
      BY <2>3, OpponentOf DEF Owns, Empty
    <2>5. t \in Squares /\ t[1] # r
      BY <2>2, <2>3 DEF isInBounds, Squares
    <2>6. QED
      BY <1>1, <2>1, <2>2, <2>4, <2>5
  <1>4. CASE pieceType(b[s]) # "P"
    <2>1. \/ t \in getSteppingMoves(b, s, KNIGHT_OFFSETS, c)
          \/ t \in getSteppingMoves(b, s, KING_OFFSETS, c)
          \/ t \in getSlidingMoves(b, s, ROOK_DIRECTIONS, c)
          \/ t \in getSlidingMoves(b, s, BISHOP_DIRECTIONS, c)
          \/ t \in getSlidingMoves(b, s, QUEEN_DIRECTIONS, c)
      BY <1>1, <1>4 DEF getPseudoLegalMoves
    <2>2. t \in Squares /\ ~Owns(b, t, c)
      BY <1>1, <1>2, <2>1, SteppingMoves, SlidingMoves
    <2>3. QED
      BY <1>1, <1>4, <2>2
  <1>5. QED
    BY <1>3, <1>4

(***************************************************************************)
(* Names of squares                                                        *)
(***************************************************************************)
LEMMA NamesOf ==
  ASSUME NEW s \in Squares, NEW t \in Squares
  PROVE  /\ fileOf(s) = fileOf(t) <=> s[2] = t[2]
         /\ rankOf(s) = rankOf(t) <=> s[1] = t[1]
         /\ rankOf(s) = "1" <=> s[1] = 7
         /\ rankOf(s) = "8" <=> s[1] = 0
         /\ rankOf(s) = "2" <=> s[1] = 6
         /\ rankOf(s) = "7" <=> s[1] = 1
         /\ fileOf(s) \in {"a", "b", "c", "d", "e", "f", "g", "h"}
         /\ rankOf(s) \in {"1", "2", "3", "4", "5", "6", "7", "8"}
  <1>1. /\ s[1] \in 0..7 /\ s[2] \in 0..7 /\ t[1] \in 0..7 /\ t[2] \in 0..7
    BY SquareParts
  <1>2. \A i \in 1..8, j \in 1..8 : Files[i] = Files[j] <=> i = j
    BY DEF Files
  <1>3. \A i \in 1..8, j \in 1..8 : Ranks[i] = Ranks[j] <=> i = j
    BY DEF Ranks
  <1>4. \A i \in 1..8 : /\ Ranks[i] = "1" <=> i = 1
                        /\ Ranks[i] = "8" <=> i = 8
                        /\ Ranks[i] = "2" <=> i = 2
                        /\ Ranks[i] = "7" <=> i = 7
                        /\ Ranks[i] \in {"1", "2", "3", "4", "5", "6", "7", "8"}
    BY DEF Ranks
  <1>5. \A i \in 1..8 : Files[i] \in {"a", "b", "c", "d", "e", "f", "g", "h"}
    BY DEF Files
  <1>6. /\ s[2] + 1 \in 1..8 /\ t[2] + 1 \in 1..8 /\ 8 - s[1] \in 1..8 /\ 8 - t[1] \in 1..8
        /\ s[2] + 1 = t[2] + 1 <=> s[2] = t[2]
        /\ 8 - s[1] = 8 - t[1] <=> s[1] = t[1]
        /\ 8 - s[1] = 1 <=> s[1] = 7
        /\ 8 - s[1] = 8 <=> s[1] = 0
        /\ 8 - s[1] = 2 <=> s[1] = 6
        /\ 8 - s[1] = 7 <=> s[1] = 1
    BY <1>1
  <1>7. QED
    BY <1>2, <1>3, <1>4, <1>5, <1>6 DEF fileOf, rankOf

LEMMA SameName ==
  ASSUME NEW s \in Squares, NEW t \in Squares, fileOf(s) = fileOf(t), rankOf(s) = rankOf(t)
  PROVE  s = t
  BY NamesOf, SquareParts

(***************************************************************************)
(* The rules' words and the engine's                                       *)
(***************************************************************************)
\* The two directions of a line of each kind
Ways(kind) ==
  IF kind = "row" THEN {<<0, -1>>, <<0, 1>>} ELSE IF kind = "file" THEN {<<-1, 0>>, <<1, 0>>}
  ELSE IF kind = "fall" THEN {<<-1, -1>>, <<1, 1>>} ELSE {<<-1, 1>>, <<1, -1>>}

Kinds == Straights \cup Diagonals

\* The squares on one line with s are those its two rays reach.
LEMMA LineIsRays ==
  ASSUME NEW s \in Squares, NEW t \in Squares, NEW kind \in Kinds
  PROVE  (s # t /\ Line(kind, s) = Line(kind, t)) <=>
           \E d \in Ways(kind) : \E n \in 1..7 : Along(s, d, n) = t
  <1>1. PICK r \in 0..7, f \in 0..7 : r = s[1] /\ f = s[2] /\ s = <<r, f>>
    BY SquareParts
  <1>2. PICK u \in 0..7, v \in 0..7 : u = t[1] /\ v = t[2] /\ t = <<u, v>>
    BY SquareParts
  <1>3. s # t <=> r # u \/ f # v
    BY <1>1, <1>2
  <1>4. ASSUME NEW i \in -1..1, NEW j \in -1..1, NEW n \in 1..7
        PROVE  Along(s, <<i, j>>, n) = t <=> r + n * i = u /\ f + n * j = v
    BY <1>1, <1>2 DEF Along
  <1>5. CASE kind = "row"
    <2>1. (\E d \in Ways(kind) : \E n \in 1..7 : Along(s, d, n) = t) <=>
            \E n \in 1..7 : Along(s, <<0, -1>>, n) = t \/ Along(s, <<0, 1>>, n) = t
      BY <1>5 DEF Ways
    <2>2. \A n \in 1..7 : /\ Along(s, <<0, -1>>, n) = t <=> r = u /\ f - n = v
                          /\ Along(s, <<0, 1>>, n) = t <=> r = u /\ f + n = v
      BY <1>1, <1>2 DEF Along
    <2>3. (r = u /\ f # v) <=> \E n \in 1..7 : r = u /\ (f - n = v \/ f + n = v)
      <3>1. f < v => v - f \in 1..7 /\ f + (v - f) = v
        OBVIOUS
      <3>2. f > v => f - v \in 1..7 /\ f - (f - v) = v
        OBVIOUS
      <3>3. QED
        BY <3>1, <3>2
    <2>4. Line(kind, s) = r /\ Line(kind, t) = u
      BY <1>1, <1>2, <1>5 DEF Line
    <2>5. QED
      BY <1>3, <2>1, <2>2, <2>3, <2>4
  <1>6. CASE kind = "file"
    <2>1. (\E d \in Ways(kind) : \E n \in 1..7 : Along(s, d, n) = t) <=>
            \E n \in 1..7 : Along(s, <<-1, 0>>, n) = t \/ Along(s, <<1, 0>>, n) = t
      BY <1>6 DEF Ways
    <2>2. \A n \in 1..7 : /\ Along(s, <<-1, 0>>, n) = t <=> f = v /\ r - n = u
                          /\ Along(s, <<1, 0>>, n) = t <=> f = v /\ r + n = u
      BY <1>1, <1>2 DEF Along
    <2>3. (f = v /\ r # u) <=> \E n \in 1..7 : f = v /\ (r - n = u \/ r + n = u)
      <3>1. r < u => u - r \in 1..7 /\ r + (u - r) = u
        OBVIOUS
      <3>2. r > u => r - u \in 1..7 /\ r - (r - u) = u
        OBVIOUS
      <3>3. QED
        BY <3>1, <3>2
    <2>4. Line(kind, s) = f /\ Line(kind, t) = v
      BY <1>1, <1>2, <1>6 DEF Line
    <2>5. QED
      BY <1>3, <2>1, <2>2, <2>3, <2>4
  <1>7. CASE kind = "fall"
    <2>1. (\E d \in Ways(kind) : \E n \in 1..7 : Along(s, d, n) = t) <=>
            \E n \in 1..7 : Along(s, <<-1, -1>>, n) = t \/ Along(s, <<1, 1>>, n) = t
      BY <1>7 DEF Ways
    <2>2. \A n \in 1..7 : /\ Along(s, <<-1, -1>>, n) = t <=> r - n = u /\ f - n = v
                          /\ Along(s, <<1, 1>>, n) = t <=> r + n = u /\ f + n = v
      BY <1>1, <1>2 DEF Along
    <2>3. ((r # u \/ f # v) /\ r - f = u - v) <=>
            \E n \in 1..7 : (r - n = u /\ f - n = v) \/ (r + n = u /\ f + n = v)
      <3>1. r < u /\ r - f = u - v => u - r \in 1..7 /\ r + (u - r) = u /\ f + (u - r) = v
        OBVIOUS
      <3>2. r > u /\ r - f = u - v => r - u \in 1..7 /\ r - (r - u) = u /\ f - (r - u) = v
        OBVIOUS
      <3>3. QED
        BY <3>1, <3>2
    <2>4. Line(kind, s) = r - f /\ Line(kind, t) = u - v
      BY <1>1, <1>2, <1>7 DEF Line
    <2>5. QED
      BY <1>3, <2>1, <2>2, <2>3, <2>4
  <1>8. CASE kind = "rise"
    <2>1. (\E d \in Ways(kind) : \E n \in 1..7 : Along(s, d, n) = t) <=>
            \E n \in 1..7 : Along(s, <<-1, 1>>, n) = t \/ Along(s, <<1, -1>>, n) = t
      BY <1>8 DEF Ways
    <2>2. \A n \in 1..7 : /\ Along(s, <<-1, 1>>, n) = t <=> r - n = u /\ f + n = v
                          /\ Along(s, <<1, -1>>, n) = t <=> r + n = u /\ f - n = v
      BY <1>1, <1>2 DEF Along
    <2>3. ((r # u \/ f # v) /\ r + f = u + v) <=>
            \E n \in 1..7 : (r - n = u /\ f + n = v) \/ (r + n = u /\ f - n = v)
      <3>1. r < u /\ r + f = u + v => u - r \in 1..7 /\ r + (u - r) = u /\ f - (u - r) = v
        OBVIOUS
      <3>2. r > u /\ r + f = u + v => r - u \in 1..7 /\ r - (r - u) = u /\ f + (r - u) = v
        OBVIOUS
      <3>3. QED
        BY <3>1, <3>2
    <2>4. Line(kind, s) = r + f /\ Line(kind, t) = u + v
      BY <1>1, <1>2, <1>8 DEF Line
    <2>5. QED
      BY <1>3, <2>1, <2>2, <2>3, <2>4
  <1>9. QED
    BY <1>5, <1>6, <1>7, <1>8 DEF Kinds, Straights, Diagonals

\* The squares between the ends of a ray are those it crosses.
LEMMA BetweenIsCrossed ==
  ASSUME NEW s \in Squares, NEW t \in Squares, NEW q \in Squares, NEW kind \in Kinds,
         NEW d \in Ways(kind), NEW n \in 1..7, Along(s, d, n) = t
  PROVE  /\ Line(kind, q) = Line(kind, s)
         /\ Within(q[1], s[1], t[1]) \/ Within(q[2], s[2], t[2])
         <=> \E m \in 1..n - 1 : Along(s, d, m) = q
  <1>1. PICK r \in 0..7, f \in 0..7 : r = s[1] /\ f = s[2] /\ s = <<r, f>>
    BY SquareParts
  <1>2. PICK x \in 0..7, y \in 0..7 : x = q[1] /\ y = q[2] /\ q = <<x, y>>
    BY SquareParts
  <1>3. PICK u \in 0..7, v \in 0..7 : u = t[1] /\ v = t[2] /\ t = <<u, v>>
    BY SquareParts
  <1>4. PICK p \in Int : p = Line(kind, q)
    BY <1>2 DEF Line
  <1>5. PICK o \in Int : o = Line(kind, s)
    BY <1>1 DEF Line
  <1>6. SUFFICES (p = o /\ (Within(x, r, u) \/ Within(y, f, v))) <=> \E m \in 1..n - 1 : Along(s, d, m) = q
    BY <1>1, <1>2, <1>3, <1>4, <1>5
  <1>7. CASE kind = "row" /\ d = <<0, -1>>
    <2>1. /\ u = r /\ v = f - n /\ p = x /\ o = r
          /\ \A m \in 1..n - 1 : Along(s, d, m) = q <=> r = x /\ f - m = y
      <3>1. \A m \in 1..7 : Along(s, d, m) = <<r, f - m>>
        BY <1>1, <1>7 DEF Along
      <3>2. p = x /\ o = r
        BY <1>1, <1>2, <1>4, <1>5, <1>7 DEF Line
      <3>3. t = <<r, f - n>>
        BY <3>1
      <3>4. QED
        BY <1>2, <1>3, <3>1, <3>2, <3>3
    <2>2. x = r /\ f - n < y /\ y < f => f - y \in 1..n - 1 /\ f - (f - y) = y
      OBVIOUS
    <2>3. (Within(y, f, v) <=> f - n < y /\ y < f) /\ ~Within(x, r, u)
      BY <2>1 DEF Within
    <2>4. \A m \in 1..n - 1 : Along(s, d, m) = q => f - n < y /\ y < f
      BY <2>1
    <2>5. QED
      BY <2>1, <2>2, <2>3, <2>4
  <1>8. CASE kind = "row" /\ d = <<0, 1>>
    <2>1. /\ u = r /\ v = f + n /\ p = x /\ o = r
          /\ \A m \in 1..n - 1 : Along(s, d, m) = q <=> r = x /\ f + m = y
      <3>1. \A m \in 1..7 : Along(s, d, m) = <<r, f + m>>
        BY <1>1, <1>8 DEF Along
      <3>2. p = x /\ o = r
        BY <1>1, <1>2, <1>4, <1>5, <1>8 DEF Line
      <3>3. t = <<r, f + n>>
        BY <3>1
      <3>4. QED
        BY <1>2, <1>3, <3>1, <3>2, <3>3
    <2>2. x = r /\ y < f + n /\ f < y => y - f \in 1..n - 1 /\ f + (y - f) = y
      OBVIOUS
    <2>3. (Within(y, f, v) <=> y < f + n /\ f < y) /\ ~Within(x, r, u)
      BY <2>1 DEF Within
    <2>4. \A m \in 1..n - 1 : Along(s, d, m) = q => y < f + n /\ f < y
      BY <2>1
    <2>5. QED
      BY <2>1, <2>2, <2>3, <2>4
  <1>9. CASE kind = "file" /\ d = <<-1, 0>>
    <2>1. /\ v = f /\ u = r - n /\ p = y /\ o = f
          /\ \A m \in 1..n - 1 : Along(s, d, m) = q <=> f = y /\ r - m = x
      <3>1. \A m \in 1..7 : Along(s, d, m) = <<r - m, f>>
        BY <1>1, <1>9 DEF Along
      <3>2. p = y /\ o = f
        BY <1>1, <1>2, <1>4, <1>5, <1>9 DEF Line
      <3>3. t = <<r - n, f>>
        BY <3>1
      <3>4. QED
        BY <1>2, <1>3, <3>1, <3>2, <3>3
    <2>2. y = f /\ r - n < x /\ x < r => r - x \in 1..n - 1 /\ r - (r - x) = x
      OBVIOUS
    <2>3. (Within(x, r, u) <=> r - n < x /\ x < r) /\ ~Within(y, f, v)
      BY <2>1 DEF Within
    <2>4. \A m \in 1..n - 1 : Along(s, d, m) = q => r - n < x /\ x < r
      BY <2>1
    <2>5. QED
      BY <2>1, <2>2, <2>3, <2>4
  <1>10. CASE kind = "file" /\ d = <<1, 0>>
    <2>1. /\ v = f /\ u = r + n /\ p = y /\ o = f
          /\ \A m \in 1..n - 1 : Along(s, d, m) = q <=> f = y /\ r + m = x
      <3>1. \A m \in 1..7 : Along(s, d, m) = <<r + m, f>>
        BY <1>1, <1>10 DEF Along
      <3>2. p = y /\ o = f
        BY <1>1, <1>2, <1>4, <1>5, <1>10 DEF Line
      <3>3. t = <<r + n, f>>
        BY <3>1
      <3>4. QED
        BY <1>2, <1>3, <3>1, <3>2, <3>3
    <2>2. y = f /\ x < r + n /\ r < x => x - r \in 1..n - 1 /\ r + (x - r) = x
      OBVIOUS
    <2>3. (Within(x, r, u) <=> x < r + n /\ r < x) /\ ~Within(y, f, v)
      BY <2>1 DEF Within
    <2>4. \A m \in 1..n - 1 : Along(s, d, m) = q => x < r + n /\ r < x
      BY <2>1
    <2>5. QED
      BY <2>1, <2>2, <2>3, <2>4
  <1>11. CASE kind = "fall" /\ d = <<-1, -1>>
    <2>1. /\ u = r - n /\ v = f - n /\ p = x - y /\ o = r - f
          /\ \A m \in 1..n - 1 : Along(s, d, m) = q <=> r - m = x /\ f - m = y
      <3>1. \A m \in 1..7 : Along(s, d, m) = <<r - m, f - m>>
        BY <1>1, <1>11 DEF Along
      <3>2. p = x - y /\ o = r - f
        BY <1>1, <1>2, <1>4, <1>5, <1>11 DEF Line
      <3>3. t = <<r - n, f - n>>
        BY <3>1
      <3>4. u = r - n /\ v = f - n
        BY <1>3, <3>3
      <3>5. \A m \in 1..n - 1 : Along(s, d, m) = q <=> r - m = x /\ f - m = y
        BY <1>2, <3>1
      <3>6. QED
        BY <3>2, <3>4, <3>5
    <2>2. x - y = r - f /\ ((r - n < x /\ x < r) \/ (f - n < y /\ y < f)) =>
            r - x \in 1..n - 1 /\ r - (r - x) = x /\ f - (r - x) = y
      OBVIOUS
    <2>3. QED
      BY <2>1, <2>2 DEF Within
  <1>12. CASE kind = "fall" /\ d = <<1, 1>>
    <2>1. /\ u = r + n /\ v = f + n /\ p = x - y /\ o = r - f
          /\ \A m \in 1..n - 1 : Along(s, d, m) = q <=> r + m = x /\ f + m = y
      <3>1. \A m \in 1..7 : Along(s, d, m) = <<r + m, f + m>>
        BY <1>1, <1>12 DEF Along
      <3>2. p = x - y /\ o = r - f
        BY <1>1, <1>2, <1>4, <1>5, <1>12 DEF Line
      <3>3. t = <<r + n, f + n>>
        BY <3>1
      <3>4. QED
        BY <1>2, <1>3, <3>1, <3>2, <3>3
    <2>2. x - y = r - f /\ ((x < r + n /\ r < x) \/ (y < f + n /\ f < y)) =>
            x - r \in 1..n - 1 /\ r + (x - r) = x /\ f + (x - r) = y
      OBVIOUS
    <2>3. QED
      BY <2>1, <2>2 DEF Within
  <1>13. CASE kind = "rise" /\ d = <<-1, 1>>
    <2>1. /\ u = r - n /\ v = f + n /\ p = x + y /\ o = r + f
          /\ \A m \in 1..n - 1 : Along(s, d, m) = q <=> r - m = x /\ f + m = y
      <3>1. \A m \in 1..7 : Along(s, d, m) = <<r - m, f + m>>
        BY <1>1, <1>13 DEF Along
      <3>2. p = x + y /\ o = r + f
        BY <1>1, <1>2, <1>4, <1>5, <1>13 DEF Line
      <3>3. t = <<r - n, f + n>>
        BY <3>1
      <3>4. QED
        BY <1>2, <1>3, <3>1, <3>2, <3>3
    <2>2. x + y = r + f /\ ((r - n < x /\ x < r) \/ (y < f + n /\ f < y)) =>
            r - x \in 1..n - 1 /\ r - (r - x) = x /\ f + (r - x) = y
      OBVIOUS
    <2>3. QED
      BY <2>1, <2>2 DEF Within
  <1>14. CASE kind = "rise" /\ d = <<1, -1>>
    <2>1. /\ u = r + n /\ v = f - n /\ p = x + y /\ o = r + f
          /\ \A m \in 1..n - 1 : Along(s, d, m) = q <=> r + m = x /\ f - m = y
      <3>1. \A m \in 1..7 : Along(s, d, m) = <<r + m, f - m>>
        BY <1>1, <1>14 DEF Along
      <3>2. p = x + y /\ o = r + f
        BY <1>1, <1>2, <1>4, <1>5, <1>14 DEF Line
      <3>3. t = <<r + n, f - n>>
        BY <3>1
      <3>4. u = r + n /\ v = f - n
        BY <1>3, <3>3
      <3>5. \A m \in 1..n - 1 : Along(s, d, m) = q <=> r + m = x /\ f - m = y
        BY <1>2, <3>1
      <3>6. QED
        BY <3>2, <3>4, <3>5
    <2>2. x + y = r + f /\ ((x < r + n /\ r < x) \/ (f - n < y /\ y < f)) =>
            x - r \in 1..n - 1 /\ r + (x - r) = x /\ f - (x - r) = y
      OBVIOUS
    <2>3. QED
      BY <2>1, <2>2 DEF Within
  <1>15. QED
    BY <1>7, <1>8, <1>9, <1>10, <1>11, <1>12, <1>13, <1>14 DEF Ways, Kinds, Straights, Diagonals

LEMMA SeesIsClear ==
  ASSUME NEW b, IsBoard(b), NEW s \in Squares, NEW t \in Squares, NEW kind \in Kinds
  PROVE  Sees(b, kind, s, t) <=>
           \E d \in Ways(kind) : \E n \in 1..7 : Along(s, d, n) = t /\ Clear(b, s, d, n)
  <1>1. \A q \in DOMAIN b : q \in Squares
    BY DEF IsBoard
  <1>2. ASSUME NEW d \in Ways(kind), NEW n \in 1..7, Along(s, d, n) = t
        PROVE  Clear(b, s, d, n) <=>
                 \A q \in DOMAIN b : Line(kind, q) = Line(kind, s) =>
                   ~Within(q[1], s[1], t[1]) /\ ~Within(q[2], s[2], t[2])
    <2>1. Clear(b, s, d, n) <=> \A q \in DOMAIN b : ~\E m \in 1..n - 1 : Along(s, d, m) = q
      BY DEF Clear, Empty
    <2>2. \A q \in DOMAIN b :
            (\E m \in 1..n - 1 : Along(s, d, m) = q) <=>
              /\ Line(kind, q) = Line(kind, s)
              /\ Within(q[1], s[1], t[1]) \/ Within(q[2], s[2], t[2])
      BY <1>1, <1>2, BetweenIsCrossed
    <2>3. QED
      BY <2>1, <2>2
  <1>3. QED
    BY <1>2, LineIsRays DEF Sees

LEMMA SlidesAreLines ==
  ASSUME NEW b, IsBoard(b), NEW s \in Squares, NEW t \in Squares
  PROVE  /\ slideAttacksSquare(b, s, ROOK_DIRECTIONS, t) <=> \E kind \in Straights : Sees(b, kind, s, t)
         /\ slideAttacksSquare(b, s, BISHOP_DIRECTIONS, t) <=> \E kind \in Diagonals : Sees(b, kind, s, t)
         /\ slideAttacksSquare(b, s, QUEEN_DIRECTIONS, t) <=>
              slideAttacksSquare(b, s, ROOK_DIRECTIONS, t) \/ slideAttacksSquare(b, s, BISHOP_DIRECTIONS, t)
  <1>1. /\ ROOK_DIRECTIONS = Ways("row") \cup Ways("file")
        /\ BISHOP_DIRECTIONS = Ways("fall") \cup Ways("rise")
        /\ QUEEN_DIRECTIONS = ROOK_DIRECTIONS \cup BISHOP_DIRECTIONS
    <2>1. \A i, j : <<i, j>> \in {-1, 1} \X {-1, 1} <=>
            <<i, j>> \in {<<-1, -1>>, <<1, 1>>, <<-1, 1>>, <<1, -1>>}
      OBVIOUS
    <2>2. {-1, 1} \X {-1, 1} = {<<-1, -1>>, <<1, 1>>, <<-1, 1>>, <<1, -1>>}
      BY <2>1
    <2>3. QED
      BY <2>2 DEF ROOK_DIRECTIONS, BISHOP_DIRECTIONS, QUEEN_DIRECTIONS, Ways
  <1>2. Straights \subseteq Kinds /\ Diagonals \subseteq Kinds
    BY DEF Kinds
  <1>3. ASSUME NEW kind \in Kinds
        PROVE  Sees(b, kind, s, t) <=> slideAttacksSquare(b, s, Ways(kind), t)
    BY SeesIsClear DEF slideAttacksSquare
  <1>4. ASSUME NEW X, NEW Y
        PROVE  slideAttacksSquare(b, s, X \cup Y, t) <=>
                 slideAttacksSquare(b, s, X, t) \/ slideAttacksSquare(b, s, Y, t)
    BY DEF slideAttacksSquare
  <1>5. QED
    BY <1>1, <1>2, <1>3, <1>4 DEF Straights, Diagonals

LEMMA StepsAreDistances ==
  ASSUME NEW s \in Squares, NEW t \in Squares, NEW c \in Colors
  PROVE  /\ stepAttacksSquare(s, KNIGHT_OFFSETS, t) <=> Apart(s, t) \in {<<1, 2>>, <<2, 1>>}
         /\ stepAttacksSquare(s, KING_OFFSETS, t) <=> s # t /\ Dist(s[1], t[1]) <= 1 /\ Dist(s[2], t[2]) <= 1
         /\ pawnAttacksSquare(s, c, t) <=> Ahead(c, s, t) = 1 /\ Dist(s[2], t[2]) = 1
  <1>1. PICK r \in 0..7, f \in 0..7 : r = s[1] /\ f = s[2] /\ s = <<r, f>>
    BY SquareParts
  <1>2. PICK u \in 0..7, v \in 0..7 : u = t[1] /\ v = t[2] /\ t = <<u, v>>
    BY SquareParts
  <1>3. ASSUME NEW offsets \in SUBSET (Int \X Int)
        PROVE  stepAttacksSquare(s, offsets, t) <=> <<u - r, v - f>> \in offsets
    <2>1. ASSUME NEW d \in offsets PROVE Along(s, d, 1) = t <=> d = <<u - r, v - f>>
      <3>1. PICK i \in Int, j \in Int : d = <<i, j>>
        OBVIOUS
      <3>2. Along(s, d, 1) = <<r + i, f + j>>
        BY <1>1, <3>1 DEF Along
      <3>3. QED
        BY <1>2, <3>1, <3>2
    <2>2. QED
      BY <2>1 DEF stepAttacksSquare
  <1>4. KNIGHT_OFFSETS \in SUBSET (Int \X Int) /\ KING_OFFSETS \in SUBSET (Int \X Int)
    BY Directions
  <1>5. <<u - r, v - f>> \in KNIGHT_OFFSETS <=> Apart(s, t) \in {<<1, 2>>, <<2, 1>>}
    BY <1>1, <1>2 DEF KNIGHT_OFFSETS, Apart, Dist
  <1>6. <<u - r, v - f>> \in KING_OFFSETS <=> s # t /\ Dist(s[1], t[1]) <= 1 /\ Dist(s[2], t[2]) <= 1
    <2>1. <<u - r, v - f>> \in KING_OFFSETS <=> u - r \in -1..1 /\ v - f \in -1..1 /\ (u - r # 0 \/ v - f # 0)
      BY DEF KING_OFFSETS
    <2>2. s # t <=> u - r # 0 \/ v - f # 0
      BY <1>1, <1>2
    <2>3. (Dist(r, u) <= 1 <=> u - r \in -1..1) /\ (Dist(f, v) <= 1 <=> v - f \in -1..1)
      BY DEF Dist
    <2>4. QED
      BY <1>1, <1>2, <2>1, <2>2, <2>3
  <1>7. pawnAttacksSquare(s, c, t) <=> Ahead(c, s, t) = 1 /\ Dist(s[2], t[2]) = 1
    BY <1>1, <1>2 DEF pawnAttacksSquare, Forward, Ahead, Dist, Colors
  <1>8. QED
    BY <1>3, <1>4, <1>5, <1>6, <1>7

\* attacks.js says of one piece what the rules say.
LEMMA AttackIsTaking ==
  ASSUME NEW b, IsBoard(b), NEW c \in Colors, NEW s \in Men(b, c), NEW t \in Squares
  PROVE  AttacksOf(b, s, c, t) <=> Takes(b, s, t)
  <1>1. /\ getPieceColor(b[s]) = c /\ s \in Squares
        /\ pieceType(b[s]) \in {"P", "N", "B", "R", "Q", "K"}
    BY MenOf
  <1>2. PICK type \in {"P", "N", "B", "R", "Q", "K"} : type = pieceType(b[s])
    BY <1>1
  <1>3. Takes(b, s, t) <=>
          \/ type = "P" /\ pawnAttacksSquare(s, c, t)
          \/ type = "N" /\ stepAttacksSquare(s, KNIGHT_OFFSETS, t)
          \/ type = "K" /\ stepAttacksSquare(s, KING_OFFSETS, t)
          \/ type \in {"R", "Q"} /\ slideAttacksSquare(b, s, ROOK_DIRECTIONS, t)
          \/ type \in {"B", "Q"} /\ slideAttacksSquare(b, s, BISHOP_DIRECTIONS, t)
    BY <1>1, <1>2, StepsAreDistances, SlidesAreLines DEF Takes
  <1>4. slideAttacksSquare(b, s, QUEEN_DIRECTIONS, t) <=>
          slideAttacksSquare(b, s, ROOK_DIRECTIONS, t) \/ slideAttacksSquare(b, s, BISHOP_DIRECTIONS, t)
    BY <1>1, SlidesAreLines
  <1>5. QED
    BY <1>2, <1>3, <1>4 DEF AttacksOf

\* A pawn steps as the rules say.
LEMMA PawnSteps ==
  ASSUME NEW b, IsBoard(b), NEW c \in Colors, NEW s \in Men(b, c), NEW t \in Squares
  PROVE  Steps(b, s, t) <=>
           \/ t = <<s[1] + Forward(c), s[2]>> /\ Empty(b, t)
           \/ /\ t = <<s[1] + 2 * Forward(c), s[2]>> /\ Empty(b, t)
              /\ s[1] = IF c = "w" THEN 6 ELSE 1
              /\ Empty(b, <<s[1] + Forward(c), s[2]>>)
  <1>1. getPieceColor(b[s]) = c /\ s \in Squares
    BY MenOf
  <1>2. PICK r \in 0..7, f \in 0..7 : r = s[1] /\ f = s[2] /\ s = <<r, f>>
    BY <1>1, SquareParts
  <1>3. PICK u \in 0..7, v \in 0..7 : u = t[1] /\ v = t[2] /\ t = <<u, v>>
    BY SquareParts
  <1>4. PICK w \in {-1, 1} : w = Forward(c)
    BY DEF Forward
  <1>5. /\ Ahead(c, s, t) = 1 <=> u = r + w
        /\ Ahead(c, s, t) = 2 <=> u = r + 2 * w
    BY <1>2, <1>3, <1>4 DEF Ahead, Forward
  <1>6. rankOf(s) = (IF c = "w" THEN "2" ELSE "7") <=> r = IF c = "w" THEN 6 ELSE 1
    BY <1>1, <1>2, NamesOf DEF Colors
  <1>7. ASSUME u = r + 2 * w, v = f
        PROVE  Sees(b, "file", s, t) <=> Empty(b, <<r + w, f>>)
    <2>1. Sees(b, "file", s, t) <=>
            \A q \in DOMAIN b : q[2] = f => ~Within(q[1], r, u) /\ ~Within(q[2], f, v)
      BY <1>2, <1>3, <1>7 DEF Sees, Line
    <2>2. ASSUME NEW q \in Squares
          PROVE  (q[2] = f /\ (Within(q[1], r, u) \/ Within(q[2], f, v))) <=> q = <<r + w, f>>
      <3>1. PICK x \in 0..7, y \in 0..7 : x = q[1] /\ y = q[2] /\ q = <<x, y>>
        BY SquareParts
      <3>2. QED
        BY <1>7, <3>1 DEF Within
    <2>3. \A q \in DOMAIN b : q \in Squares
      BY DEF IsBoard
    <2>4. QED
      BY <2>1, <2>2, <2>3 DEF Empty
  <1>8. Steps(b, s, t) <=>
          /\ Empty(b, t) /\ v = f
          /\ \/ u = r + w
             \/ u = r + 2 * w /\ Sees(b, "file", s, t) /\ r = IF c = "w" THEN 6 ELSE 1
    BY <1>1, <1>2, <1>3, <1>5, <1>6 DEF Steps, Empty
  <1>9. QED
    BY <1>2, <1>3, <1>4, <1>7, <1>8

\* pseudoMoves.js gives a piece the moves of the rules.
LEMMA MoveIsRule ==
  ASSUME NEW b, IsBoard(b), NEW c \in Colors, NEW s \in Men(b, c), NEW target, NEW t \in Squares
  PROVE  t \in getPseudoLegalMoves(b, s, target) <=> MayGo(b, s, t, target)
  <1>1. /\ getPieceColor(b[s]) = c /\ s \in Squares
        /\ pieceType(b[s]) \in {"P", "N", "B", "R", "Q", "K"}
    BY MenOf
  <1>2. PICK type \in {"P", "N", "B", "R", "Q", "K"} : type = pieceType(b[s])
    BY <1>1
  <1>3. isInBounds(t)
    BY SquareParts
  <1>4. PICK free \in BOOLEAN : free <=> ~Owns(b, t, c)
    OBVIOUS
  <1>5. (t \in DOMAIN b => getPieceColor(b[t]) # getPieceColor(b[s])) <=> free
    BY <1>1, <1>4 DEF Owns, Empty
  <1>6. Takes(b, s, t) <=> AttacksOf(b, s, c, t)
    BY AttackIsTaking
  <1>7. CASE type # "P"
    <2>1. ASSUME NEW offsets
          PROVE  t \in getSteppingMoves(b, s, offsets, c) <=> free /\ stepAttacksSquare(s, offsets, t)
      BY <1>3, <1>4 DEF getSteppingMoves, stepAttacksSquare
    <2>2. ASSUME NEW directions
          PROVE  t \in getSlidingMoves(b, s, directions, c) <=> free /\ slideAttacksSquare(b, s, directions, t)
      BY <1>3, <1>4 DEF getSlidingMoves, slideAttacksSquare
    <2>3. PICK moves : moves = getPseudoLegalMoves(b, s, target)
      OBVIOUS
    <2>4. moves = IF type = "N" THEN getSteppingMoves(b, s, KNIGHT_OFFSETS, c)
                  ELSE IF type = "K" THEN getSteppingMoves(b, s, KING_OFFSETS, c)
                  ELSE IF type = "R" THEN getSlidingMoves(b, s, ROOK_DIRECTIONS, c)
                  ELSE IF type = "B" THEN getSlidingMoves(b, s, BISHOP_DIRECTIONS, c)
                  ELSE getSlidingMoves(b, s, QUEEN_DIRECTIONS, c)
      BY <1>1, <1>2, <1>7, <2>3 DEF getPseudoLegalMoves
    <2>5. t \in moves <=> free /\ AttacksOf(b, s, c, t)
      BY <1>2, <1>7, <2>1, <2>2, <2>4 DEF AttacksOf
    <2>6. QED
      BY <1>2, <1>5, <1>6, <1>7, <2>3, <2>5 DEF MayGo
  <1>8. CASE type = "P"
    <2>1. getPseudoLegalMoves(b, s, target) = getPawnMoves(b, s, c, target)
      BY <1>1, <1>2, <1>8 DEF getPseudoLegalMoves
    <2>2. t \in getPawnMoves(b, s, c, target) <=>
            \/ Steps(b, s, t)
            \/ /\ t \in {<<s[1] + Forward(c), s[2] - 1>>, <<s[1] + Forward(c), s[2] + 1>>}
               /\ Owns(b, t, getOpponentColor(c)) \/ (t = target /\ Empty(b, t))
      <3>1. Steps(b, s, t) <=>
              \/ t = <<s[1] + Forward(c), s[2]>> /\ Empty(b, t)
              \/ /\ t = <<s[1] + 2 * Forward(c), s[2]>> /\ Empty(b, t)
                 /\ s[1] = IF c = "w" THEN 6 ELSE 1
                 /\ Empty(b, <<s[1] + Forward(c), s[2]>>)
        BY PawnSteps
      <3>2. t \in getPawnMoves(b, s, c, target) <=>
              \/ /\ t = <<s[1] + Forward(c), s[2]>> /\ isInBounds(t) /\ Empty(b, t)
              \/ /\ t = <<s[1] + 2 * Forward(c), s[2]>> /\ isInBounds(t) /\ Empty(b, t)
                 /\ s[1] = IF c = "w" THEN 6 ELSE 1
                 /\ Empty(b, <<s[1] + Forward(c), s[2]>>)
              \/ /\ t \in {<<s[1] + Forward(c), s[2] - 1>>, <<s[1] + Forward(c), s[2] + 1>>}
                 /\ isInBounds(t)
                 /\ Owns(b, t, getOpponentColor(c)) \/ (t = target /\ Empty(b, t))
        BY <1>1, PawnMoves
      <3>3. QED
        BY <1>3, <3>1, <3>2
    <2>3. t \in {<<s[1] + Forward(c), s[2] - 1>>, <<s[1] + Forward(c), s[2] + 1>>} <=> Takes(b, s, t)
      <3>1. PICK r \in 0..7, f \in 0..7, w \in {-1, 1} : r = s[1] /\ f = s[2] /\ w = Forward(c)
        BY <1>1, SquareParts DEF Forward
      <3>2. PICK u \in 0..7, v \in 0..7 : u = t[1] /\ v = t[2] /\ t = <<u, v>>
        BY SquareParts
      <3>3. t \in {<<r + w, f - 1>>, <<r + w, f + 1>>} <=> u = r + w /\ v - f \in {-1, 1}
        BY <3>2
      <3>4. AttacksOf(b, s, c, t) <=> u = r + w /\ v - f \in {-1, 1}
        BY <1>2, <1>8, <3>1, <3>2 DEF AttacksOf, pawnAttacksSquare
      <3>5. QED
        BY <1>6, <3>1, <3>3, <3>4
    <2>4. free => (Owns(b, t, getOpponentColor(c)) <=> t \in DOMAIN b)
      <3>1. t \in DOMAIN b => getPieceColor(b[t]) \in Colors
        BY SymbolParts DEF IsBoard
      <3>2. QED
        BY <1>4, <3>1, OpponentOf DEF Owns, Empty
    <2>5. Owns(b, t, getOpponentColor(c)) \/ Empty(b, t) => free
      BY <1>4, OpponentOf DEF Owns, Empty
    <2>6. Steps(b, s, t) => Empty(b, t)
      BY DEF Steps, Empty
    <2>7. MayGo(b, s, t, target) <=> free /\ (Steps(b, s, t) \/ (Takes(b, s, t) /\ (t \in DOMAIN b \/ t = target)))
      BY <1>2, <1>5, <1>8 DEF MayGo
    <2>8. QED
      BY <2>1, <2>2, <2>3, <2>4, <2>5, <2>6, <2>7 DEF Empty
  <1>9. QED
    BY <1>7, <1>8

\* Behind the square that may be captured in passing there is an enemy pawn.
PassingOK(b, c, target) ==
  target # NoSquare =>
    Holds(b, Along(target, <<-Forward(c), 0>>, 1), <<getOpponentColor(c), "P">>)

\* Only the mover, what it captures, and a pawn captured in passing leave their squares.
LEMMA AfterMove ==
  ASSUME NEW b, IsBoard(b), NEW c \in Colors, NEW s \in Men(b, c), NEW target, PassingOK(b, c, target),
         NEW t \in getPseudoLegalMoves(b, s, target),
         NEW a, a = simulateMove(b, s, t, target)
  PROVE  /\ IsBoard(a) /\ t \in DOMAIN a /\ a[t] = b[s] /\ s \notin DOMAIN a
         /\ a = [x \in DOMAIN a |-> a[x]]
         /\ \A x \in DOMAIN a : x # t => x \in DOMAIN b /\ a[x] = b[x]
         /\ \A x \in DOMAIN b : x \notin {s, t} => x \in DOMAIN a \/ b[x] = <<getOpponentColor(c), "P">>
  <1>1. /\ t \in Squares /\ t # s /\ s \in Squares /\ s \in DOMAIN b
        /\ pieceType(b[s]) = "P" => t[1] # s[1] /\ t \in getPawnMoves(b, s, c, target)
    BY MenOf, MovesOf
  <1>2. PICK passed : passed = <<s[1], t[2]>>
    OBVIOUS
  <1>3. PICK inPassing \in BOOLEAN : inPassing <=> pieceType(b[s]) = "P" /\ t = target /\ Empty(b, t)
    OBVIOUS
  <1>4. PICK gone : gone = {s} \cup IF inPassing THEN {passed} ELSE {}
    OBVIOUS
  <1>5. a = [x \in (DOMAIN b \cup {t}) \ gone |-> IF x = t THEN b[s] ELSE b[x]]
    BY <1>2, <1>3, <1>4 DEF simulateMove
  <1>6. t \notin gone
    <2>1. inPassing => t[1] # s[1]
      BY <1>1, <1>3
    <2>2. QED
      BY <1>1, <1>2, <1>4, <2>1
  <1>7. inPassing => Holds(b, passed, <<getOpponentColor(c), "P">>)
    <2>1. SUFFICES ASSUME inPassing PROVE Holds(b, passed, <<getOpponentColor(c), "P">>)
      OBVIOUS
    <2>2. PICK r \in 0..7, f \in 0..7, w \in {-1, 1} : r = s[1] /\ f = s[2] /\ w = Forward(c)
      BY <1>1, SquareParts DEF Forward
    <2>3. target = t /\ t # NoSquare /\ t \in getPawnMoves(b, s, c, target)
      BY <1>1, <1>3, <2>1, SquareParts
    <2>4. Holds(b, Along(t, <<-w, 0>>, 1), <<getOpponentColor(c), "P">>)
      BY <2>2, <2>3 DEF PassingOK
    <2>5. t \in {<<r + w, f>>, <<r + 2 * w, f>>, <<r + w, f - 1>>, <<r + w, f + 1>>}
      <3>1. \/ t = <<s[1] + Forward(c), s[2]>>
            \/ t = <<s[1] + 2 * Forward(c), s[2]>>
            \/ t \in {<<s[1] + Forward(c), s[2] - 1>>, <<s[1] + Forward(c), s[2] + 1>>}
        BY <1>1, <2>3, PawnMoves
      <3>2. QED
        BY <2>2, <3>1
    <2>6. CASE t[1] = r + w
      <3>1. Along(t, <<-w, 0>>, 1) = passed
        BY <1>1, <1>2, <2>2, <2>6, SquareParts DEF Along
      <3>2. QED
        BY <2>4, <3>1
    <2>7. CASE t = <<r + 2 * w, f>>
      \* The square a pawn jumps over is empty, and the pawn to be captured stands on it.
      <3>1. Empty(b, <<r + w, f>>)
        BY <1>1, <2>2, <2>3, <2>7, PawnMoves
      <3>2. Along(t, <<-w, 0>>, 1) = <<r + w, f>>
        BY <2>2, <2>7 DEF Along
      <3>3. QED
        BY <2>4, <3>1, <3>2 DEF Holds
    <2>8. QED
      BY <2>2, <2>5, <2>6, <2>7
  <1>8. /\ DOMAIN a = (DOMAIN b \cup {t}) \ gone /\ t \in DOMAIN a /\ a[t] = b[s]
        /\ \A x \in DOMAIN a : x # t => a[x] = b[x]
    BY <1>5, <1>6
  <1>9. IsBoard(a)
    BY <1>1, <1>8 DEF IsBoard
  <1>10. \A x \in DOMAIN b : x \notin {s, t} => x \in DOMAIN a \/ b[x] = <<getOpponentColor(c), "P">>
    BY <1>4, <1>7, <1>8 DEF Holds
  <1>11. QED
    BY <1>4, <1>5, <1>8, <1>9, <1>10

(***************************************************************************)
(* Kings                                                                   *)
(***************************************************************************)
\* The one king of a colour
IsKing(b, c, k) == k \in DOMAIN b /\ \A x \in DOMAIN b : b[x] = <<c, "K">> <=> x = k

LEMMA KingFound ==
  ASSUME NEW b, IsBoard(b), NEW c \in Colors, NEW k, IsKing(b, c, k)
  PROVE  findKingSquare(b, c) = k /\ k \in Men(b, c) /\ k # NoSquare /\ k \in Squares
  <1>1. {s \in DOMAIN b : b[s] = <<c, "K">>} = {k}
    BY DEF IsKing
  <1>2. findKingSquare(b, c) = k
    BY <1>1 DEF findKingSquare
  <1>3. k \in Men(b, c) /\ k \in Squares
    BY DEF IsKing, Men, getPieceColor, IsBoard
  <1>4. QED
    BY <1>2, <1>3, SquareParts

LEMMA KingCounted ==
  ASSUME NEW b, IsBoard(b), NEW c
  PROVE  Cardinality({s \in DOMAIN b : b[s] = <<c, "K">>}) = 1 <=> \E k : IsKing(b, c, k)
  <1>1. PICK K : K = {s \in DOMAIN b : b[s] = <<c, "K">>}
    OBVIOUS
  <1>2. IsFiniteSet(K)
    <2>1. IsFiniteSet(0..7)
      <3>1. 0 \in Int /\ 7 \in Int
        OBVIOUS
      <3>2. QED
        BY <3>1, FS_Interval
    <2>2. IsFiniteSet(Squares)
      BY <2>1, FS_Product DEF Squares
    <2>3. K \in SUBSET Squares
      BY <1>1 DEF IsBoard
    <2>4. QED
      BY <2>2, <2>3, FS_Subset
  <1>3. Cardinality(K) = 1 <=> \E k : K = {k}
    BY <1>2, FS_Singleton
  <1>4. \A k : K = {k} <=> IsKing(b, c, k)
    BY <1>1 DEF IsKing
  <1>5. QED
    BY <1>1, <1>3, <1>4

\* The mover's king stays where it is, or is the piece that moved; the other one
\* stays unless it is captured.
LEMMA KingsAfterMove ==
  ASSUME NEW b, IsBoard(b), NEW c \in Colors, NEW s \in Men(b, c), NEW target, PassingOK(b, c, target),
         NEW t \in getPseudoLegalMoves(b, s, target),
         NEW a, a = simulateMove(b, s, t, target),
         NEW k, IsKing(b, c, k), NEW l, IsKing(b, getOpponentColor(c), l)
  PROVE  /\ IsKing(a, c, IF s = k THEN t ELSE k)
         /\ t # l => IsKing(a, getOpponentColor(c), l)
  <1>1. /\ IsBoard(a) /\ t \in DOMAIN a /\ a[t] = b[s] /\ s \notin DOMAIN a
        /\ \A x \in DOMAIN a : x # t => x \in DOMAIN b /\ a[x] = b[x]
        /\ \A x \in DOMAIN b : x \notin {s, t} => x \in DOMAIN a \/ b[x] = <<getOpponentColor(c), "P">>
    BY AfterMove
  <1>2. s \in DOMAIN b /\ getPieceColor(b[s]) = c /\ ~Owns(b, t, c)
    BY MenOf, MovesOf
  <1>3. k \in DOMAIN b /\ b[k] = <<c, "K">> /\ l \in DOMAIN b /\ b[l] = <<getOpponentColor(c), "K">>
    BY DEF IsKing
  <1>4. t # k /\ s # l /\ k # l
    BY <1>2, <1>3, OpponentOf DEF Owns, Empty, getPieceColor
  <1>5. IsKing(a, c, IF s = k THEN t ELSE k)
    BY <1>1, <1>2, <1>3, <1>4 DEF IsKing
  <1>6. ASSUME t # l PROVE IsKing(a, getOpponentColor(c), l)
    <2>1. l \in DOMAIN a /\ a[l] = <<getOpponentColor(c), "K">>
      BY <1>1, <1>3, <1>4, <1>6
    <2>2. b[s] # <<getOpponentColor(c), "K">>
      BY <1>2, OpponentOf DEF getPieceColor
    <2>3. QED
      BY <1>1, <2>1, <2>2 DEF IsKing
  <1>7. QED
    BY <1>5, <1>6

HomeRow(c) == IF c = "w" THEN 7 ELSE 0

LEMMA HomeIs ==
  ASSUME NEW c \in Colors, NEW j \in 0..7
  PROVE  Home(Files[j + 1], c) = <<HomeRow(c), j>>
  <1>1. PICK i \in 0..7 : i = HomeRow(c)
    BY DEF HomeRow
  <1>2. PICK rank : rank = IF c = "w" THEN "1" ELSE "8"
    OBVIOUS
  <1>3. <<i, j>> \in Squares
    BY DEF Squares
  <1>4. fileOf(<<i, j>>) = Files[j + 1] /\ rankOf(<<i, j>>) = rank
    <2>1. fileOf(<<i, j>>) = Files[j + 1]
      BY DEF fileOf
    <2>2. rankOf(<<i, j>>) = Ranks[8 - i]
      BY DEF rankOf
    <2>3. Ranks[8 - i] = rank
      <3>1. CASE c = "w"
        BY <3>1, <1>1, <1>2 DEF HomeRow, Ranks
      <3>2. CASE c # "w"
        BY <3>2, <1>1, <1>2 DEF HomeRow, Ranks
      <3>3. QED
        BY <3>1, <3>2
    <2>4. QED
      BY <2>1, <2>2, <2>3
  <1>5. coordsToAlgebraic(<<i, j>>) = <<Files[j + 1], rank>>
    BY <1>4 DEF coordsToAlgebraic
  <1>6. PICK h : h = Home(Files[j + 1], c)
    OBVIOUS
  <1>7. h \in Squares /\ coordsToAlgebraic(h) = <<Files[j + 1], rank>>
    <2>1. h = CHOOSE s \in Squares : coordsToAlgebraic(s) = <<Files[j + 1], rank>>
      BY <1>2, <1>6 DEF Home, algebraicToCoords
    <2>2. QED
      BY <1>3, <1>5, <2>1
  <1>8. fileOf(h) = fileOf(<<i, j>>) /\ rankOf(h) = rankOf(<<i, j>>)
    BY <1>5, <1>7 DEF coordsToAlgebraic
  <1>9. QED
    BY <1>1, <1>3, <1>6, <1>7, <1>8, SameName

LEMMA CastlingSquares ==
  ASSUME NEW c \in Colors
  PROVE  /\ DOMAIN Castlings = {"K", "Q"}
         /\ Home("e", c) = <<HomeRow(c), 4>>
         /\ Corner(<<c, "K">>) = <<HomeRow(c), 7>> /\ Corner(<<c, "Q">>) = <<HomeRow(c), 0>>
         /\ Home(Castlings["K"].land, c) = <<HomeRow(c), 6>>
         /\ Home(Castlings["Q"].land, c) = <<HomeRow(c), 2>>
         /\ Home(Castlings["K"].beside, c) = <<HomeRow(c), 5>>
         /\ Home(Castlings["Q"].beside, c) = <<HomeRow(c), 3>>
  <1>1. /\ Files[0 + 1] = "a" /\ Files[2 + 1] = "c" /\ Files[3 + 1] = "d" /\ Files[4 + 1] = "e"
        /\ Files[5 + 1] = "f" /\ Files[6 + 1] = "g" /\ Files[7 + 1] = "h"
    BY DEF Files
  <1>2. /\ Home("a", c) = <<HomeRow(c), 0>> /\ Home("c", c) = <<HomeRow(c), 2>>
        /\ Home("d", c) = <<HomeRow(c), 3>> /\ Home("e", c) = <<HomeRow(c), 4>>
        /\ Home("f", c) = <<HomeRow(c), 5>> /\ Home("g", c) = <<HomeRow(c), 6>>
        /\ Home("h", c) = <<HomeRow(c), 7>>
    <2>1. /\ Home(Files[0 + 1], c) = <<HomeRow(c), 0>> /\ Home(Files[2 + 1], c) = <<HomeRow(c), 2>>
          /\ Home(Files[3 + 1], c) = <<HomeRow(c), 3>> /\ Home(Files[4 + 1], c) = <<HomeRow(c), 4>>
          /\ Home(Files[5 + 1], c) = <<HomeRow(c), 5>> /\ Home(Files[6 + 1], c) = <<HomeRow(c), 6>>
          /\ Home(Files[7 + 1], c) = <<HomeRow(c), 7>>
      BY HomeIs
    <2>2. QED
      BY <1>1, <2>1
  <1>3. /\ DOMAIN Castlings = {"K", "Q"}
        /\ Castlings["K"].land = "g" /\ Castlings["Q"].land = "c"
        /\ Castlings["K"].rook = "h" /\ Castlings["Q"].rook = "a"
        /\ Castlings["K"].beside = "f" /\ Castlings["Q"].beside = "d"
    BY DEF Castlings
  <1>4. QED
    BY <1>2, <1>3 DEF Corner

(***************************************************************************)
(* Rays                                                                    *)
(***************************************************************************)
Unit == (-1..1) \X (-1..1)

\* A ray meets a square once.
LEMMA RayMeetsOnce ==
  ASSUME NEW s \in Squares, NEW d \in Unit, d # <<0, 0>>, NEW m \in 1..7, NEW n \in 1..7,
         Along(s, d, m) = Along(s, d, n)
  PROVE  m = n
  <1>1. PICK i \in -1..1, j \in -1..1 : d = <<i, j>>
    BY DEF Unit
  <1>2. PICK r \in 0..7, f \in 0..7 : r = s[1] /\ f = s[2]
    BY SquareParts
  <1>3. r + m * i = r + n * i /\ f + m * j = f + n * j
    BY <1>1, <1>2 DEF Along
  <1>4. CASE i # 0
    <2>1. i = 1 \/ i = -1
      BY <1>4
    <2>2. QED
      BY <1>3, <2>1
  <1>5. CASE j # 0
    <2>1. j = 1 \/ j = -1
      BY <1>5
    <2>2. QED
      BY <1>3, <2>1
  <1>6. QED
    BY <1>1, <1>4, <1>5

\* A ray that meets a row twice runs along it.
LEMMA RowRay ==
  ASSUME NEW s \in Squares, NEW d \in Unit, NEW row \in Int, NEW x \in Int, NEW y \in Int, x # y,
         NEW m \in 1..7, NEW n \in 1..7, m # n,
         Along(s, d, m) = <<row, x>>, Along(s, d, n) = <<row, y>>
  PROVE  s[1] = row /\ (d = <<0, 1>> \/ d = <<0, -1>>)
  <1>1. PICK i \in -1..1, j \in -1..1 : d = <<i, j>>
    BY DEF Unit
  <1>2. PICK r \in 0..7, f \in 0..7 : r = s[1] /\ f = s[2]
    BY SquareParts
  <1>3. /\ r + m * i = row /\ r + n * i = row /\ f + m * j = x /\ f + n * j = y
    BY <1>1, <1>2 DEF Along
  <1>4. i = 0
    <2>1. i = 0 \/ i = 1 \/ i = -1
      OBVIOUS
    <2>2. QED
      BY <1>3, <2>1
  <1>5. j = 1 \/ j = -1
    BY <1>3
  <1>6. r = row
    BY <1>3, <1>4
  <1>7. QED
    BY <1>1, <1>2, <1>4, <1>5, <1>6

\* A piece attacks on one board what it attacks on another where its rays are as
\* clear; or it attacks the square its ray is now stopped at.
LEMMA AttackCarries ==
  ASSUME NEW a, NEW b, NEW s, a[s] = b[s], NEW c, NEW t, NEW u, AttacksOf(a, s, c, t),
         \A d \in QUEEN_DIRECTIONS, n \in 1..7 : Along(s, d, n) = t /\ Clear(a, s, d, n) =>
           Clear(b, s, d, n) \/ \E m \in 1..7 : Along(s, d, m) = u /\ Clear(b, s, d, m)
  PROVE  AttacksOf(b, s, c, t) \/ AttacksOf(b, s, c, u)
  <1>1. ROOK_DIRECTIONS \subseteq QUEEN_DIRECTIONS /\ BISHOP_DIRECTIONS \subseteq QUEEN_DIRECTIONS
    BY DEF QUEEN_DIRECTIONS
  <1>2. ASSUME NEW directions \in SUBSET QUEEN_DIRECTIONS, slideAttacksSquare(a, s, directions, t)
        PROVE  slideAttacksSquare(b, s, directions, t) \/ slideAttacksSquare(b, s, directions, u)
    BY <1>2 DEF slideAttacksSquare
  <1>3. QED
    BY <1>1, <1>2 DEF AttacksOf

LEMMA AttackedCarries ==
  ASSUME NEW a, NEW b, NEW c, NEW t, NEW u, isSquareAttacked(a, t, c),
         \A s \in Men(a, c) :
           /\ s \in Men(b, c) /\ a[s] = b[s]
           /\ \A d \in QUEEN_DIRECTIONS, n \in 1..7 : Along(s, d, n) = t /\ Clear(a, s, d, n) =>
                Clear(b, s, d, n) \/ \E m \in 1..7 : Along(s, d, m) = u /\ Clear(b, s, d, m)
  PROVE  isSquareAttacked(b, t, c) \/ isSquareAttacked(b, u, c)
  <1>1. PICK s \in Men(a, c) : AttacksOf(a, s, c, t)
    BY AttackedBy
  <1>2. s \in Men(b, c) /\ (AttacksOf(b, s, c, t) \/ AttacksOf(b, s, c, u))
    BY <1>1, AttackCarries
  <1>3. QED
    BY <1>2, AttackedBy

\* Changing the type of a piece changes nothing of what its opponent attacks.
LEMMA PromotionKeepsAttacks ==
  ASSUME NEW a, NEW b, NEW c, NEW t, DOMAIN a = DOMAIN b,
         \A x \in DOMAIN a : a[x] = b[x] \/ (getPieceColor(a[x]) # c /\ getPieceColor(b[x]) # c),
         isSquareAttacked(a, t, c)
  PROVE  isSquareAttacked(b, t, c)
  <1>1. \A s, d, n : Clear(a, s, d, n) => Clear(b, s, d, n)
    BY DEF Clear, Empty
  <1>2. \A s \in Men(a, c) : s \in Men(b, c) /\ a[s] = b[s]
    BY DEF Men
  <1>3. QED
    BY <1>1, <1>2, AttackedCarries

(***************************************************************************)
(* Castling                                                                *)
(***************************************************************************)
LEMMA SimpleMove ==
  ASSUME NEW b, NEW from, NEW to, to # from, NEW target,
         ~(pieceType(b[from]) = "P" /\ to = target /\ Empty(b, to)),
         NEW a, a = simulateMove(b, from, to, target)
  PROVE  /\ DOMAIN a = (DOMAIN b \cup {to}) \ {from} /\ a[to] = b[from]
         /\ a = [x \in DOMAIN a |-> a[x]]
         /\ \A x \in DOMAIN a : x # to => a[x] = b[x]
  <1>1. a = [x \in (DOMAIN b \cup {to}) \ {from} |-> IF x = to THEN b[from] ELSE b[x]]
    BY DEF simulateMove
  <1>2. QED
    BY <1>1

\* What getCastlingMoves requires of the board
MayCastle(b, c, side) ==
  /\ Holds(b, Home("e", c), <<c, "K">>) /\ Holds(b, Corner(<<c, side>>), <<c, "R">>)
  /\ Empty(b, Home(Castlings[side].land, c)) /\ Empty(b, Home(Castlings[side].beside, c))
  /\ ~isSquareAttacked(b, Home("e", c), getOpponentColor(c))
  /\ ~isSquareAttacked(b, Home(Castlings[side].land, c), getOpponentColor(c))
  /\ ~isSquareAttacked(b, Home(Castlings[side].beside, c), getOpponentColor(c))

LEMMA CastlingMove ==
  ASSUME NEW b, NEW c \in Colors, NEW rights, NEW side \in {"K", "Q"},
         Home(Castlings[side].land, c) \in getCastlingMoves(b, c, rights)
  PROVE  rights[<<c, side>>] /\ MayCastle(b, c, side)
  <1>1. PICK z \in DOMAIN Castlings :
          /\ Home(Castlings[side].land, c) = Home(Castlings[z].land, c)
          /\ Holds(b, Home("e", c), <<c, "K">>)
          /\ ~isSquareAttacked(b, Home("e", c), getOpponentColor(c))
          /\ rights[<<c, z>>]
          /\ \A f \in Castlings[z].clear : Empty(b, Home(f, c))
          /\ Holds(b, Home(Castlings[z].rook, c), <<c, "R">>)
          /\ \A f \in Castlings[z].path : ~isSquareAttacked(b, Home(f, c), getOpponentColor(c))
    BY DEF getCastlingMoves
  <1>2. z = side
    <2>1. z \in {"K", "Q"}
      BY CastlingSquares
    <2>2. Home(Castlings["K"].land, c) # Home(Castlings["Q"].land, c)
      <3>1. <<HomeRow(c), 6>> # <<HomeRow(c), 2>>
        OBVIOUS
      <3>2. QED
        BY <3>1, CastlingSquares
    <2>3. QED
      BY <1>1, <2>1, <2>2
  <1>3. /\ Castlings[side].land \in Castlings[side].clear \cap Castlings[side].path
        /\ Castlings[side].beside \in Castlings[side].clear \cap Castlings[side].path
    BY DEF Castlings
  <1>4. Corner(<<c, side>>) = Home(Castlings[side].rook, c)
    BY DEF Corner
  <1>5. QED
    BY <1>1, <1>2, <1>3, <1>4 DEF MayCastle

\* The squares of a castling: those of the king, of the rook, and where they go.
LEMMA CastlingRow ==
  ASSUME NEW c \in Colors, NEW side \in {"K", "Q"}
  PROVE  \E R \in {0, 7}, q \in 0..7, l \in 0..7, h \in 0..7 :
           /\ (q = 7 /\ l = 6 /\ h = 5) \/ (q = 0 /\ l = 2 /\ h = 3)
           /\ R = HomeRow(c)
           /\ Home("e", c) = <<R, 4>> /\ Corner(<<c, side>>) = <<R, q>>
           /\ Home(Castlings[side].land, c) = <<R, l>> /\ Home(Castlings[side].beside, c) = <<R, h>>
  <1>1. HomeRow(c) \in {0, 7}
    BY DEF HomeRow
  <1>2. CASE side = "K"
    <2>1. PICK q \in 0..7, l \in 0..7, h \in 0..7 : q = 7 /\ l = 6 /\ h = 5
      OBVIOUS
    <2>2. QED
      BY <1>1, <1>2, <2>1, CastlingSquares
  <1>3. CASE side = "Q"
    <2>1. PICK q \in 0..7, l \in 0..7, h \in 0..7 : q = 0 /\ l = 2 /\ h = 3
      OBVIOUS
    <2>2. QED
      BY <1>1, <1>3, <2>1, CastlingSquares
  <1>4. QED
    BY <1>2, <1>3

\* A ray to the square where the king lands, over a square that king or rook
\* left, crosses the square the rook goes to.
LEMMA CastlingRay ==
  ASSUME NEW s \in Squares, NEW d \in Unit, NEW R \in {0, 7}, NEW q \in 0..7, NEW l \in 0..7, NEW h \in 0..7,
         (q = 7 /\ l = 6 /\ h = 5) \/ (q = 0 /\ l = 2 /\ h = 3),
         NEW m \in 1..7, NEW n \in 1..7, m < n, NEW x \in {4, q},
         Along(s, d, m) = <<R, x>>, Along(s, d, n) = <<R, l>>
  PROVE  m + 1 \in 1..n - 1 /\ Along(s, d, m + 1) = <<R, h>>
  <1>1. x # l /\ x \in Int /\ l \in Int /\ R \in Int /\ m # n
    OBVIOUS
  <1>2. s[1] = R /\ (d = <<0, 1>> \/ d = <<0, -1>>)
    BY <1>1, RowRay
  <1>3. PICK f \in 0..7 : f = s[2]
    BY SquareParts
  <1>4. CASE d = <<0, 1>>
    <2>1. /\ Along(s, d, m) = <<R, f + m>> /\ Along(s, d, n) = <<R, f + n>>
          /\ Along(s, d, m + 1) = <<R, f + m + 1>>
      BY <1>2, <1>3, <1>4 DEF Along
    <2>2. x = f + m /\ l = f + n
      BY <2>1
    <2>3. x = 4 /\ n = m + 2 /\ h = f + m + 1
      BY <2>2
    <2>4. QED
      BY <2>1, <2>3
  <1>5. CASE d = <<0, -1>>
    <2>1. /\ Along(s, d, m) = <<R, f - m>> /\ Along(s, d, n) = <<R, f - n>>
          /\ Along(s, d, m + 1) = <<R, f - m - 1>>
      BY <1>2, <1>3, <1>5 DEF Along
    <2>2. x = f - m /\ l = f - n
      BY <2>1
    <2>3. x = 4 /\ n = m + 2 /\ h = f - m - 1
      BY <2>2
    <2>4. QED
      BY <2>1, <2>3
  <1>6. QED
    BY <1>2, <1>4, <1>5

\* The board a castling leaves
IsCastled(b, a, c, side) ==
  LET land == Home(Castlings[side].land, c)
      beside == Home(Castlings[side].beside, c)
  IN /\ DOMAIN a = (DOMAIN b \cup {land, beside}) \ {Home("e", c), Corner(<<c, side>>)}
     /\ a[land] = <<c, "K">> /\ a[beside] = <<c, "R">>
     /\ \A x \in DOMAIN a \cap DOMAIN b : a[x] = b[x]

\* A king that has castled is not attacked: a ray that reaches it over a square
\* that king or rook has left also crosses the square of the rook, or comes from
\* outside the board.
LEMMA CastledKing ==
  ASSUME NEW b, IsBoard(b), NEW c \in Colors, NEW side \in {"K", "Q"}, MayCastle(b, c, side),
         NEW a, IsBoard(a), IsCastled(b, a, c, side)
  PROVE  ~isSquareAttacked(a, Home(Castlings[side].land, c), getOpponentColor(c))
  <1>1. PICK R \in {0, 7}, q \in 0..7, l \in 0..7, h \in 0..7 :
           /\ (q = 7 /\ l = 6 /\ h = 5) \/ (q = 0 /\ l = 2 /\ h = 3)
           /\ R = HomeRow(c)
           /\ Home("e", c) = <<R, 4>> /\ Corner(<<c, side>>) = <<R, q>>
           /\ Home(Castlings[side].land, c) = <<R, l>> /\ Home(Castlings[side].beside, c) = <<R, h>>
    BY CastlingRow
  <1>2. PICK e : e = <<R, 4>>
    OBVIOUS
  <1>3. PICK corner : corner = <<R, q>>
    OBVIOUS
  <1>4. PICK land : land = <<R, l>>
    OBVIOUS
  <1>5. PICK beside : beside = <<R, h>>
    OBVIOUS
  <1>6. /\ DOMAIN a = (DOMAIN b \cup {land, beside}) \ {e, corner} /\ beside \in DOMAIN a
        /\ Empty(b, land) /\ Empty(b, beside) /\ a[land] = <<c, "K">> /\ a[beside] = <<c, "R">>
        /\ ~isSquareAttacked(b, land, getOpponentColor(c)) /\ \A x \in DOMAIN a \cap DOMAIN b : a[x] = b[x]
    <2>1. beside # e /\ beside # corner
      BY <1>1, <1>2, <1>3, <1>5
    <2>2. QED
      BY <1>1, <1>2, <1>3, <1>4, <1>5, <2>1 DEF MayCastle, IsCastled
  <1>7. SUFFICES ASSUME isSquareAttacked(a, land, getOpponentColor(c)) PROVE FALSE
    BY <1>1, <1>4
  <1>8. ASSUME NEW s \in Men(a, getOpponentColor(c))
        PROVE  /\ s \in Men(b, getOpponentColor(c)) /\ a[s] = b[s]
               /\ \A d \in QUEEN_DIRECTIONS, n \in 1..7 :
                    Along(s, d, n) = land /\ Clear(a, s, d, n) => Clear(b, s, d, n)
    <2>1. s \in DOMAIN a /\ s \in Squares /\ getPieceColor(a[s]) # c
      BY MenOf, OpponentOf
    <2>2. s # land /\ s # beside
      BY <1>6, <2>1 DEF getPieceColor
    <2>3. s \in DOMAIN b /\ a[s] = b[s]
      BY <1>6, <2>1, <2>2
    <2>4. ASSUME NEW d \in QUEEN_DIRECTIONS, NEW n \in 1..7,
                 Along(s, d, n) = land, Clear(a, s, d, n), NEW m \in 1..n - 1,
                 ~Empty(b, Along(s, d, m))
          PROVE  FALSE
      <3>1. m \in 1..7 /\ m < n
        BY <2>4
      <3>2. Along(s, d, m) \in {e, corner}
        BY <1>6, <2>4 DEF Clear, Empty
      <3>3. PICK x \in {4, q} : Along(s, d, m) = <<R, x>>
        BY <1>2, <1>3, <3>2
      <3>4. d \in Unit /\ Along(s, d, n) = <<R, l>>
        BY <1>4, <2>4, Directions DEF Unit
      <3>8. m + 1 \in 1..n - 1 /\ Along(s, d, m + 1) = beside
        BY <1>1, <1>5, <2>1, <3>1, <3>3, <3>4, CastlingRay
      <3>9. QED
        BY <1>6, <2>4, <3>8 DEF Clear, Empty
    <2>5. QED
      BY <2>1, <2>3, <2>4 DEF Clear, Men
  <1>9. isSquareAttacked(b, land, getOpponentColor(c))
    BY <1>7, <1>8, AttackedCarries
  <1>10. QED
    BY <1>6, <1>9

\* A king that may castle may step to the square its rook would go to: a ray that
\* reaches it over the square it leaves attacked the king there.
LEMMA SteppedKing ==
  ASSUME NEW b, IsBoard(b), NEW c \in Colors, NEW e \in Squares, NEW t \in Squares, t # e,
         IsKing(b, c, e), Empty(b, t),
         ~isSquareAttacked(b, e, getOpponentColor(c)), ~isSquareAttacked(b, t, getOpponentColor(c)),
         NEW target, NEW a, a = simulateMove(b, e, t, target)
  PROVE  IsBoard(a) /\ IsKing(a, c, t) /\ ~isSquareAttacked(a, t, getOpponentColor(c))
  <1>1. e \in DOMAIN b /\ b[e] = <<c, "K">> /\ pieceType(b[e]) # "P" /\ t \notin DOMAIN b
    BY DEF IsKing, Empty, pieceType
  <1>2. /\ DOMAIN a = (DOMAIN b \cup {t}) \ {e} /\ a[t] = b[e]
        /\ \A x \in DOMAIN a : x # t => a[x] = b[x]
    <2>1. a = [x \in (DOMAIN b \cup {t}) \ {e} |-> IF x = t THEN b[e] ELSE b[x]]
      BY <1>1 DEF simulateMove
    <2>2. QED
      BY <2>1
  <1>3. IsBoard(a)
    BY <1>1, <1>2 DEF IsBoard
  <1>4. IsKing(a, c, t)
    BY <1>1, <1>2 DEF IsKing
  <1>5. SUFFICES ASSUME isSquareAttacked(a, t, getOpponentColor(c)) PROVE FALSE
    BY <1>3, <1>4
  <1>6. ASSUME NEW s \in Men(a, getOpponentColor(c))
        PROVE  /\ s \in Men(b, getOpponentColor(c)) /\ a[s] = b[s]
               /\ \A d \in QUEEN_DIRECTIONS, n \in 1..7 : Along(s, d, n) = t /\ Clear(a, s, d, n) =>
                    Clear(b, s, d, n) \/ \E m \in 1..7 : Along(s, d, m) = e /\ Clear(b, s, d, m)
    <2>1. s \in DOMAIN a /\ s \in Squares /\ getPieceColor(a[s]) # c
      BY <1>3, MenOf, OpponentOf
    <2>2. s \in DOMAIN b /\ a[s] = b[s]
      BY <1>1, <1>2, <2>1 DEF getPieceColor
    <2>3. ASSUME NEW d \in QUEEN_DIRECTIONS, NEW n \in 1..7, Along(s, d, n) = t, Clear(a, s, d, n),
                 NEW m \in 1..n - 1, ~Empty(b, Along(s, d, m))
          PROVE  m \in 1..7 /\ Along(s, d, m) = e /\ Clear(b, s, d, m)
      <3>1. m \in 1..7 /\ \A k \in 1..m - 1 : k \in 1..n - 1 /\ k \in 1..7 /\ k # m
        BY <2>3
      <3>2. Along(s, d, m) = e
        BY <1>2, <2>3 DEF Clear, Empty
      <3>3. \A k \in 1..m - 1 : Along(s, d, k) # e
        <4>1. d \in Unit /\ d # <<0, 0>>
          BY Directions DEF Unit
        <4>2. QED
          BY <2>1, <3>1, <3>2, <4>1, RayMeetsOnce
      <3>4. \A k \in 1..m - 1 : Empty(b, Along(s, d, k))
        BY <1>2, <2>3, <3>1, <3>3 DEF Clear, Empty
      <3>5. QED
        BY <3>1, <3>2, <3>4 DEF Clear
    <2>4. QED
      BY <2>1, <2>2, <2>3 DEF Clear, Men
  <1>7. isSquareAttacked(b, t, getOpponentColor(c)) \/ isSquareAttacked(b, e, getOpponentColor(c))
    BY <1>5, <1>6, AttackedCarries
  <1>8. QED
    BY <1>7

(***************************************************************************)
(* Positions                                                               *)
(***************************************************************************)
LEMMA PositionParts ==
  ASSUME NEW b, NEW rights, NEW target, NEW side, IsPosition(b, rights, target, side)
  PROVE  IsBoard(b) /\ side \in Colors /\ PassingOK(b, side, target) /\ \A c \in Colors : \E k : IsKing(b, c, k)
  <1>1. IsBoard(b) /\ side \in Colors /\ PassingOK(b, side, target)
    BY DEF IsPosition, IsBoard, PassingOK
  <1>2. ASSUME NEW c \in Colors PROVE \E k : IsKing(b, c, k)
    <2>1. Cardinality({s \in DOMAIN b : b[s] = <<c, "K">>}) = 1
      BY DEF IsPosition
    <2>2. QED
      BY <1>1, <2>1, KingCounted
  <1>3. QED
    BY <1>1, <1>2

LEMMA PositionIs ==
  ASSUME NEW b, IsBoard(b), NEW rights \in [Rights -> BOOLEAN], NEW target, NEW side \in Colors,
         \A c \in Colors : \E k : IsKing(b, c, k),
         \A s \in DOMAIN b : pieceType(b[s]) = "P" => rankOf(s) \notin {"1", "8"},
         \A r \in Rights : rights[r] =>
           Holds(b, Home("e", r[1]), <<r[1], "K">>) /\ Holds(b, Corner(r), <<r[1], "R">>),
         PassingOK(b, side, target)
  PROVE  IsPosition(b, rights, target, side)
  <1>1. \A c \in Colors : Cardinality({s \in DOMAIN b : b[s] = <<c, "K">>}) = 1
    BY KingCounted
  <1>2. QED
    BY <1>1 DEF IsPosition, IsBoard, PassingOK

\* A king that is not attacked cannot be taken.
LEMMA SafeKing ==
  ASSUME NEW b, IsBoard(b), NEW c \in Colors, NEW k, IsKing(b, c, k)
  PROVE  KingHangs(b, getOpponentColor(c)) <=> isSquareAttacked(b, k, getOpponentColor(c))
  <1>1. PICK o \in Colors : o = getOpponentColor(c) /\ getOpponentColor(o) = c
    BY OpponentOf
  <1>2. k \in Squares /\ \A x \in DOMAIN b : b[x] = <<c, "K">> <=> x = k
    BY KingFound DEF IsKing
  <1>3. k \in DOMAIN b
    BY DEF IsKing
  <1>4. isSquareAttacked(b, k, o) <=> \E s \in Men(b, o) : Takes(b, s, k)
    BY <1>2, AttackedBy, AttackIsTaking
  <1>5. KingHangs(b, o) <=> \E s \in Men(b, o) : Takes(b, s, k)
    BY <1>1, <1>2, <1>3 DEF KingHangs
  <1>6. QED
    BY <1>1, <1>4, <1>5

LEMMA LegalMove ==
  ASSUME NEW b, NEW c, NEW s \in Men(b, c), NEW target, NEW t,
         NEW game, game.board = b, game.enPassantTarget = target
  PROVE  t \in legalMoves(game, s) <=>
           /\ t \in getPseudoLegalMoves(b, s, target)
           /\ LET a == simulateMove(b, s, t, target)
              IN findKingSquare(a, c) # NoSquare => ~isSquareAttacked(a, findKingSquare(a, c), getOpponentColor(c))
  BY DEF legalMoves, filterByKingSafety, Men

RightsLeft(rights, from, to) ==
  [r \in Rights |-> rights[r] /\ Corner(r) \notin {from, to} /\ from # Home("e", r[1])]

\* How a pawn moves: forward, by two rows only from its second row.
LEMMA PawnRows ==
  ASSUME NEW b, IsBoard(b), NEW c \in Colors, NEW s \in Squares, NEW target,
         NEW t \in getPawnMoves(b, s, c, target)
  PROVE  /\ t \in Squares
         /\ t[1] = s[1] + Forward(c) \/ (t = <<s[1] + 2 * Forward(c), s[2]>> /\ s[1] = IF c = "w" THEN 6 ELSE 1)
         /\ t[1] - s[1] \in {-2, 2} => t = <<s[1] + 2 * Forward(c), s[2]>> /\ s[1] = IF c = "w" THEN 6 ELSE 1
  <1>1. PICK r \in 0..7, f \in 0..7, w \in {-1, 1} : r = s[1] /\ f = s[2] /\ w = Forward(c)
    BY SquareParts DEF Forward
  <1>2. \/ t = <<r + w, f>> /\ isInBounds(t)
        \/ t = <<r + 2 * w, f>> /\ isInBounds(t) /\ r = IF c = "w" THEN 6 ELSE 1
        \/ t \in {<<r + w, f - 1>>, <<r + w, f + 1>>} /\ isInBounds(t)
    <2>1. \/ t = <<s[1] + Forward(c), s[2]>> /\ isInBounds(t)
          \/ t = <<s[1] + 2 * Forward(c), s[2]>> /\ isInBounds(t) /\ s[1] = IF c = "w" THEN 6 ELSE 1
          \/ t \in {<<s[1] + Forward(c), s[2] - 1>>, <<s[1] + Forward(c), s[2] + 1>>} /\ isInBounds(t)
      BY PawnMoves
    <2>2. QED
      BY <1>1, <2>1
  <1>3. t \in Squares
    BY <1>2 DEF isInBounds, Squares
  <1>4. t[1] = r + w \/ (t = <<r + 2 * w, f>> /\ r = IF c = "w" THEN 6 ELSE 1)
    BY <1>2
  <1>5. r + w - r \notin {-2, 2}
    OBVIOUS
  <1>6. QED
    BY <1>1, <1>3, <1>4, <1>5

\* A move of one piece leaves a position, in which its own king cannot be taken.
LEMMA MovedPosition ==
  ASSUME NEW b, NEW rights, NEW target, NEW c \in Colors, IsPosition(b, rights, target, c), ~KingHangs(b, c),
         NEW s \in Men(b, c), NEW t \in getPseudoLegalMoves(b, s, target),
         NEW a, a = simulateMove(b, s, t, target),
         findKingSquare(a, c) # NoSquare => ~isSquareAttacked(a, findKingSquare(a, c), getOpponentColor(c)),
         NEW promotion \in Promotions(b[s], t),
         NEW d, d = [a EXCEPT ![t] = IF promotion = "no" THEN @ ELSE resolvePromotionPiece(@, promotion)],
         NEW passed, passed = IF pieceType(b[s]) = "P" /\ t[1] - s[1] \in {-2, 2}
                                THEN <<(s[1] + t[1]) \div 2, s[2]>> ELSE NoSquare
  PROVE  /\ IsPosition(d, RightsLeft(rights, s, t), passed, getOpponentColor(c))
         /\ ~KingHangs(d, getOpponentColor(c))
  <1>1. PICK o \in Colors : o = getOpponentColor(c) /\ o # c /\ getOpponentColor(o) = c /\ \A z \in Colors : z = c \/ z = o
    BY OpponentOf
  <1>2. IsBoard(b) /\ PassingOK(b, c, target)
    BY PositionParts
  <1>3. PICK k : IsKing(b, c, k)
    BY PositionParts
  <1>4. PICK l : IsKing(b, o, l)
    BY PositionParts
  <1>5. t # l
    <2>1. SUFFICES ASSUME t = l PROVE FALSE
      OBVIOUS
    <2>2. l \in DOMAIN b /\ b[l] = <<o, "K">> /\ l \in Squares
      BY <1>2, <1>4, KingFound DEF IsKing
    <2>3. MayGo(b, s, l, target)
      BY <1>2, <2>1, <2>2, MoveIsRule
    <2>4. Takes(b, s, l)
      BY <2>2, <2>3 DEF MayGo, Steps
    <2>5. QED
      BY <1>1, <2>2, <2>4 DEF KingHangs
  <1>6. /\ s \in DOMAIN b /\ s \in Squares /\ b[s] \in Symbols /\ getPieceColor(b[s]) = c
        /\ t \in Squares /\ ~Owns(b, t, c) /\ t # s
        /\ pieceType(b[s]) = "P" => t \in getPawnMoves(b, s, c, target)
    BY <1>2, MenOf, MovesOf
  <1>7. /\ IsBoard(a) /\ t \in DOMAIN a /\ a[t] = b[s] /\ s \notin DOMAIN a
        /\ a = [x \in DOMAIN a |-> a[x]]
        /\ \A x \in DOMAIN a : x # t => x \in DOMAIN b /\ a[x] = b[x]
        /\ \A x \in DOMAIN b : x \notin {s, t} => x \in DOMAIN a \/ b[x] = <<o, "P">>
    BY <1>1, <1>2, AfterMove
  <1>8. PICK piece : piece = IF promotion = "no" THEN b[s] ELSE <<c, promotion>>
    OBVIOUS
  <1>9. /\ DOMAIN d = DOMAIN a /\ d[t] = piece /\ \A x \in DOMAIN a : x # t => d[x] = a[x]
    BY <1>6, <1>7, <1>8 DEF resolvePromotionPiece
  <1>10. /\ piece \in Symbols /\ getPieceColor(piece) = c
         /\ \A z \in Colors : piece = <<z, "K">> <=> b[s] = <<z, "K">>
         /\ pieceType(piece) = "P" => piece = b[s] /\ ~requiresPromotion(b[s], t)
         /\ ~requiresPromotion(b[s], t) => piece = b[s]
    <2>1. CASE requiresPromotion(b[s], t)
      <3>1. pieceType(b[s]) = "P" /\ promotion \in {"Q", "R", "B", "N"}
        BY <2>1 DEF requiresPromotion, Promotions, PROMOTION_PIECES
      <3>2. piece = <<c, promotion>>
        BY <1>8, <3>1
      <3>3. QED
        BY <2>1, <3>1, <3>2 DEF Symbols, getPieceColor, pieceType, Colors
    <2>2. CASE ~requiresPromotion(b[s], t)
      <3>1. promotion = "no" /\ piece = b[s]
        BY <1>8, <2>2 DEF Promotions
      <3>2. QED
        BY <1>6, <2>2, <3>1
    <2>3. QED
      BY <2>1, <2>2
  <1>11. IsBoard(d)
    BY <1>7, <1>9, <1>10 DEF IsBoard
  <1>12. PICK m : m = IF s = k THEN t ELSE k
    OBVIOUS
  <1>13. IsKing(a, c, m) /\ IsKing(a, o, l)
    BY <1>1, <1>2, <1>3, <1>4, <1>5, <1>12, KingsAfterMove
  <1>14. IsKing(d, c, m) /\ IsKing(d, o, l)
    <2>1. \A z \in Colors : \A x \in DOMAIN a : d[x] = <<z, "K">> <=> a[x] = <<z, "K">>
      BY <1>7, <1>9, <1>10
    <2>2. QED
      BY <1>9, <1>13, <2>1 DEF IsKing
  <1>15. ~KingHangs(d, o)
    <2>1. findKingSquare(a, c) = m /\ m # NoSquare
      BY <1>7, <1>13, KingFound
    <2>2. ~isSquareAttacked(a, m, o)
      BY <1>1, <2>1
    <2>3. \A x \in DOMAIN d : d[x] = a[x] \/ (getPieceColor(d[x]) # o /\ getPieceColor(a[x]) # o)
      BY <1>1, <1>6, <1>7, <1>9, <1>10
    <2>4. ~isSquareAttacked(d, m, o)
      BY <1>9, <2>2, <2>3, PromotionKeepsAttacks
    <2>5. QED
      BY <1>1, <1>11, <1>14, <2>4, SafeKing
  <1>16. ASSUME NEW x \in DOMAIN d, pieceType(d[x]) = "P" PROVE rankOf(x) \notin {"1", "8"}
    <2>1. CASE x # t
      BY <1>7, <1>9, <1>16, <2>1 DEF IsPosition
    <2>2. CASE x = t
      <3>1. /\ pieceType(b[s]) = "P" /\ t \in getPawnMoves(b, s, c, target)
            /\ rankOf(t) # IF c = "w" THEN "8" ELSE "1"
        BY <1>6, <1>9, <1>10, <1>16, <2>2 DEF requiresPromotion
      <3>2. rankOf(s) \notin {"1", "8"}
        BY <1>6, <3>1 DEF IsPosition
      <3>3. s[1] \in 1..6
        BY <1>6, <3>2, NamesOf, SquareParts
      <3>4. t[1] = s[1] + Forward(c) \/ (t[1] = s[1] + 2 * Forward(c) /\ s[1] = IF c = "w" THEN 6 ELSE 1)
        BY <1>2, <1>6, <3>1, PawnRows
      <3>5. t[1] # IF c = "w" THEN 7 ELSE 0
        BY <3>3, <3>4 DEF Forward
      <3>6. QED
        BY <1>6, <2>2, <3>1, <3>5, NamesOf
    <2>3. QED
      BY <2>1, <2>2
  <1>17. ASSUME NEW r \in Rights, RightsLeft(rights, s, t)[r]
         PROVE  Holds(d, Home("e", r[1]), <<r[1], "K">>) /\ Holds(d, Corner(r), <<r[1], "R">>)
    <2>1. /\ rights[r] /\ Corner(r) \notin {s, t} /\ s # Home("e", r[1])
      BY <1>17 DEF RightsLeft
    <2>2. Holds(b, Home("e", r[1]), <<r[1], "K">>) /\ Holds(b, Corner(r), <<r[1], "R">>)
      BY <2>1 DEF IsPosition
    <2>3. r[1] = c \/ r[1] = o
      BY <1>1 DEF Rights
    <2>4. Home("e", r[1]) # t
      <3>1. CASE r[1] = c
        BY <1>6, <2>2, <3>1 DEF Owns, Holds, getPieceColor
      <3>2. CASE r[1] = o
        BY <1>4, <1>5, <2>2, <3>2 DEF Holds, Empty, IsKing
      <3>3. QED
        BY <2>3, <3>1, <3>2
    <2>5. ASSUME NEW x, x \notin {s, t}, NEW type \in {"K", "R"}, Holds(b, x, <<r[1], type>>)
          PROVE  Holds(d, x, <<r[1], type>>)
      <3>1. x \in DOMAIN b /\ b[x] = <<r[1], type>> /\ b[x] # <<o, "P">>
        BY <2>5 DEF Holds, Empty
      <3>2. x \in DOMAIN a /\ a[x] = b[x] /\ x # t
        BY <1>7, <2>5, <3>1
      <3>3. QED
        BY <1>9, <3>1, <3>2 DEF Holds, Empty
    <2>6. QED
      BY <2>1, <2>2, <2>4, <2>5
  <1>18. PassingOK(d, o, passed)
    <2>1. SUFFICES ASSUME passed # NoSquare PROVE Holds(d, Along(passed, <<-Forward(o), 0>>, 1), <<c, "P">>)
      BY <1>1 DEF PassingOK
    <2>2. /\ pieceType(b[s]) = "P" /\ t[1] - s[1] \in {-2, 2} /\ passed = <<(s[1] + t[1]) \div 2, s[2]>>
      BY <2>1
    <2>3. PICK r \in 0..7, f \in 0..7, w \in {-1, 1} : r = s[1] /\ f = s[2] /\ w = Forward(c)
      BY <1>6, SquareParts DEF Forward
    <2>4. t = <<s[1] + 2 * Forward(c), s[2]>> /\ s[1] = IF c = "w" THEN 6 ELSE 1
      BY <1>2, <1>6, <2>2, PawnRows
    <2>5. t = <<r + 2 * w, f>> /\ r = IF c = "w" THEN 6 ELSE 1
      BY <2>3, <2>4
    <2>6. passed = <<r + w, f>>
      <3>1. (r + (r + 2 * w)) \div 2 = r + w
        OBVIOUS
      <3>2. QED
        BY <2>2, <2>3, <2>5, <3>1
    <2>7. Forward(o) = -w
      BY <1>1, <2>3 DEF Forward, Colors
    <2>8. Along(passed, <<-Forward(o), 0>>, 1) = t
      BY <2>5, <2>6, <2>7 DEF Along
    <2>9. ~requiresPromotion(b[s], t)
      <3>1. t[1] = IF c = "w" THEN 4 ELSE 3
        BY <2>3, <2>5 DEF Forward
      <3>2. rankOf(t) \notin {"1", "8"}
        BY <1>6, <3>1, NamesOf
      <3>3. QED
        BY <3>2 DEF requiresPromotion
    <2>10. d[t] = <<c, "P">> /\ t \in DOMAIN d
      BY <1>6, <1>7, <1>9, <1>10, <2>2, <2>9, SymbolParts
    <2>11. QED
      BY <2>8, <2>10 DEF Holds, Empty
  <1>19. RightsLeft(rights, s, t) \in [Rights -> BOOLEAN]
    BY DEF RightsLeft, IsPosition
  <1>20. \A z \in Colors : \E x : IsKing(d, z, x)
    BY <1>1, <1>14
  <1>21. IsPosition(d, RightsLeft(rights, s, t), passed, o)
    BY <1>11, <1>16, <1>17, <1>18, <1>19, <1>20, PositionIs
  <1>22. QED
    BY <1>1, <1>15, <1>21

\* So does a castling.
LEMMA CastledPosition ==
  ASSUME NEW b, NEW rights, NEW target, NEW c \in Colors, IsPosition(b, rights, target, c), ~KingHangs(b, c),
         NEW side \in {"K", "Q"}, MayCastle(b, c, side),
         NEW e, e = Home("e", c), NEW land, land = Home(Castlings[side].land, c),
         NEW d, d = simulateMove(simulateMove(b, e, land, NoSquare),
                                 Corner(<<c, side>>), Home(Castlings[side].beside, c), NoSquare)
  PROVE  /\ IsPosition(d, RightsLeft(rights, e, land), NoSquare, getOpponentColor(c))
         /\ ~KingHangs(d, getOpponentColor(c))
  <1>1. PICK o \in Colors : o = getOpponentColor(c) /\ o # c /\ getOpponentColor(o) = c /\ \A z \in Colors : z = c \/ z = o
    BY OpponentOf
  <1>2. IsBoard(b)
    BY PositionParts
  <1>3. PICK R \in {0, 7}, q \in 0..7, l \in 0..7, h \in 0..7 :
           /\ (q = 7 /\ l = 6 /\ h = 5) \/ (q = 0 /\ l = 2 /\ h = 3)
           /\ R = HomeRow(c)
           /\ Home("e", c) = <<R, 4>> /\ Corner(<<c, side>>) = <<R, q>>
           /\ Home(Castlings[side].land, c) = <<R, l>> /\ Home(Castlings[side].beside, c) = <<R, h>>
    BY CastlingRow
  <1>4. PICK corner : corner = <<R, q>> /\ corner = Corner(<<c, side>>)
    BY <1>3
  <1>5. PICK beside : beside = <<R, h>> /\ beside = Home(Castlings[side].beside, c)
    BY <1>3
  <1>6. e = <<R, 4>> /\ land = <<R, l>>
    BY <1>3
  <1>7. /\ e # corner /\ e # land /\ e # beside /\ corner # land /\ corner # beside /\ land # beside
        /\ e \in Squares /\ corner \in Squares /\ land \in Squares /\ beside \in Squares
    BY <1>3, <1>4, <1>5, <1>6 DEF Squares
  <1>8. /\ e \in DOMAIN b /\ b[e] = <<c, "K">> /\ corner \in DOMAIN b /\ b[corner] = <<c, "R">>
        /\ land \notin DOMAIN b /\ beside \notin DOMAIN b
    BY <1>4, <1>5 DEF MayCastle, Holds, Empty
  <1>9. PICK a : a = simulateMove(b, e, land, NoSquare)
    OBVIOUS
  <1>10. /\ DOMAIN a = (DOMAIN b \cup {land}) \ {e} /\ a[land] = <<c, "K">>
         /\ \A x \in DOMAIN a : x # land => a[x] = b[x]
    <2>1. pieceType(b[e]) # "P"
      BY <1>8 DEF pieceType
    <2>2. a = [x \in (DOMAIN b \cup {land}) \ {e} |-> IF x = land THEN b[e] ELSE b[x]]
      BY <1>9, <2>1 DEF simulateMove
    <2>3. QED
      BY <1>7, <1>8, <2>2
  <1>11. d = simulateMove(a, corner, beside, NoSquare)
    BY <1>4, <1>5, <1>9
  <1>12. /\ DOMAIN d = (DOMAIN b \cup {land, beside}) \ {e, corner}
         /\ d[land] = <<c, "K">> /\ d[beside] = <<c, "R">>
         /\ \A x \in DOMAIN d \cap DOMAIN b : d[x] = b[x]
    <2>1. corner \in DOMAIN a /\ a[corner] = <<c, "R">> /\ pieceType(a[corner]) # "P"
      BY <1>7, <1>8, <1>10 DEF pieceType
    <2>2. d = [x \in (DOMAIN a \cup {beside}) \ {corner} |-> IF x = beside THEN a[corner] ELSE a[x]]
      BY <1>11, <2>1 DEF simulateMove
    <2>3. QED
      BY <1>7, <1>8, <1>10, <2>1, <2>2
  <1>13. /\ land \in DOMAIN d /\ beside \in DOMAIN d
         /\ \A x \in DOMAIN d : x \in {land, beside} \/ (x \in DOMAIN b /\ x \notin {e, corner} /\ d[x] = b[x])
         /\ \A x \in DOMAIN b : x \notin {e, corner} => x \in DOMAIN d /\ d[x] = b[x] /\ x \notin {land, beside}
    BY <1>7, <1>8, <1>12
  <1>14. IsBoard(d)
    <2>1. <<c, "K">> \in Symbols /\ <<c, "R">> \in Symbols
      BY DEF Symbols, Colors
    <2>2. QED
      BY <1>2, <1>7, <1>12, <1>13, <2>1 DEF IsBoard
  <1>15. PICK k : IsKing(b, c, k)
    BY PositionParts
  <1>16. PICK m : IsKing(b, o, m)
    BY PositionParts
  <1>17. k = e
    BY <1>8, <1>15 DEF IsKing
  <1>18. IsKing(d, c, land)
    BY <1>7, <1>12, <1>13, <1>15, <1>17 DEF IsKing
  <1>19. IsKing(d, o, m)
    <2>1. m \in DOMAIN b /\ b[m] = <<o, "K">> /\ m # e /\ m # corner
      BY <1>1, <1>8, <1>16 DEF IsKing
    <2>2. QED
      BY <1>1, <1>12, <1>13, <1>16, <2>1 DEF IsKing
  <1>20. ~KingHangs(d, o)
    <2>1. ~isSquareAttacked(d, land, o)
      <3>1. ~isSquareAttacked(d, Home(Castlings[side].land, c), getOpponentColor(c))
        <4>1. IsCastled(b, d, c, side)
          BY <1>4, <1>5, <1>6, <1>12 DEF IsCastled
        <4>2. QED
          BY <1>2, <1>14, <4>1, CastledKing
      <3>2. QED
        BY <1>1, <3>1
    <2>2. QED
      BY <1>1, <1>14, <1>18, <2>1, SafeKing
  <1>21. ASSUME NEW x \in DOMAIN d, pieceType(d[x]) = "P" PROVE rankOf(x) \notin {"1", "8"}
    <2>1. x \notin {land, beside}
      BY <1>12, <1>21 DEF pieceType
    <2>2. QED
      BY <1>13, <1>21, <2>1 DEF IsPosition
  <1>22. ASSUME NEW r \in Rights, RightsLeft(rights, e, land)[r]
         PROVE  Holds(d, Home("e", r[1]), <<r[1], "K">>) /\ Holds(d, Corner(r), <<r[1], "R">>)
    <2>1. rights[r] /\ e # Home("e", r[1])
      BY <1>22 DEF RightsLeft
    <2>2. Holds(b, Home("e", r[1]), <<r[1], "K">>) /\ Holds(b, Corner(r), <<r[1], "R">>)
      BY <2>1 DEF IsPosition
    <2>3. r[1] = o
      <3>1. r[1] # c
        BY <2>1
      <3>2. QED
        BY <1>1, <3>1 DEF Rights
    <2>4. ASSUME NEW x, NEW type, Holds(b, x, <<o, type>>) PROVE Holds(d, x, <<o, type>>)
      <3>1. x \in DOMAIN b /\ b[x] = <<o, type>>
        BY <2>4 DEF Holds, Empty
      <3>2. x # e /\ x # corner
        BY <1>1, <1>8, <3>1
      <3>3. QED
        BY <1>13, <3>1, <3>2 DEF Holds, Empty
    <2>5. QED
      BY <2>2, <2>3, <2>4
  <1>23. PassingOK(d, o, NoSquare)
    BY DEF PassingOK
  <1>24. RightsLeft(rights, e, land) \in [Rights -> BOOLEAN]
    BY DEF RightsLeft, IsPosition
  <1>25. \A z \in Colors : \E x : IsKing(d, z, x)
    BY <1>1, <1>18, <1>19
  <1>26. IsPosition(d, RightsLeft(rights, e, land), NoSquare, o)
    BY <1>14, <1>21, <1>22, <1>23, <1>24, <1>25, PositionIs
  <1>27. QED
    BY <1>1, <1>20, <1>26

(***************************************************************************)
(* The game                                                                *)
(***************************************************************************)
GameInv == PositionOK /\ LegalMovesKeepKing

LEMMA GameStarts == SetUp => GameInv
  <1>1. SUFFICES ASSUME SetUp PROVE GameInv
    OBVIOUS
  <1>2. PICK start \in Starts :
          /\ board = fenToBoardObject(start.rows)
          /\ castlingRights = [r \in Rights |-> r \in start.rights]
          /\ enPassantTarget = NoSquare /\ turn = start.turn /\ plies = 0
    BY <1>1 DEF SetUp
  <1>3. IsPosition(board, castlingRights, enPassantTarget, turn) /\ ~KingHangs(board, turn)
    BY <1>2, StartsAssumption
  <1>4. QED
    BY <1>2, <1>3, MaxPliesAssumption DEF GameInv, PositionOK, LegalMovesKeepKing

LEMMA RightsAfterIs == \A from, to : RightsAfter(from, to) = RightsLeft(castlingRights, from, to)
  BY DEF RightsAfter, RightsLeft

LEMMA GameIs == Game.board = board /\ Game.enPassantTarget = enPassantTarget /\ Game.castlingRights = castlingRights
  BY DEF Game

LEMMA MoveStep ==
  ASSUME GameInv, NEW from \in Men(board, turn), NEW to, NEW promotion, Move(from, to, promotion)
  PROVE  GameInv'
  <1>1. /\ IsPosition(board, castlingRights, enPassantTarget, turn)
        /\ ~KingHangs(board, turn) /\ plies \in 0..MaxPlies
    BY DEF GameInv, PositionOK, LegalMovesKeepKing
  <1>2. PICK b : b = board
    OBVIOUS
  <1>3. PICK c \in Colors : c = turn
    BY <1>1, PositionParts
  <1>4. PICK target : target = enPassantTarget
    OBVIOUS
  <1>5. PICK a : a = simulateMove(b, from, to, target)
    OBVIOUS
  <1>6. /\ to \in getPseudoLegalMoves(b, from, target)
        /\ findKingSquare(a, c) # NoSquare => ~isSquareAttacked(a, findKingSquare(a, c), getOpponentColor(c))
    <2>1. to \in legalMoves(Game, from)
      BY DEF Move
    <2>2. QED
      BY <1>2, <1>3, <1>4, <1>5, <2>1, GameIs, LegalMove
  <1>7. promotion \in Promotions(b[from], to)
    BY <1>2 DEF Move
  <1>8. PICK d : d = [a EXCEPT ![to] = IF promotion = "no" THEN @ ELSE resolvePromotionPiece(@, promotion)]
    OBVIOUS
  <1>9. PICK passed : passed = IF pieceType(b[from]) = "P" /\ to[1] - from[1] \in {-2, 2}
                                 THEN <<(from[1] + to[1]) \div 2, from[2]>> ELSE NoSquare
    OBVIOUS
  <1>10. PICK rights : rights = castlingRights
    OBVIOUS
  <1>11. /\ IsPosition(d, RightsLeft(rights, from, to), passed, getOpponentColor(c))
         /\ ~KingHangs(d, getOpponentColor(c))
    <2>1. IsPosition(b, rights, target, c) /\ ~KingHangs(b, c)
      BY <1>1, <1>2, <1>3, <1>4, <1>10
    <2>2. from \in Men(b, c)
      BY <1>2, <1>3
    <2>3. QED
      BY <1>5, <1>6, <1>7, <1>8, <1>9, <2>1, <2>2, MovedPosition
  <1>12. /\ board' = d /\ castlingRights' = RightsLeft(rights, from, to)
         /\ enPassantTarget' = passed /\ turn' = getOpponentColor(c)
    BY <1>2, <1>3, <1>4, <1>5, <1>8, <1>9, <1>10, RightsAfterIs DEF Move, EndMove, JumpedOver
  <1>13. plies' \in 0..MaxPlies
    BY <1>1, MaxPliesAssumption DEF Move, EndMove
  <1>14. QED
    BY <1>11, <1>12, <1>13 DEF GameInv, PositionOK, LegalMovesKeepKing

LEMMA CastleStep ==
  ASSUME GameInv, NEW side \in DOMAIN Castlings, Castle(side)
  PROVE  GameInv'
  <1>1. /\ IsPosition(board, castlingRights, enPassantTarget, turn)
        /\ ~KingHangs(board, turn) /\ plies \in 0..MaxPlies
    BY DEF GameInv, PositionOK, LegalMovesKeepKing
  <1>2. PICK b : b = board
    OBVIOUS
  <1>3. PICK c \in Colors : c = turn
    BY <1>1, PositionParts
  <1>4. PICK rights : rights = castlingRights
    OBVIOUS
  <1>5. PICK e : e = Home("e", c)
    OBVIOUS
  <1>6. PICK land : land = Home(Castlings[side].land, c)
    OBVIOUS
  <1>7. PICK d : d = simulateMove(simulateMove(b, e, land, NoSquare),
                                  Corner(<<c, side>>), Home(Castlings[side].beside, c), NoSquare)
    OBVIOUS
  <1>8. /\ board' = d /\ land \in getCastlingMoves(b, c, rights)
        /\ EndMove(e, land) /\ plies < MaxPlies
    BY <1>2, <1>3, <1>4, <1>5, <1>6, <1>7 DEF Castle
  <1>9. side \in {"K", "Q"}
    BY CastlingSquares
  <1>10. MayCastle(b, c, side)
    BY <1>6, <1>8, <1>9, CastlingMove
  <1>11. PICK target : target = enPassantTarget
    OBVIOUS
  <1>12. IsPosition(b, rights, target, c) /\ ~KingHangs(b, c)
    BY <1>1, <1>2, <1>3, <1>4, <1>11
  <1>13. /\ IsPosition(d, RightsLeft(rights, e, land), NoSquare, getOpponentColor(c))
         /\ ~KingHangs(d, getOpponentColor(c))
    BY <1>5, <1>6, <1>7, <1>9, <1>10, <1>12, CastledPosition
  <1>14. /\ castlingRights' = RightsLeft(rights, e, land)
         /\ enPassantTarget' = NoSquare /\ turn' = getOpponentColor(c)
    <2>1. pieceType(b[e]) # "P"
      BY <1>5, <1>10 DEF MayCastle, Holds, pieceType
    <2>2. QED
      BY <1>2, <1>3, <1>4, <1>8, <2>1, RightsAfterIs DEF EndMove, JumpedOver
  <1>15. plies' \in 0..MaxPlies
    BY <1>1, <1>8, MaxPliesAssumption DEF EndMove
  <1>16. QED
    BY <1>8, <1>13, <1>14, <1>15 DEF GameInv, PositionOK, LegalMovesKeepKing

LEMMA GameInvariance == LegalGame => []GameInv
  <1>1. GameInv /\ [Ply]_position => GameInv'
    <2>1. SUFFICES ASSUME GameInv, [Ply]_position PROVE GameInv'
      OBVIOUS
    <2>2. CASE Ply
      BY <2>1, <2>2, MoveStep, CastleStep DEF Ply
    <2>3. CASE UNCHANGED position
      BY <2>1, <2>3 DEF position, GameInv, PositionOK, LegalMovesKeepKing
    <2>4. QED
      BY <2>1, <2>2, <2>3
  <1>2. QED
    BY <1>1, GameStarts, PTL DEF LegalGame

\* Every legal game stays in positions: one king each, no pawn on a last rank,
\* king and rook at home for every right, a pawn behind the square jumped over.
THEOREM GameStaysLegal == LegalGame => []PositionOK
  <1>1. GameInv => PositionOK
    BY DEF GameInv
  <1>2. QED
    BY <1>1, GameInvariance, PTL

\* No legal move, castling or promotion leaves the mover's king to be taken.
THEOREM KingNeverLeft == LegalGame => []LegalMovesKeepKing
  <1>1. GameInv => LegalMovesKeepKing
    BY DEF GameInv
  <1>2. QED
    BY <1>1, GameInvariance, PTL

\* In every position of every game attacks.js says of each square what the rules say.
THEOREM AttacksAreTheRules == LegalGame => []AttacksFollowRules
  <1>1. GameInv => AttacksFollowRules
    <2>1. SUFFICES ASSUME GameInv, NEW c \in Colors, NEW t \in Squares
                   PROVE  isSquareAttacked(board, t, c) <=> \E s \in Men(board, c) : Takes(board, s, t)
      BY DEF AttacksFollowRules
    <2>2. PICK b : b = board
      OBVIOUS
    <2>3. IsBoard(b)
      BY <2>1, <2>2, PositionParts DEF GameInv, PositionOK
    <2>4. \A s \in Men(b, c) : AttacksOf(b, s, c, t) <=> Takes(b, s, t)
      BY <2>3, AttackIsTaking
    <2>5. QED
      BY <2>2, <2>4, AttackedBy
  <1>2. QED
    BY <1>1, GameInvariance, PTL

\* In every position of every game pseudoMoves.js gives each piece the moves of the rules.
THEOREM MovesAreTheRules == LegalGame => []MovesFollowRules
  <1>1. GameInv => MovesFollowRules
    <2>1. SUFFICES ASSUME GameInv, NEW s \in DOMAIN board
                   PROVE  getPseudoLegalMoves(board, s, enPassantTarget)
                            = {t \in Squares : MayGo(board, s, t, enPassantTarget)}
      BY DEF MovesFollowRules
    <2>2. PICK b : b = board
      OBVIOUS
    <2>3. PICK target : target = enPassantTarget
      OBVIOUS
    <2>4. IsBoard(b)
      BY <2>1, <2>2, PositionParts DEF GameInv, PositionOK
    <2>5. PICK c \in Colors : s \in Men(b, c)
      BY <2>1, <2>2, <2>4, SymbolParts DEF IsBoard, Men
    <2>6. PICK moves : moves = getPseudoLegalMoves(b, s, target)
      OBVIOUS
    <2>7. \A t \in moves : t \in Squares
      BY <2>4, <2>5, <2>6, MovesOf
    <2>8. \A t \in Squares : t \in moves <=> MayGo(b, s, t, target)
      BY <2>4, <2>5, <2>6, MoveIsRule
    <2>9. moves = {t \in Squares : MayGo(b, s, t, target)}
      BY <2>7, <2>8
    <2>10. QED
      BY <2>2, <2>3, <2>6, <2>9
  <1>2. QED
    BY <1>1, GameInvariance, PTL

(***************************************************************************)
(* Castling and the king's own step                                        *)
(***************************************************************************)
LEMMA StepBeside ==
  ASSUME NEW b, IsBoard(b), NEW c \in Colors, NEW side \in {"K", "Q"}, MayCastle(b, c, side),
         \E k : IsKing(b, c, k),
         NEW target, NEW game, game.board = b, game.enPassantTarget = target
  PROVE  Home("e", c) \in Men(b, c) /\ Home(Castlings[side].beside, c) \in legalMoves(game, Home("e", c))
  <1>1. PICK R \in {0, 7}, q \in 0..7, l \in 0..7, h \in 0..7 :
           /\ (q = 7 /\ l = 6 /\ h = 5) \/ (q = 0 /\ l = 2 /\ h = 3)
           /\ R = HomeRow(c)
           /\ Home("e", c) = <<R, 4>> /\ Corner(<<c, side>>) = <<R, q>>
           /\ Home(Castlings[side].land, c) = <<R, l>> /\ Home(Castlings[side].beside, c) = <<R, h>>
    BY CastlingRow
  <1>2. PICK e : e = <<R, 4>> /\ e = Home("e", c)
    BY <1>1
  <1>3. PICK t : t = <<R, h>> /\ t = Home(Castlings[side].beside, c)
    BY <1>1
  <1>4. e \in Squares /\ t \in Squares /\ t # e
    BY <1>1, <1>2, <1>3 DEF Squares
  <1>5. /\ Holds(b, e, <<c, "K">>) /\ Empty(b, t)
        /\ ~isSquareAttacked(b, e, getOpponentColor(c)) /\ ~isSquareAttacked(b, t, getOpponentColor(c))
    BY <1>2, <1>3 DEF MayCastle
  <1>6. e \in DOMAIN b /\ b[e] = <<c, "K">> /\ e \in Men(b, c) /\ getPieceColor(b[e]) = c /\ pieceType(b[e]) = "K"
    BY <1>5 DEF Holds, Empty, Men, getPieceColor, pieceType
  <1>7. IsKing(b, c, e)
    BY <1>6 DEF IsKing
  <1>8. t \in getPseudoLegalMoves(b, e, target)
    <2>1. getPseudoLegalMoves(b, e, target) = getSteppingMoves(b, e, KING_OFFSETS, c)
      BY <1>6 DEF getPseudoLegalMoves
    <2>2. \E d \in KING_OFFSETS : Along(e, d, 1) = t
      <3>1. <<0, 1>> \in KING_OFFSETS /\ <<0, -1>> \in KING_OFFSETS
        BY DEF KING_OFFSETS
      <3>2. Along(e, <<0, 1>>, 1) = <<R, 5>> /\ Along(e, <<0, -1>>, 1) = <<R, 3>>
        BY <1>2 DEF Along
      <3>3. QED
        BY <1>1, <1>3, <3>1, <3>2
    <2>3. isInBounds(t) /\ ~Owns(b, t, c)
      BY <1>4, <1>5, SquareParts DEF Owns
    <2>4. QED
      BY <2>1, <2>2, <2>3 DEF getSteppingMoves
  <1>9. PICK a : a = simulateMove(b, e, t, target)
    OBVIOUS
  <1>10. IsBoard(a) /\ IsKing(a, c, t) /\ ~isSquareAttacked(a, t, getOpponentColor(c))
    BY <1>4, <1>5, <1>7, <1>9, SteppedKing
  <1>11. findKingSquare(a, c) = t
    BY <1>10, KingFound
  <1>12. t \in legalMoves(game, e)
    BY <1>6, <1>8, <1>9, <1>10, <1>11, LegalMove
  <1>13. QED
    BY <1>2, <1>3, <1>6, <1>12

\* A king that may castle is not in check, and may step to the square its rook would go to.
THEOREM CastlingNeedsStep == LegalGame => []CastlingImpliesStep
  <1>1. GameInv => CastlingImpliesStep
    <2>1. SUFFICES ASSUME GameInv, NEW c \in Colors, NEW side \in DOMAIN Castlings,
                          Home(Castlings[side].land, c) \in getCastlingMoves(board, c, castlingRights)
                   PROVE  /\ ~KingHangs(board, getOpponentColor(c))
                          /\ Home(Castlings[side].beside, c) \in legalMoves(Game, Home("e", c))
      BY DEF CastlingImpliesStep
    <2>2. IsBoard(board) /\ \E k : IsKing(board, c, k)
      BY <2>1, PositionParts DEF GameInv, PositionOK
    <2>3. PICK b : b = board
      OBVIOUS
    <2>4. PICK rights : rights = castlingRights
      OBVIOUS
    <2>5. PICK game : game = Game
      OBVIOUS
    <2>6. PICK target : target = enPassantTarget
      OBVIOUS
    <2>7. side \in {"K", "Q"}
      BY <2>1, CastlingSquares
    <2>8. MayCastle(b, c, side)
      BY <2>1, <2>3, <2>4, <2>7, CastlingMove
    <2>9. game.board = b /\ game.enPassantTarget = target
      BY <2>3, <2>5, <2>6, GameIs
    <2>10. Home(Castlings[side].beside, c) \in legalMoves(game, Home("e", c))
      BY <2>2, <2>3, <2>7, <2>8, <2>9, StepBeside
    <2>11. PICK k : IsKing(b, c, k)
      BY <2>2, <2>3
    <2>12. k = Home("e", c) /\ ~isSquareAttacked(b, k, getOpponentColor(c))
      BY <2>8, <2>11 DEF MayCastle, Holds, Empty, IsKing
    <2>13. ~KingHangs(b, getOpponentColor(c))
      BY <2>2, <2>3, <2>11, <2>12, SafeKing
    <2>14. QED
      BY <2>3, <2>5, <2>10, <2>13
  <1>2. QED
    BY <1>1, GameInvariance, PTL

(***************************************************************************)
(* The end of a game                                                       *)
(***************************************************************************)
\* A pseudo-legal move is legal exactly when the king cannot be taken after it.
LEMMA LegalIsSafe ==
  ASSUME NEW b, NEW rights, NEW target, NEW c \in Colors, IsPosition(b, rights, target, c),
         NEW game, game.board = b, game.enPassantTarget = target,
         NEW s \in Men(b, c), NEW t \in getPseudoLegalMoves(b, s, target)
  PROVE  t \in legalMoves(game, s) <=> ~KingHangs(simulateMove(b, s, t, target), getOpponentColor(c))
  <1>1. IsBoard(b) /\ PassingOK(b, c, target)
    BY PositionParts
  <1>2. PICK k : IsKing(b, c, k)
    BY PositionParts
  <1>3. PICK l : IsKing(b, getOpponentColor(c), l)
    BY PositionParts, OpponentOf
  <1>4. PICK a : a = simulateMove(b, s, t, target)
    OBVIOUS
  <1>5. IsBoard(a)
    BY <1>1, <1>4, AfterMove
  <1>6. PICK m : IsKing(a, c, m)
    BY <1>1, <1>2, <1>3, <1>4, KingsAfterMove
  <1>7. findKingSquare(a, c) = m /\ m # NoSquare
    BY <1>5, <1>6, KingFound
  <1>8. KingHangs(a, getOpponentColor(c)) <=> isSquareAttacked(a, m, getOpponentColor(c))
    BY <1>5, <1>6, SafeKing
  <1>9. t \in legalMoves(game, s) <=> ~isSquareAttacked(a, m, getOpponentColor(c))
    BY <1>4, <1>7, LegalMove
  <1>10. QED
    BY <1>4, <1>8, <1>9

LEMMA NoMoveIsLost ==
  ASSUME NEW b, NEW rights, NEW target, NEW c \in Colors, IsPosition(b, rights, target, c),
         NEW game, game.board = b, game.enPassantTarget = target, game.castlingRights = rights
  PROVE  getAllLegalMoves(game, c) = {} <=> Lost(game, c)
  <1>1. IsBoard(b) /\ \E k : IsKing(b, c, k)
    BY PositionParts
  <1>2. ASSUME NEW s \in Men(b, c), NEW t \in legalMoves(game, s)
        PROVE  t \in getPseudoLegalMoves(b, s, target)
    BY <1>2, LegalMove
  <1>3. Lost(game, c) <=> \A s \in Men(b, c) : legalMoves(game, s) = {}
    <2>1. Lost(game, c) <=>
            \A s \in Men(b, c), t \in Squares :
              MayGo(b, s, t, target) => KingHangs(simulateMove(b, s, t, target), getOpponentColor(c))
      BY DEF Lost
    <2>2. \A s \in Men(b, c), t \in Squares : MayGo(b, s, t, target) <=> t \in getPseudoLegalMoves(b, s, target)
      BY <1>1, MoveIsRule
    <2>3. \A s \in Men(b, c) : \A t \in getPseudoLegalMoves(b, s, target) :
            t \in Squares /\ (t \in legalMoves(game, s) <=> ~KingHangs(simulateMove(b, s, t, target), getOpponentColor(c)))
      BY <1>1, LegalIsSafe, MovesOf
    <2>4. QED
      BY <1>2, <2>1, <2>2, <2>3
  <1>4. getAllLegalMoves(game, c) = {} <=>
          \A s \in Men(b, c) : /\ legalMoves(game, s) = {}
                               /\ pieceType(b[s]) = "K" => getCastlingMoves(b, c, rights) = {}
    <2>1. PICK all : all = getAllLegalMoves(game, c)
      OBVIOUS
    <2>2. \A m : m \in all <=> \E s \in Men(b, c) : \E t \in legalMoves(game, s) \cup
            (IF pieceType(b[s]) = "K" THEN getCastlingMoves(b, c, rights) ELSE {}) : m = [from |-> s, to |-> t]
      BY <2>1 DEF getAllLegalMoves
    <2>3. all = {} <=> \A s \in Men(b, c) : \A t : t \notin legalMoves(game, s) \cup
            (IF pieceType(b[s]) = "K" THEN getCastlingMoves(b, c, rights) ELSE {})
      BY <2>2
    <2>4. QED
      BY <2>1, <2>3
  <1>5. ASSUME getCastlingMoves(b, c, rights) # {} PROVE \E s \in Men(b, c) : legalMoves(game, s) # {}
    <2>1. PICK side \in DOMAIN Castlings : Home(Castlings[side].land, c) \in getCastlingMoves(b, c, rights)
      BY <1>5 DEF getCastlingMoves
    <2>2. side \in {"K", "Q"}
      BY <2>1, CastlingSquares
    <2>3. MayCastle(b, c, side)
      BY <2>1, <2>2, CastlingMove
    <2>4. QED
      BY <1>1, <2>2, <2>3, StepBeside
  <1>6. QED
    BY <1>3, <1>4, <1>5

LEMMA CheckIsHanging ==
  ASSUME NEW b, NEW rights, NEW target, NEW c \in Colors, IsPosition(b, rights, target, c)
  PROVE  isCheck(b, c) <=> KingHangs(b, getOpponentColor(c))
  <1>1. IsBoard(b)
    BY PositionParts
  <1>2. PICK k : IsKing(b, c, k)
    BY PositionParts
  <1>3. findKingSquare(b, c) = k /\ k # NoSquare
    BY <1>1, <1>2, KingFound
  <1>4. isCheck(b, c) <=> isSquareAttacked(b, k, getOpponentColor(c))
    BY <1>3 DEF isCheck
  <1>5. QED
    BY <1>1, <1>2, <1>4, SafeKing

\* Mate and stalemate are what the rules of chess call so.
THEOREM EndsAsTheRulesSay == LegalGame => []GameEndAgrees
  <1>1. GameInv => GameEndAgrees
    <2>1. SUFFICES ASSUME GameInv PROVE GameEndAgrees
      OBVIOUS
    <2>2. IsPosition(board, castlingRights, enPassantTarget, turn)
      BY <2>1 DEF GameInv, PositionOK
    <2>3. PICK c \in Colors : c = turn
      BY <2>2, PositionParts
    <2>4. PICK b : b = board
      OBVIOUS
    <2>5. PICK game : game = Game
      OBVIOUS
    <2>6. PICK target : target = enPassantTarget
      OBVIOUS
    <2>7. PICK rights : rights = castlingRights
      OBVIOUS
    <2>8. game.board = b /\ game.enPassantTarget = target /\ game.castlingRights = rights
      BY <2>4, <2>5, <2>6, <2>7, GameIs
    <2>9. IsPosition(b, rights, target, c)
      BY <2>2, <2>3, <2>4, <2>6, <2>7
    <2>10. getAllLegalMoves(game, c) = {} <=> Lost(game, c)
      BY <2>8, <2>9, NoMoveIsLost
    <2>11. isCheck(b, c) <=> KingHangs(b, getOpponentColor(c))
      BY <2>9, CheckIsHanging
    <2>12. /\ isCheckmate(game, c) <=> isCheck(b, c) /\ getAllLegalMoves(game, c) = {}
           /\ isStalemate(game, c) <=> ~isCheck(b, c) /\ getAllLegalMoves(game, c) = {}
      BY <2>8 DEF isCheckmate, isStalemate
    <2>13. /\ isCheckmate(game, c) <=> KingHangs(b, getOpponentColor(c)) /\ Lost(game, c)
           /\ isStalemate(game, c) <=> ~KingHangs(b, getOpponentColor(c)) /\ Lost(game, c)
      BY <2>10, <2>11, <2>12
    <2>14. QED
      BY <2>3, <2>4, <2>5, <2>13 DEF GameEndAgrees
  <1>2. QED
    BY <1>1, GameInvariance, PTL

(***************************************************************************)
(* Texts                                                                   *)
(***************************************************************************)
LEMMA Joined ==
  ASSUME NEW S, NEW u \in Seq(S), NEW v \in Seq(S)
  PROVE  /\ u \o v \in Seq(S) /\ u \o <<>> = u /\ <<>> \o u = u
         /\ Len(u) > 0 => (u \o v)[1] = u[1] /\ Len(u \o v) > 0
  OBVIOUS

LEMMA ShortTexts ==
  ASSUME NEW S, NEW x \in S, NEW y \in S
  PROVE  <<>> \in Seq(S) /\ <<x>> \in Seq(S) /\ <<x, y>> \in Seq(S)
  OBVIOUS

LEMMA IfIs == ASSUME NEW x PROVE If(TRUE, x) = x /\ If(FALSE, x) = <<>>
  BY DEF If

(***************************************************************************)
(* Moves and their texts                                                   *)
(***************************************************************************)
Letters == {"a", "b", "c", "d", "e", "f", "g", "h"}
Digits == {"1", "2", "3", "4", "5", "6", "7", "8"}
Chars == Letters \cup Digits \cup {"P", "N", "B", "R", "Q", "K", "x", "=", "O-O", "O-O-O", "no"}
Ongoing == [isCheck |-> FALSE, isCheckmate |-> FALSE]

\* A move as SanIdentifiesMove gives it to buildSan
IsMove(m, b, c, target, game) ==
  /\ m = [from |-> m.from, to |-> m.to, piece |-> m.piece, captured |-> m.captured,
          castling |-> m.castling, promotion |-> m.promotion]
  /\ m.from \in Men(b, c) /\ m.piece = b[m.from]
  /\ [from |-> m.from, to |-> m.to] \in getAllLegalMoves(game, c)
  /\ m.captured = (~Empty(b, m.to) \/ (pieceType(b[m.from]) = "P" /\ m.to = target))
  /\ m.castling = IF m.to \in legalMoves(game, m.from) THEN "no"
                  ELSE CHOOSE side \in DOMAIN Castlings : Castlings[side].land = fileOf(m.to)
  /\ m.promotion \in Promotions(m.piece, m.to)

LEMMA SameMove ==
  ASSUME NEW b, NEW c, NEW target, NEW game, NEW m, NEW n,
         IsMove(m, b, c, target, game), IsMove(n, b, c, target, game),
         m.from = n.from, m.to = n.to, m.promotion = n.promotion
  PROVE  m = n
  <1>1. m.piece = n.piece /\ m.captured = n.captured /\ m.castling = n.castling
    BY DEF IsMove
  <1>2. QED
    BY <1>1 DEF IsMove

\* What getAllLegalMoves returns besides legalMoves are castlings.
LEMMA MoveOrCastling ==
  ASSUME NEW b, IsBoard(b), NEW c \in Colors, NEW target, NEW game, game.board = b,
         game.enPassantTarget = target, NEW m, IsMove(m, b, c, target, game)
  PROVE  \/ m.castling = "no" /\ m.to \in getPseudoLegalMoves(b, m.from, target)
         \/ /\ m.castling \in {"K", "Q"} /\ pieceType(b[m.from]) = "K"
            /\ m.to = Home(Castlings[m.castling].land, c)
  <1>1. CASE m.to \in legalMoves(game, m.from)
    BY <1>1, LegalMove DEF IsMove
  <1>2. CASE m.to \notin legalMoves(game, m.from)
    <2>1. PICK s \in Men(b, c) : \E t \in legalMoves(game, s) \cup
            (IF pieceType(b[s]) = "K" THEN getCastlingMoves(b, c, game.castlingRights) ELSE {}) :
              [from |-> m.from, to |-> m.to] = [from |-> s, to |-> t]
      BY DEF IsMove, getAllLegalMoves
    <2>2. s = m.from
      BY <2>1
    <2>3. pieceType(b[m.from]) = "K" /\ m.to \in getCastlingMoves(b, c, game.castlingRights)
      BY <1>2, <2>1, <2>2
    <2>4. PICK side \in DOMAIN Castlings : m.to = Home(Castlings[side].land, c)
      BY <2>3 DEF getCastlingMoves
    <2>5. side \in {"K", "Q"}
      BY <2>4, CastlingSquares
    <2>6. fileOf(m.to) = Castlings[side].land
      <3>1. fileOf(<<HomeRow(c), 6>>) = "g" /\ fileOf(<<HomeRow(c), 2>>) = "c"
        BY DEF fileOf, Files
      <3>2. Castlings["K"].land = "g" /\ Castlings["Q"].land = "c"
        BY DEF Castlings
      <3>3. CASE side = "K"
        BY <2>4, <3>1, <3>2, <3>3, CastlingSquares
      <3>4. CASE side = "Q"
        BY <2>4, <3>1, <3>2, <3>4, CastlingSquares
      <3>5. QED
        BY <2>5, <3>3, <3>4
    <2>7. m.castling = CHOOSE z \in DOMAIN Castlings : Castlings[z].land = fileOf(m.to)
      BY <1>2 DEF IsMove
    <2>8. m.castling \in DOMAIN Castlings /\ Castlings[m.castling].land = fileOf(m.to)
      BY <2>4, <2>6, <2>7
    <2>9. QED
      BY <2>3, <2>4, <2>6, <2>8, CastlingSquares
  <1>3. QED
    BY <1>1, <1>2

\* Where a pawn came from follows from where it goes, and from its file when it
\* captures.
LEMMA PawnOrigin ==
  ASSUME NEW b, IsBoard(b), NEW c \in Colors, NEW target, PassingOK(b, c, target),
         NEW s \in Men(b, c), b[s] = <<c, "P">>, NEW u \in Men(b, c), b[u] = <<c, "P">>, NEW t \in Squares,
         t \in getPawnMoves(b, s, c, target), t \in getPawnMoves(b, u, c, target),
         ~Empty(b, t) \/ t = target => s[2] = u[2]
  PROVE  s = u
  <1>1. s \in Squares /\ u \in Squares /\ s \in DOMAIN b /\ u \in DOMAIN b
    BY MenOf
  <1>2. PICK w \in {-1, 1} : w = Forward(c)
    BY DEF Forward
  <1>3. PICK i \in 0..7, j \in 0..7 : i = s[1] /\ j = s[2]
    BY <1>1, SquareParts
  <1>4. PICK x \in 0..7, y \in 0..7 : x = u[1] /\ y = u[2]
    BY <1>1, SquareParts
  <1>5. s = <<i, j>> /\ u = <<x, y>>
    BY <1>1, <1>3, <1>4, SquareParts
  <1>6. /\ \/ Empty(b, t) /\ t = <<i + w, j>>
           \/ Empty(b, t) /\ t = <<i + 2 * w, j>> /\ Empty(b, <<i + w, j>>)
           \/ t \in {<<i + w, j - 1>>, <<i + w, j + 1>>} /\ (~Empty(b, t) \/ t = target)
        /\ \/ Empty(b, t) /\ t = <<x + w, y>>
           \/ Empty(b, t) /\ t = <<x + 2 * w, y>> /\ Empty(b, <<x + w, y>>)
           \/ t \in {<<x + w, y - 1>>, <<x + w, y + 1>>} /\ (~Empty(b, t) \/ t = target)
    <2>1. \A v \in Squares : t \in getPawnMoves(b, v, c, target) =>
             \/ Empty(b, t) /\ t = <<v[1] + Forward(c), v[2]>>
             \/ Empty(b, t) /\ t = <<v[1] + 2 * Forward(c), v[2]>> /\ Empty(b, <<v[1] + Forward(c), v[2]>>)
             \/ /\ t \in {<<v[1] + Forward(c), v[2] - 1>>, <<v[1] + Forward(c), v[2] + 1>>}
                /\ ~Empty(b, t) \/ t = target
      BY PawnMoves DEF Owns
    <2>2. \/ Empty(b, t) /\ t = <<s[1] + Forward(c), s[2]>>
          \/ Empty(b, t) /\ t = <<s[1] + 2 * Forward(c), s[2]>> /\ Empty(b, <<s[1] + Forward(c), s[2]>>)
          \/ /\ t \in {<<s[1] + Forward(c), s[2] - 1>>, <<s[1] + Forward(c), s[2] + 1>>}
             /\ ~Empty(b, t) \/ t = target
      BY <1>1, <2>1
    <2>3. \/ Empty(b, t) /\ t = <<u[1] + Forward(c), u[2]>>
          \/ Empty(b, t) /\ t = <<u[1] + 2 * Forward(c), u[2]>> /\ Empty(b, <<u[1] + Forward(c), u[2]>>)
          \/ /\ t \in {<<u[1] + Forward(c), u[2] - 1>>, <<u[1] + Forward(c), u[2] + 1>>}
             /\ ~Empty(b, t) \/ t = target
      BY <1>1, <2>1
    <2>4. QED
      BY <1>2, <1>3, <1>4, <2>2, <2>3
  <1>7. CASE ~Empty(b, t)
    <2>1. i = x /\ j = y
      BY <1>3, <1>4, <1>6, <1>7
    <2>2. QED
      BY <1>5, <2>1
  <1>8. CASE Empty(b, t) /\ t # target
    <2>1. ~Empty(b, s) /\ ~Empty(b, u)
      BY <1>1 DEF Empty
    <2>2. j = y /\ i = x
      BY <1>5, <1>6, <1>8, <2>1
    <2>3. QED
      BY <1>5, <2>2
  <1>9. CASE Empty(b, t) /\ t = target
    <2>1. PICK p : p = Along(target, <<-w, 0>>, 1)
      OBVIOUS
    <2>2. ~Empty(b, p) /\ b[p] # <<c, "P">>
      <3>1. Holds(b, p, <<getOpponentColor(c), "P">>)
        BY <1>2, <1>9, <2>1, SquareParts DEF PassingOK
      <3>2. QED
        BY <3>1, OpponentOf DEF Holds
    <2>3. \A r \in 0..7, f \in 0..7 : /\ t = <<r + w, f>> => p = <<r, f>>
                                      /\ t = <<r + 2 * w, f>> => p = <<r + w, f>>
      BY <1>9, <2>1 DEF Along
    <2>4. i + w = x + w /\ j = y
      BY <1>3, <1>4, <1>5, <1>6, <1>9, <2>2, <2>3
    <2>5. QED
      BY <1>5, <2>4
  <1>10. QED
    BY <1>7, <1>8, <1>9

PawnText(m) ==
  If(m.captured, <<fileOf(m.from)>>) \o If(m.captured, <<"x">>) \o coordsToAlgebraic(m.to)
    \o If(m.promotion # "no", <<"=", m.promotion>>)

PieceText(m, game) ==
  <<pieceType(m.piece)>> \o getDisambiguation(game, m) \o If(m.captured, <<"x">>) \o coordsToAlgebraic(m.to)

\* The parts of a text
LEMMA TextParts ==
  ASSUME NEW b, IsBoard(b), NEW c \in Colors, NEW target, NEW game, game.board = b,
         game.enPassantTarget = target, NEW m, IsMove(m, b, c, target, game)
  PROVE  /\ m.from \in Squares /\ m.to \in Squares /\ m.captured \in BOOLEAN
         /\ fileOf(m.to) \in Letters /\ rankOf(m.to) \in Digits
         /\ fileOf(m.from) \in Letters /\ rankOf(m.from) \in Digits
         /\ pieceType(m.piece) \in {"P", "N", "B", "R", "Q", "K"}
         /\ m.promotion \in {"no", "Q", "R", "B", "N"}
         /\ pieceType(m.piece) # "P" => m.promotion = "no"
         /\ coordsToAlgebraic(m.to) = <<fileOf(m.to), rankOf(m.to)>>
         /\ coordsToAlgebraic(m.from) = <<fileOf(m.from), rankOf(m.from)>>
  <1>1. m.from \in Men(b, c) /\ m.from \in Squares /\ m.piece = b[m.from]
    BY MenOf DEF IsMove
  <1>2. m.to \in Squares
    <2>1. CASE m.castling = "no" /\ m.to \in getPseudoLegalMoves(b, m.from, target)
      BY <1>1, <2>1, MovesOf
    <2>2. CASE m.castling \in {"K", "Q"} /\ m.to = Home(Castlings[m.castling].land, c)
      <3>1. HomeRow(c) \in 0..7
        BY DEF HomeRow
      <3>2. <<HomeRow(c), 6>> \in Squares /\ <<HomeRow(c), 2>> \in Squares
        BY <3>1 DEF Squares
      <3>3. QED
        BY <2>2, <3>2, CastlingSquares
    <2>3. QED
      BY <2>1, <2>2, MoveOrCastling
  <1>3. m.captured \in BOOLEAN /\ m.promotion \in Promotions(m.piece, m.to)
    BY DEF IsMove
  <1>4. /\ m.promotion \in {"no", "Q", "R", "B", "N"}
        /\ pieceType(m.piece) # "P" => m.promotion = "no"
    BY <1>3 DEF Promotions, requiresPromotion, PROMOTION_PIECES
  <1>5. pieceType(m.piece) \in {"P", "N", "B", "R", "Q", "K"}
    BY <1>1, MenOf
  <1>6. /\ fileOf(m.to) \in Letters /\ rankOf(m.to) \in Digits
        /\ fileOf(m.from) \in Letters /\ rankOf(m.from) \in Digits
    BY <1>1, <1>2, NamesOf DEF Letters, Digits
  <1>7. QED
    BY <1>1, <1>2, <1>3, <1>4, <1>5, <1>6 DEF coordsToAlgebraic

LEMMA Disambiguation ==
  ASSUME NEW b, IsBoard(b), NEW c \in Colors, NEW target, NEW game, game.board = b,
         game.enPassantTarget = target, NEW m, IsMove(m, b, c, target, game)
  PROVE  getDisambiguation(game, m) \in {<<>>, <<fileOf(m.from)>>, <<rankOf(m.from)>>,
                                         <<fileOf(m.from), rankOf(m.from)>>}
  BY TextParts DEF getDisambiguation

LEMMA PartsAreTexts ==
  ASSUME NEW b, IsBoard(b), NEW c \in Colors, NEW target, NEW game, game.board = b,
         game.enPassantTarget = target, NEW m, IsMove(m, b, c, target, game)
  PROVE  /\ If(m.captured, <<fileOf(m.from)>>) \in Seq(Chars) /\ If(m.captured, <<"x">>) \in Seq(Chars)
         /\ coordsToAlgebraic(m.to) \in Seq(Chars)
         /\ If(m.promotion # "no", <<"=", m.promotion>>) \in Seq(Chars)
         /\ <<pieceType(m.piece)>> \in Seq(Chars) /\ getDisambiguation(game, m) \in Seq(Chars)
  <1>1. Letters \subseteq Chars /\ Digits \subseteq Chars
    BY DEF Chars
  <1>2. PICK f \in Chars, r \in Chars : f = fileOf(m.to) /\ r = rankOf(m.to)
    BY <1>1, TextParts
  <1>3. PICK g \in Chars, q \in Chars : g = fileOf(m.from) /\ q = rankOf(m.from)
    BY <1>1, TextParts
  <1>4. PICK type \in Chars, promotion \in Chars : type = pieceType(m.piece) /\ promotion = m.promotion
    BY TextParts DEF Chars
  <1>5. coordsToAlgebraic(m.to) \in Seq(Chars)
    <2>1. <<f, r>> \in Seq(Chars)
      BY ShortTexts
    <2>2. coordsToAlgebraic(m.to) = <<f, r>>
      BY <1>2, TextParts
    <2>3. QED
      BY <2>1, <2>2
  <1>6. getDisambiguation(game, m) \in Seq(Chars)
    <2>1. {<<>>, <<g>>, <<q>>, <<g, q>>} \subseteq Seq(Chars)
      BY ShortTexts
    <2>2. getDisambiguation(game, m) \in {<<>>, <<g>>, <<q>>, <<g, q>>}
      BY <1>3, Disambiguation
    <2>3. QED
      BY <2>1, <2>2
  <1>7. If(m.captured, <<g>>) \in Seq(Chars) /\ If(m.captured, <<"x">>) \in Seq(Chars)
    BY ShortTexts DEF If, Chars
  <1>8. If(promotion # "no", <<"=", promotion>>) \in Seq(Chars) /\ <<type>> \in Seq(Chars)
    BY ShortTexts DEF If, Chars
  <1>9. QED
    BY <1>3, <1>4, <1>5, <1>6, <1>7, <1>8

LEMMA SanIs ==
  ASSUME NEW b, IsBoard(b), NEW c \in Colors, NEW target, NEW game, game.board = b,
         game.enPassantTarget = target, NEW m, IsMove(m, b, c, target, game)
  PROVE  /\ m.castling = "K" => buildSan(game, m, Ongoing) = <<"O-O">>
         /\ m.castling = "Q" => buildSan(game, m, Ongoing) = <<"O-O-O">>
         /\ m.castling = "no" /\ pieceType(m.piece) = "P" => buildSan(game, m, Ongoing) = PawnText(m)
         /\ m.castling = "no" /\ pieceType(m.piece) # "P" => buildSan(game, m, Ongoing) = PieceText(m, game)
  <1>1. PICK san : san = buildSan(game, m, Ongoing)
    OBVIOUS
  <1>2. PICK text : text = IF m.castling = "K" THEN <<"O-O">>
                           ELSE IF m.castling = "Q" THEN <<"O-O-O">>
                           ELSE IF pieceType(m.piece) = "P" THEN PawnText(m) ELSE PieceText(m, game)
    OBVIOUS
  <1>3. san = text \o <<>> \o <<>>
    BY <1>1, <1>2, IfIs DEF buildSan, Ongoing, PawnText, PieceText
  <1>4. text \in Seq(Chars)
    <2>1. /\ If(m.captured, <<fileOf(m.from)>>) \in Seq(Chars) /\ If(m.captured, <<"x">>) \in Seq(Chars)
          /\ coordsToAlgebraic(m.to) \in Seq(Chars)
          /\ If(m.promotion # "no", <<"=", m.promotion>>) \in Seq(Chars)
          /\ <<pieceType(m.piece)>> \in Seq(Chars) /\ getDisambiguation(game, m) \in Seq(Chars)
      BY PartsAreTexts
    <2>2. PawnText(m) \in Seq(Chars)
      BY <2>1, Joined DEF PawnText
    <2>3. PieceText(m, game) \in Seq(Chars)
      BY <2>1, Joined DEF PieceText
    <2>4. <<"O-O">> \in Seq(Chars) /\ <<"O-O-O">> \in Seq(Chars)
      BY ShortTexts DEF Chars
    <2>5. QED
      BY <1>2, <2>2, <2>3, <2>4
  <1>5. san = text
    BY <1>3, <1>4, Joined
  <1>6. QED
    BY <1>1, <1>2, <1>5

\* The first character tells the kinds of text apart.
LEMMA TextHeads ==
  ASSUME NEW b, IsBoard(b), NEW c \in Colors, NEW target, NEW game, game.board = b,
         game.enPassantTarget = target, NEW m, IsMove(m, b, c, target, game)
  PROVE  /\ PawnText(m)[1] \in Letters
         /\ PieceText(m, game)[1] = pieceType(m.piece)
  <1>1. PICK to : to = coordsToAlgebraic(m.to)
    OBVIOUS
  <1>2. PICK takes : takes = If(m.captured, <<"x">>)
    OBVIOUS
  <1>3. PICK promoted : promoted = If(m.promotion # "no", <<"=", m.promotion>>)
    OBVIOUS
  <1>4. PICK dis : dis = getDisambiguation(game, m)
    OBVIOUS
  <1>5. PICK type \in Chars : type = pieceType(m.piece)
    BY TextParts DEF Chars
  <1>6. PICK file \in Letters : file = fileOf(m.from)
    BY TextParts
  <1>7. PICK f \in Letters, r \in Digits : f = fileOf(m.to) /\ r = rankOf(m.to)
    BY TextParts
  <1>8. /\ to \in Seq(Chars) /\ takes \in Seq(Chars) /\ promoted \in Seq(Chars) /\ dis \in Seq(Chars)
        /\ file \in Chars /\ f \in Chars /\ r \in Chars
    BY <1>1, <1>2, <1>3, <1>4, PartsAreTexts DEF Chars
  <1>9. to = <<f, r>>
    BY <1>1, <1>7, TextParts
  <1>10. PawnText(m)[1] \in Letters
    <2>1. CASE m.captured
      <3>1. PawnText(m) = <<file>> \o takes \o to \o promoted
        BY <1>1, <1>2, <1>3, <1>6, <2>1, IfIs DEF PawnText
      <3>2. <<file>> \in Seq(Chars) /\ Len(<<file>>) > 0 /\ <<file>>[1] = file
        BY <1>8
      <3>3. /\ <<file>> \o takes \in Seq(Chars) /\ Len(<<file>> \o takes) > 0 /\ (<<file>> \o takes)[1] = file
        BY <1>8, <3>2, Joined
      <3>4. /\ <<file>> \o takes \o to \in Seq(Chars) /\ Len(<<file>> \o takes \o to) > 0
            /\ (<<file>> \o takes \o to)[1] = file
        BY <1>8, <3>3, Joined
      <3>5. (<<file>> \o takes \o to \o promoted)[1] = file
        BY <1>8, <3>4, Joined
      <3>6. QED
        BY <3>1, <3>5
    <2>2. CASE ~m.captured
      <3>1. PawnText(m) = <<>> \o <<>> \o to \o promoted
        <4>1. m.captured = FALSE
          BY <2>2, TextParts
        <4>2. QED
          BY <1>1, <1>3, <4>1, IfIs DEF PawnText
      <3>2. <<>> \o <<>> \o to = to
        BY <1>8, Joined
      <3>3. to[1] = f /\ Len(to) > 0
        BY <1>9
      <3>4. (to \o promoted)[1] = f
        BY <1>8, <3>3, Joined
      <3>5. QED
        BY <3>1, <3>2, <3>4
    <2>3. QED
      BY <2>1, <2>2
  <1>11. PieceText(m, game)[1] = type
    <2>1. PieceText(m, game) = <<type>> \o dis \o takes \o to
      BY <1>1, <1>2, <1>4, <1>5 DEF PieceText
    <2>2. <<type>> \in Seq(Chars) /\ Len(<<type>>) > 0 /\ <<type>>[1] = type
      BY <1>5
    <2>3. <<type>> \o dis \in Seq(Chars) /\ Len(<<type>> \o dis) > 0 /\ (<<type>> \o dis)[1] = type
      BY <1>8, <2>2, Joined
    <2>4. /\ <<type>> \o dis \o takes \in Seq(Chars) /\ Len(<<type>> \o dis \o takes) > 0
          /\ (<<type>> \o dis \o takes)[1] = type
      BY <1>8, <2>3, Joined
    <2>5. (<<type>> \o dis \o takes \o to)[1] = type
      BY <1>8, <2>4, Joined
    <2>6. QED
      BY <2>1, <2>5
  <1>12. QED
    BY <1>5, <1>10, <1>11

\* Texts built at either end, as operators the provers compare argument by argument
Texts == Seq(Chars)
Spelt(u, a, b) == u \o <<a, b>>
Taking(u, a) == u \o <<a>>
Named(a, u) == <<a>> \o u

LEMMA SpeltAgrees ==
  ASSUME NEW u \in Texts, NEW v \in Texts, NEW a \in Chars, NEW b \in Chars, NEW c \in Chars, NEW d \in Chars
  PROVE  /\ Spelt(u, a, b) \in Texts
         /\ Spelt(u, a, b) = Spelt(v, c, d) => u = v /\ a = c /\ b = d
  <1>1. PICK S : S = Chars
    OBVIOUS
  <1>2. u \in Seq(S) /\ v \in Seq(S) /\ a \in S /\ b \in S /\ c \in S /\ d \in S
    BY <1>1 DEF Texts
  <1>3. u \o <<a, b>> \in Seq(S)
    BY <1>2
  <1>4. ASSUME u \o <<a, b>> = v \o <<c, d>> PROVE u = v /\ a = c /\ b = d
    <2>1. Len(u \o <<a, b>>) = Len(u) + 2 /\ Len(v \o <<c, d>>) = Len(v) + 2
      BY <1>2
    <2>2. Len(u) = Len(v) /\ Len(u) \in Nat
      BY <1>2, <1>4, <2>1
    <2>3. /\ (u \o <<a, b>>)[Len(u) + 1] = a /\ (u \o <<a, b>>)[Len(u) + 2] = b
          /\ (v \o <<c, d>>)[Len(v) + 1] = c /\ (v \o <<c, d>>)[Len(v) + 2] = d
      BY <1>2
    <2>4. \A i \in 1..Len(u) : u[i] = v[i]
      <3>1. \A i \in 1..Len(u) : (u \o <<a, b>>)[i] = u[i]
        BY <1>2
      <3>2. \A i \in 1..Len(v) : (v \o <<c, d>>)[i] = v[i]
        BY <1>2
      <3>3. QED
        BY <1>4, <2>2, <3>1, <3>2
    <2>5. u = v
      BY <1>2, <2>2, <2>4
    <2>6. QED
      BY <1>4, <2>2, <2>3, <2>5
  <1>5. QED
    BY <1>1, <1>3, <1>4 DEF Texts, Spelt

LEMMA TakingAgrees ==
  ASSUME NEW u \in Texts, NEW v \in Texts, NEW a \in Chars
  PROVE  Taking(u, a) \in Texts /\ (Taking(u, a) = Taking(v, a) => u = v)
  <1>1. PICK S : S = Chars
    OBVIOUS
  <1>2. u \in Seq(S) /\ v \in Seq(S) /\ a \in S
    BY <1>1 DEF Texts
  <1>3. u \o <<a>> \in Seq(S)
    BY <1>2
  <1>4. ASSUME u \o <<a>> = v \o <<a>> PROVE u = v
    <2>1. Len(u \o <<a>>) = Len(u) + 1 /\ Len(v \o <<a>>) = Len(v) + 1
      BY <1>2
    <2>2. Len(u) = Len(v) /\ Len(u) \in Nat
      BY <1>2, <1>4, <2>1
    <2>3. \A i \in 1..Len(u) : u[i] = v[i]
      <3>1. \A i \in 1..Len(u) : (u \o <<a>>)[i] = u[i]
        BY <1>2
      <3>2. \A i \in 1..Len(v) : (v \o <<a>>)[i] = v[i]
        BY <1>2
      <3>3. QED
        BY <1>4, <2>2, <3>1, <3>2
    <2>4. QED
      BY <1>2, <2>2, <2>3
  <1>5. QED
    BY <1>1, <1>3, <1>4 DEF Texts, Taking

LEMMA NamedAgrees ==
  ASSUME NEW u \in Texts, NEW v \in Texts, NEW a \in Chars, NEW b \in Chars
  PROVE  Named(a, u) \in Texts /\ (Named(a, u) = Named(b, v) => a = b /\ u = v)
  <1>1. PICK S : S = Chars
    OBVIOUS
  <1>2. u \in Seq(S) /\ v \in Seq(S) /\ a \in S /\ b \in S
    BY <1>1 DEF Texts
  <1>3. <<a>> \o u \in Seq(S)
    BY <1>2
  <1>4. ASSUME <<a>> \o u = <<b>> \o v PROVE a = b /\ u = v
    <2>1. Len(<<a>> \o u) = 1 + Len(u) /\ Len(<<b>> \o v) = 1 + Len(v)
      BY <1>2
    <2>2. Len(u) = Len(v) /\ Len(u) \in Nat
      BY <1>2, <1>4, <2>1
    <2>3. (<<a>> \o u)[1] = a /\ (<<b>> \o v)[1] = b
      BY <1>2
    <2>4. \A i \in 1..Len(u) : u[i] = v[i]
      <3>1. \A i \in 1..Len(u) : (<<a>> \o u)[i + 1] = u[i]
        BY <1>2
      <3>2. \A i \in 1..Len(v) : (<<b>> \o v)[i + 1] = v[i]
        BY <1>2
      <3>3. QED
        BY <1>4, <2>2, <3>1, <3>2
    <2>5. u = v
      BY <1>2, <2>2, <2>4
    <2>6. QED
      BY <1>4, <2>3, <2>5
  <1>5. QED
    BY <1>1, <1>3, <1>4 DEF Texts, Named

\* A text that ends in a square, then in a promotion or in nothing
Promoted(u, x) == IF x = "no" THEN u ELSE Spelt(u, "=", x)

LEMMA PromotionAgrees ==
  ASSUME NEW U \in Texts, NEW V \in Texts, NEW x \in Chars, NEW y \in Chars,
         U # Spelt(V, "=", y), V # Spelt(U, "=", x)
  PROVE  Promoted(U, x) = Promoted(V, y) => U = V /\ x = y
  <1> SUFFICES ASSUME Promoted(U, x) = Promoted(V, y) PROVE U = V /\ x = y
    OBVIOUS
  <1>1. PICK eq \in Chars, no \in Chars : eq = "=" /\ no = "no"
    BY DEF Chars
  <1>2. (IF x = no THEN U ELSE Spelt(U, eq, x)) = (IF y = no THEN V ELSE Spelt(V, eq, y))
    BY <1>1 DEF Promoted
  <1>3. CASE x = no \/ y = no
    BY <1>1, <1>2, <1>3
  <1>4. CASE x # no /\ y # no
    BY <1>2, <1>4, SpeltAgrees
  <1>5. QED
    BY <1>3, <1>4

LEMMA PawnTexts ==
  ASSUME NEW b, IsBoard(b), NEW c \in Colors, NEW target, NEW game, game.board = b,
         game.enPassantTarget = target,
         NEW m, IsMove(m, b, c, target, game), NEW n, IsMove(n, b, c, target, game),
         pieceType(m.piece) = "P", pieceType(n.piece) = "P", PawnText(m) = PawnText(n)
  PROVE  m.to = n.to /\ m.promotion = n.promotion /\ (m.captured => m.from[2] = n.from[2])
  <1>1. /\ m.to \in Squares /\ n.to \in Squares /\ m.from \in Squares /\ n.from \in Squares
        /\ m.captured \in BOOLEAN /\ n.captured \in BOOLEAN
    BY TextParts
  <1>2. PICK f \in Chars, r \in Chars : f = fileOf(m.to) /\ r = rankOf(m.to) /\ coordsToAlgebraic(m.to) = <<f, r>>
    BY TextParts DEF Chars
  <1>3. PICK g \in Chars, q \in Chars : g = fileOf(n.to) /\ q = rankOf(n.to) /\ coordsToAlgebraic(n.to) = <<g, q>>
    BY TextParts DEF Chars
  <1>4. PICK x \in Chars, y \in Chars : x = m.promotion /\ y = n.promotion
    BY TextParts DEF Chars
  <1>5. PICK h \in Chars, k \in Chars : h = fileOf(m.from) /\ k = fileOf(n.from)
    BY TextParts DEF Chars
  <1>6. PICK u \in Texts : u = If(m.captured, <<h>>) \o If(m.captured, <<"x">>)
    BY <1>5, PartsAreTexts, Joined DEF Texts
  <1>7. PICK v \in Texts : v = If(n.captured, <<k>>) \o If(n.captured, <<"x">>)
    BY <1>5, PartsAreTexts, Joined DEF Texts
  <1>8. \A w \in Texts : w \o <<>> = w
    BY Joined DEF Texts
  <1>9. Promoted(Spelt(u, f, r), x) = Promoted(Spelt(v, g, q), y)
    <2>1. Spelt(u, f, r) \o <<>> = Spelt(u, f, r) /\ Spelt(v, g, q) \o <<>> = Spelt(v, g, q)
      BY <1>8, SpeltAgrees
    <2>2. /\ PawnText(m) = Spelt(u, f, r) \o If(x # "no", <<"=", x>>)
          /\ PawnText(n) = Spelt(v, g, q) \o If(y # "no", <<"=", y>>)
      BY <1>2, <1>3, <1>4, <1>5, <1>6, <1>7 DEF PawnText, Spelt
    <2>3. PawnText(m) = Promoted(Spelt(u, f, r), x)
      <3>1. CASE x = "no"
        BY <2>1, <2>2, <3>1 DEF If, Promoted
      <3>2. CASE x # "no"
        BY <2>2, <3>2 DEF If, Promoted, Spelt
      <3>3. QED
        BY <3>1, <3>2
    <2>4. PawnText(n) = Promoted(Spelt(v, g, q), y)
      <3>1. CASE y = "no"
        BY <2>1, <2>2, <3>1 DEF If, Promoted
      <3>2. CASE y # "no"
        BY <2>2, <3>2 DEF If, Promoted, Spelt
      <3>3. QED
        BY <3>1, <3>2
    <2>5. QED
      BY <2>3, <2>4
  <1>10. r # y /\ q # x
    <2>1. r \in Digits /\ q \in Digits
      BY <1>2, <1>3, TextParts
    <2>2. x \in {"no", "Q", "R", "B", "N"} /\ y \in {"no", "Q", "R", "B", "N"}
      BY <1>4, TextParts
    <2>3. QED
      BY <2>1, <2>2 DEF Digits
  <1>11. PICK U \in Texts, V \in Texts : U = Spelt(u, f, r) /\ V = Spelt(v, g, q)
    BY SpeltAgrees
  <1>12. U = V /\ x = y
    <2>1. "=" \in Chars
      BY DEF Chars
    <2>2. U # Spelt(V, "=", y) /\ V # Spelt(U, "=", x)
      BY <1>10, <1>11, <2>1, SpeltAgrees
    <2>3. Promoted(U, x) = Promoted(V, y)
      BY <1>9, <1>11
    <2>4. QED
      BY <2>2, <2>3, PromotionAgrees
  <1>13. u = v /\ f = g /\ r = q /\ x = y
    <2>1. Spelt(u, f, r) = Spelt(v, g, q)
      BY <1>11, <1>12
    <2>2. QED
      BY <1>12, <2>1, SpeltAgrees
  <1>14. m.to = n.to
    BY <1>1, <1>2, <1>3, <1>13, SameName
  <1>15. ASSUME m.captured PROVE m.from[2] = n.from[2]
    <2>1. m.captured = TRUE /\ n.captured = TRUE
      BY <1>1, <1>14, <1>15 DEF IsMove
    <2>2. PICK takes \in Texts : takes = <<"x">>
      BY ShortTexts DEF Texts, Chars
    <2>3. Named(h, takes) = Named(k, takes)
      BY <1>6, <1>7, <1>13, <2>1, <2>2 DEF If, Named
    <2>4. h = k
      BY <2>3, NamedAgrees
    <2>5. fileOf(m.from) = fileOf(n.from)
      BY <1>5, <2>4
    <2>6. QED
      BY <1>1, <2>5, NamesOf
  <1>16. QED
    BY <1>4, <1>13, <1>14, <1>15

LEMMA PieceTexts ==
  ASSUME NEW b, IsBoard(b), NEW c \in Colors, NEW target, NEW game, game.board = b,
         game.enPassantTarget = target,
         NEW m, IsMove(m, b, c, target, game), NEW n, IsMove(n, b, c, target, game),
         pieceType(m.piece) # "P", pieceType(n.piece) # "P", PieceText(m, game) = PieceText(n, game)
  PROVE  /\ m.to = n.to /\ pieceType(m.piece) = pieceType(n.piece)
         /\ getDisambiguation(game, m) = getDisambiguation(game, n)
  <1>1. m.to \in Squares /\ n.to \in Squares /\ m.captured \in BOOLEAN /\ n.captured \in BOOLEAN
    BY TextParts
  <1>2. PICK f \in Chars, r \in Chars : f = fileOf(m.to) /\ r = rankOf(m.to) /\ coordsToAlgebraic(m.to) = <<f, r>>
    BY TextParts DEF Chars
  <1>3. PICK g \in Chars, q \in Chars : g = fileOf(n.to) /\ q = rankOf(n.to) /\ coordsToAlgebraic(n.to) = <<g, q>>
    BY TextParts DEF Chars
  <1>4. PICK x \in Chars, y \in Chars : x = pieceType(m.piece) /\ y = pieceType(n.piece)
    BY TextParts DEF Chars
  <1>5. PICK d \in Texts, e \in Texts : d = getDisambiguation(game, m) /\ e = getDisambiguation(game, n)
    BY PartsAreTexts DEF Texts
  <1>6. PICK u \in Texts : u = Named(x, d)
    BY NamedAgrees
  <1>7. PICK v \in Texts : v = Named(y, e)
    BY NamedAgrees
  <1>8. PICK U \in Texts : U = u \o If(m.captured, <<"x">>)
    BY PartsAreTexts, Joined DEF Texts
  <1>9. PICK V \in Texts : V = v \o If(n.captured, <<"x">>)
    BY PartsAreTexts, Joined DEF Texts
  <1>10. Spelt(U, f, r) = Spelt(V, g, q)
    BY <1>2, <1>3, <1>4, <1>5, <1>6, <1>7, <1>8, <1>9 DEF PieceText, Named, Spelt
  <1>11. U = V /\ f = g /\ r = q
    BY <1>10, SpeltAgrees
  <1>12. m.to = n.to
    BY <1>1, <1>2, <1>3, <1>11, SameName
  <1>13. m.captured = n.captured
    BY <1>12 DEF IsMove
  <1>14. u = v
    <2>1. CASE m.captured
      <3>1. PICK takes \in Chars : takes = "x"
        BY DEF Chars
      <3>2. Taking(u, takes) = Taking(v, takes)
        BY <1>8, <1>9, <1>11, <1>13, <2>1, <3>1 DEF If, Taking
      <3>3. QED
        BY <3>2, TakingAgrees
    <2>2. CASE ~m.captured
      <3>1. u \o <<>> = u /\ v \o <<>> = v
        BY Joined DEF Texts
      <3>2. QED
        BY <1>8, <1>9, <1>11, <1>13, <2>2, <3>1 DEF If
    <2>3. QED
      BY <2>1, <2>2
  <1>15. Named(x, d) = Named(y, e)
    BY <1>6, <1>7, <1>14
  <1>16. x = y /\ d = e
    BY <1>15, NamedAgrees
  <1>17. QED
    BY <1>4, <1>5, <1>12, <1>16

\* What tells a square from those of a set
Told(o, s) ==
  IF ~\E x \in o : fileOf(x) = fileOf(s) THEN <<fileOf(s)>>
  ELSE IF ~\E x \in o : rankOf(x) = rankOf(s) THEN <<rankOf(s)>>
  ELSE <<fileOf(s), rankOf(s)>>

LEMMA ToldApart ==
  ASSUME NEW s \in Squares, NEW u \in Squares, s # u, NEW o, NEW p, u \in o, s \in p
  PROVE  Told(o, s) # Told(p, u)
  <1>1. \/ Told(o, s) = <<fileOf(s)>> /\ fileOf(s) # fileOf(u)
        \/ Told(o, s) = <<rankOf(s)>> /\ rankOf(s) # rankOf(u)
        \/ Told(o, s) = <<fileOf(s), rankOf(s)>>
    BY DEF Told
  <1>2. \/ Told(p, u) = <<fileOf(u)>> /\ fileOf(s) # fileOf(u)
        \/ Told(p, u) = <<rankOf(u)>> /\ rankOf(s) # rankOf(u)
        \/ Told(p, u) = <<fileOf(u), rankOf(u)>>
    BY DEF Told
  <1>3. fileOf(s) # rankOf(u) /\ rankOf(s) # fileOf(u)
    <2>1. fileOf(s) \in Letters /\ rankOf(u) \in Digits /\ rankOf(s) \in Digits /\ fileOf(u) \in Letters
      BY NamesOf DEF Letters, Digits
    <2>2. QED
      BY <2>1 DEF Letters, Digits
  <1>4. fileOf(s) # fileOf(u) \/ rankOf(s) # rankOf(u)
    BY SameName
  <1>5. PICK f, r, g, q : f = fileOf(s) /\ r = rankOf(s) /\ g = fileOf(u) /\ q = rankOf(u)
    OBVIOUS
  <1>6. \A a, b, c, d : <<a>> # <<b, c>> /\ (<<a>> = <<b>> <=> a = b) /\ (<<a, b>> = <<c, d>> <=> a = c /\ b = d)
    OBVIOUS
  <1>7. QED
    BY <1>1, <1>2, <1>3, <1>4, <1>5, <1>6

\* Two pieces of a type with the same text for the same square are one piece.
LEMMA Disambiguated ==
  ASSUME NEW b, IsBoard(b), NEW c \in Colors, NEW target, NEW game, game.board = b,
         game.enPassantTarget = target,
         NEW m, IsMove(m, b, c, target, game), NEW n, IsMove(n, b, c, target, game),
         m.to = n.to, pieceType(m.piece) = pieceType(n.piece), pieceType(m.piece) \notin {"P", "K"},
         getDisambiguation(game, m) = getDisambiguation(game, n)
  PROVE  m.from = n.from
  <1>1. SUFFICES ASSUME m.from # n.from PROVE FALSE
    OBVIOUS
  <1>2. /\ m.from \in Men(b, c) /\ m.piece = b[m.from] /\ n.from \in Men(b, c) /\ n.piece = b[n.from]
        /\ m.from \in Squares /\ n.from \in Squares
        /\ getPieceColor(m.piece) = c /\ getPieceColor(n.piece) = c
    BY MenOf DEF IsMove
  <1>3. PICK all : all = getAllLegalMoves(game, c)
    OBVIOUS
  <1>4. [from |-> m.from, to |-> m.to] \in all /\ [from |-> n.from, to |-> n.to] \in all
    BY <1>3 DEF IsMove
  <1>5. PICK o : o = {z.from : z \in {w \in all : /\ w.to = m.to /\ w.from # m.from
                                                  /\ pieceType(b[w.from]) = pieceType(m.piece)}}
    OBVIOUS
  <1>6. PICK p : p = {z.from : z \in {w \in all : /\ w.to = n.to /\ w.from # n.from
                                                  /\ pieceType(b[w.from]) = pieceType(n.piece)}}
    OBVIOUS
  <1>7. n.from \in o /\ m.from \in p
    BY <1>1, <1>2, <1>4, <1>5, <1>6
  <1>8. getDisambiguation(game, m) = Told(o, m.from)
    BY <1>2, <1>3, <1>5, <1>7 DEF getDisambiguation, coordsToAlgebraic, Told
  <1>9. getDisambiguation(game, n) = Told(p, n.from)
    BY <1>2, <1>3, <1>6, <1>7 DEF getDisambiguation, coordsToAlgebraic, Told
  <1>10. QED
    BY <1>1, <1>2, <1>7, <1>8, <1>9, ToldApart

LEMMA SanInjective ==
  ASSUME NEW b, NEW rights, NEW c \in Colors, NEW target, IsPosition(b, rights, target, c),
         NEW game, game.board = b, game.enPassantTarget = target,
         NEW m, IsMove(m, b, c, target, game), NEW n, IsMove(n, b, c, target, game),
         buildSan(game, m, Ongoing) = buildSan(game, n, Ongoing)
  PROVE  m = n
  <1>1. IsBoard(b) /\ PassingOK(b, c, target)
    BY PositionParts
  <1>2. PICK k : IsKing(b, c, k)
    BY PositionParts
  <1>3. /\ m.from \in Men(b, c) /\ m.piece = b[m.from] /\ n.from \in Men(b, c) /\ n.piece = b[n.from]
        /\ m.piece = <<c, pieceType(m.piece)>> /\ n.piece = <<c, pieceType(n.piece)>>
        /\ m.from \in DOMAIN b /\ n.from \in DOMAIN b
    BY <1>1, MenOf, SymbolParts DEF IsMove
  <1>4. /\ m.captured \in BOOLEAN /\ m.to \in Squares
        /\ pieceType(m.piece) \in {"P", "N", "B", "R", "Q", "K"}
        /\ pieceType(n.piece) \in {"P", "N", "B", "R", "Q", "K"}
        /\ pieceType(m.piece) # "P" => m.promotion = "no"
        /\ pieceType(n.piece) # "P" => n.promotion = "no"
    BY <1>1, TextParts
  <1>5. \/ m.castling = "no" /\ m.to \in getPseudoLegalMoves(b, m.from, target)
        \/ /\ m.castling \in {"K", "Q"} /\ pieceType(m.piece) = "K"
           /\ m.to = Home(Castlings[m.castling].land, c)
    BY <1>1, <1>3, MoveOrCastling
  <1>6. \/ n.castling = "no" /\ n.to \in getPseudoLegalMoves(b, n.from, target)
        \/ /\ n.castling \in {"K", "Q"} /\ pieceType(n.piece) = "K"
           /\ n.to = Home(Castlings[n.castling].land, c)
    BY <1>1, <1>3, MoveOrCastling
  <1>7. pieceType(m.piece) = "K" /\ pieceType(n.piece) = "K" => m.from = n.from
    BY <1>2, <1>3 DEF IsKing
  <1>8. PICK san : san = buildSan(game, m, Ongoing) /\ san = buildSan(game, n, Ongoing)
    OBVIOUS
  <1>9. /\ m.castling = "K" => san = <<"O-O">>
        /\ m.castling = "Q" => san = <<"O-O-O">>
        /\ m.castling = "no" /\ pieceType(m.piece) = "P" => san = PawnText(m) /\ san[1] \in Letters
        /\ m.castling = "no" /\ pieceType(m.piece) # "P" => san = PieceText(m, game) /\ san[1] = pieceType(m.piece)
    BY <1>1, <1>8, SanIs, TextHeads
  <1>10. /\ n.castling = "K" => san = <<"O-O">>
         /\ n.castling = "Q" => san = <<"O-O-O">>
         /\ n.castling = "no" /\ pieceType(n.piece) = "P" => san = PawnText(n) /\ san[1] \in Letters
         /\ n.castling = "no" /\ pieceType(n.piece) # "P" => san = PieceText(n, game) /\ san[1] = pieceType(n.piece)
    BY <1>1, <1>8, SanIs, TextHeads
  <1>11. CASE m.castling = "K" \/ m.castling = "Q"
    <2>1. san[1] \in {"O-O", "O-O-O"}
      BY <1>9, <1>11
    <2>2. n.castling = m.castling
      BY <1>4, <1>6, <1>9, <1>10, <1>11, <2>1 DEF Letters
    <2>3. QED
      BY <1>4, <1>5, <1>6, <1>7, <1>11, <2>2, SameMove
  <1>12. CASE m.castling = "no" /\ pieceType(m.piece) = "P"
    <2>1. san = PawnText(m) /\ san[1] \in Letters
      BY <1>9, <1>12
    <2>2. n.castling = "no" /\ pieceType(n.piece) = "P"
      BY <1>4, <1>6, <1>10, <2>1 DEF Letters
    <2>3. m.to = n.to /\ m.promotion = n.promotion /\ (m.captured => m.from[2] = n.from[2])
      BY <1>1, <1>10, <1>12, <2>1, <2>2, PawnTexts
    <2>4. /\ m.to \in getPawnMoves(b, m.from, c, target) /\ m.to \in getPawnMoves(b, n.from, c, target)
          /\ b[m.from] = <<c, "P">> /\ b[n.from] = <<c, "P">>
      BY <1>1, <1>3, <1>5, <1>6, <1>12, <2>2, <2>3, MovesOf
    <2>5. m.captured <=> ~Empty(b, m.to) \/ m.to = target
      BY <1>3, <1>12 DEF IsMove
    <2>6. m.from = n.from
      BY <1>1, <1>3, <1>4, <2>3, <2>4, <2>5, PawnOrigin
    <2>7. QED
      BY <2>3, <2>6, SameMove
  <1>13. CASE m.castling = "no" /\ pieceType(m.piece) # "P"
    <2>1. san = PieceText(m, game) /\ san[1] = pieceType(m.piece)
      BY <1>9, <1>13
    <2>2. n.castling = "no" /\ pieceType(n.piece) # "P"
      BY <1>4, <1>6, <1>10, <1>13, <2>1 DEF Letters
    <2>3. /\ m.to = n.to /\ pieceType(m.piece) = pieceType(n.piece)
          /\ getDisambiguation(game, m) = getDisambiguation(game, n)
      BY <1>1, <1>10, <1>13, <2>1, <2>2, PieceTexts
    <2>4. m.from = n.from
      <3>1. CASE pieceType(m.piece) = "K"
        BY <1>7, <2>3, <3>1
      <3>2. CASE pieceType(m.piece) # "K"
        BY <1>1, <1>13, <2>3, <3>2, Disambiguated
      <3>3. QED
        BY <3>1, <3>2
    <2>5. QED
      BY <1>4, <1>13, <2>2, <2>3, <2>4, SameMove
  <1>14. QED
    BY <1>5, <1>11, <1>12, <1>13

\* Each member of the set SanIdentifiesMove counts is a move.
LEMMA MovesAreMoves ==
  ASSUME turn \in Colors, NEW x \in Moves, NEW m \in WithPromotion(x)
  PROVE  IsMove(m, board, turn, enPassantTarget, Game)
  <1>1. PICK b : b = board
    OBVIOUS
  <1>2. PICK game : game = Game
    OBVIOUS
  <1>3. PICK target : target = enPassantTarget
    OBVIOUS
  <1>4. PICK c \in Colors : c = turn
    OBVIOUS
  <1>5. game.board = b
    BY <1>1, <1>2, GameIs
  <1>6. PICK y \in getAllLegalMoves(game, c) :
          x = [from |-> y.from, to |-> y.to, piece |-> b[y.from],
               captured |-> ~Empty(b, y.to) \/ (pieceType(b[y.from]) = "P" /\ y.to = target),
               castling |-> IF y.to \in legalMoves(game, y.from) THEN "no"
                            ELSE CHOOSE side \in DOMAIN Castlings : Castlings[side].land = fileOf(y.to),
               promotion |-> "no"]
    BY <1>1, <1>2, <1>3, <1>4 DEF Moves
  <1>7. PICK p \in Promotions(x.piece, x.to) : m = [x EXCEPT !.promotion = p]
    BY DEF WithPromotion
  <1>8. m = [from |-> x.from, to |-> x.to, piece |-> x.piece, captured |-> x.captured,
             castling |-> x.castling, promotion |-> p]
    BY <1>6, <1>7
  <1>9. y.from \in Men(b, c) /\ y = [from |-> y.from, to |-> y.to]
    BY <1>5, <1>6 DEF getAllLegalMoves
  <1>10. IsMove(m, b, c, target, game)
    <2>1. /\ m.from = y.from /\ m.to = y.to /\ m.piece = b[y.from] /\ m.promotion = p
          /\ m.captured = (~Empty(b, y.to) \/ (pieceType(b[y.from]) = "P" /\ y.to = target))
          /\ m.castling = IF y.to \in legalMoves(game, y.from) THEN "no"
                          ELSE CHOOSE side \in DOMAIN Castlings : Castlings[side].land = fileOf(y.to)
      BY <1>6, <1>8
    <2>2. p \in Promotions(m.piece, m.to)
      BY <1>6, <1>7, <2>1
    <2>3. m = [from |-> m.from, to |-> m.to, piece |-> m.piece, captured |-> m.captured,
               castling |-> m.castling, promotion |-> m.promotion]
      BY <1>8
    <2>4. [from |-> m.from, to |-> m.to] \in getAllLegalMoves(game, c)
      BY <1>9, <2>1
    <2>5. QED
      BY <1>9, <2>1, <2>2, <2>3, <2>4 DEF IsMove
  <1>11. QED
    BY <1>1, <1>2, <1>3, <1>4, <1>10

\* The texts of the legal moves of a position are as many as the moves.
THEOREM TextsAreApart == LegalGame => []SanIdentifiesMove
  <1>1. GameInv => SanIdentifiesMove
    <2>1. SUFFICES ASSUME GameInv PROVE SanIdentifiesMove
      OBVIOUS
    <2>2. IsPosition(board, castlingRights, enPassantTarget, turn)
      BY <2>1 DEF GameInv, PositionOK
    <2>3. PICK c \in Colors : c = turn
      BY <2>2, PositionParts
    <2>4. PICK b : b = board
      OBVIOUS
    <2>5. PICK game : game = Game
      OBVIOUS
    <2>6. PICK target : target = enPassantTarget
      OBVIOUS
    <2>7. PICK rights : rights = castlingRights
      OBVIOUS
    <2>8. /\ game.board = b /\ game.enPassantTarget = target
          /\ IsPosition(b, rights, target, c) /\ IsBoard(b)
      BY <2>2, <2>3, <2>4, <2>5, <2>6, <2>7, GameIs, PositionParts
    <2>9. PICK all : all = UNION {WithPromotion(m) : m \in Moves}
      OBVIOUS
    <2>10. ASSUME NEW m \in all PROVE IsMove(m, b, c, target, game)
      BY <2>3, <2>4, <2>5, <2>6, <2>9, MovesAreMoves
    <2>11. IsFiniteSet(all)
      <3>1. PICK Z : Z = (Squares \X Squares) \X {"no", "Q", "R", "B", "N"}
        OBVIOUS
      <3>2. IsFiniteSet(Z)
        <4>1. 0 \in Int /\ 7 \in Int
          OBVIOUS
        <4>2. IsFiniteSet(0..7)
          BY <4>1, FS_Interval
        <4>3. IsFiniteSet(Squares)
          BY <4>2, FS_Product DEF Squares
        <4>4. IsFiniteSet(Squares \X Squares)
          BY <4>3, FS_Product
        <4>5. IsFiniteSet({"no", "Q", "R", "B", "N"})
          <5>1. IsFiniteSet({"no"} \cup {"Q"}) /\ IsFiniteSet({"R"} \cup {"B"}) /\ IsFiniteSet({"N"})
            BY FS_Singleton, FS_Union
          <5>2. IsFiniteSet((({"no"} \cup {"Q"}) \cup ({"R"} \cup {"B"})) \cup {"N"})
            BY <5>1, FS_Union
          <5>3. (({"no"} \cup {"Q"}) \cup ({"R"} \cup {"B"})) \cup {"N"} = {"no", "Q", "R", "B", "N"}
            OBVIOUS
          <5>4. QED
            BY <5>2, <5>3
        <4>6. QED
          BY <3>1, <4>4, <4>5, FS_Product
      <3>3. PICK f : f = [m \in all |-> <<<<m.from, m.to>>, m.promotion>>]
        OBVIOUS
      <3>4. f \in Injection(all, Z)
        <4>1. f \in [all -> Z]
          BY <2>8, <2>10, <3>1, <3>3, TextParts
        <4>2. \A m, n \in all : f[m] = f[n] => m = n
          BY <2>10, <3>3, SameMove
        <4>3. QED
          BY <4>1, <4>2 DEF Injection, IsInjective
      <3>5. QED
        BY <3>2, <3>4, FS_Injection
    <2>12. PICK texts : texts = {buildSan(game, m, Ongoing) : m \in all}
      OBVIOUS
    <2>13. PICK f : f = [m \in all |-> buildSan(game, m, Ongoing)]
      OBVIOUS
    <2>14. f \in Surjection(all, texts)
      BY <2>12, <2>13 DEF Surjection
    <2>15. f \in Injection(all, texts)
      <3>1. \A m, n \in all : f[m] = f[n] => m = n
        BY <2>8, <2>10, <2>13, SanInjective
      <3>2. f \in [all -> texts]
        BY <2>12, <2>13
      <3>3. QED
        BY <3>1, <3>2 DEF Injection, IsInjective
    <2>16. Cardinality(texts) = Cardinality(all)
      BY <2>11, <2>14, <2>15, FS_Surjection
    <2>17. QED
      BY <2>5, <2>9, <2>12, <2>16 DEF SanIdentifiesMove, Ongoing
  <1>2. QED
    BY <1>1, GameInvariance, PTL
=============================================================================
