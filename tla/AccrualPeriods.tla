--------------------------- MODULE AccrualPeriods ---------------------------
(***************************************************************************)
(* The accrual calendar of src/src/shared/date/accrual.ts.  A period starts*)
(* on the hire date and every accrualPeriodMonths later; a request and a   *)
(* balance row are matched by the start and the end of a period, so both   *)
(* sides must compute the same ones.                                       *)
(*                                                                         *)
(* A date is a UTC midnight: months since the epoch of the calendar, and   *)
(* the day of the month.                                                   *)
(***************************************************************************)
EXTENDS Integers, FiniteSetsExt

CONSTANTS
  MaxPeriods,   \* the safety bound of periodContaining, 10000 in the code
  Unresolved    \* the ConflictError it throws

DateType == [month : Int, day : 1 .. 31]

ASSUME PeriodsAssumption ==
  /\ MaxPeriods \in Nat
  /\ Unresolved \notin [start : DateType, end : DateType]

LeapYear(y) == y % 4 = 0 /\ (y % 100 # 0 \/ y % 400 = 0)

DaysIn(month) ==
  CASE month % 12 = 1 -> IF LeapYear(month \div 12) THEN 29 ELSE 28
    [] month % 12 \in {3, 5, 8, 10} -> 30
    [] OTHER -> 31

ValidDate(date) == date \in DateType /\ date.day <= DaysIn(date.month)

Before(d, e) == d.month < e.month \/ (d.month = e.month /\ d.day < e.day)

Tomorrow(date) ==
  IF date.day < DaysIn(date.month)
  THEN [date EXCEPT !.day = @ + 1]
  ELSE [month |-> date.month + 1, day |-> 1]

Yesterday(date) ==
  IF date.day > 1
  THEN [date EXCEPT !.day = @ - 1]
  ELSE [month |-> date.month - 1, day |-> DaysIn(date.month - 1)]

-----------------------------------------------------------------------------

(* Mutant: the day is not clamped, and setUTCDate runs into the next month.*)
AddMonthsUnclamped(date, months) ==
  LET m == date.month + months IN
  IF date.day <= DaysIn(m) THEN [month |-> m, day |-> date.day]
                           ELSE [month |-> m + 1, day |-> date.day - DaysIn(m)]

(* The day is clamped to the last day of the month reached.                *)
AddMonths(date, months) ==
  LET m == date.month + months
      lastDay == DaysIn(m)
  IN [month |-> m, day |-> IF date.day <= lastDay THEN date.day ELSE lastDay]

(* Mutant: every end is computed from the anchor.                          *)
EndFromAnchor(anchor, months, i, start) == AddMonths(anchor, (i + 1) * months)

(* The end of the period of index i, which starts on the given date.       *)
EndOf(anchor, months, i, start) == AddMonths(start, months)

(* Mutant: the end of a period belongs to it.                              *)
WithinClosed(period, date) ==
  ~Before(date, period.start) /\ ~Before(period.end, date)

(* Periods are half-open.                                                  *)
Within(period, date) ==
  ~Before(date, period.start) /\ Before(date, period.end)

(* The same as a function of the start, of which TLC takes the value once. *)
NextStart(anchor, months, i, start) ==
  [d \in DateType |-> EndOf(anchor, months, i, d)][start]

(* The days on which the periods start, each where the one before ends.    *)
Starts(anchor, months) ==
  LET start[i \in 0 .. MaxPeriods] ==
        IF i = 0 THEN anchor ELSE NextStart(anchor, months, i - 1, start[i - 1])
  IN start

(* The first period that contains the date, and a ConflictError when the   *)
(* date precedes the anchor or no period within the bound contains it.     *)
PeriodContaining(anchor, months, date) ==
  LET start == Starts(anchor, months)
      indices == 0 .. MaxPeriods - 1
      period == [i \in indices |-> [start |-> start[i], end |-> start[i + 1]]]
      hits == {i \in indices : Within(period[i], date)}
  IN IF Before(date, anchor) \/ hits = {} THEN Unresolved
     ELSE period[Min(hits)]
=============================================================================
