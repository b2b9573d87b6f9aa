--------------------------- MODULE AccrualCalendar ---------------------------
(***************************************************************************)
(* The days of an employee's accrual calendar, one after the other: which  *)
(* period periodContaining gives for each of them.                         *)
(***************************************************************************)
EXTENDS AccrualPeriods

CONSTANTS
  HireDates,     \* anchors, month ends among them
  PeriodLengths, \* accrualPeriodMonths of the policies
  Days           \* bound: how far the calendar runs, in months, which is
                 \* not beyond the safety bound

ASSUME CalendarAssumption ==
  /\ \A d \in HireDates : ValidDate(d)
  /\ PeriodLengths \subseteq Nat \ {0}
  /\ Days \in Nat /\ Days + 1 < MaxPeriods

VARIABLES anchor, months, date

calendar == <<anchor, months, date>>

Current == PeriodContaining(anchor, months, date)

CalendarInit ==
  /\ anchor \in HireDates
  /\ months \in PeriodLengths
  /\ date = anchor

NextDay ==
  /\ date.month < anchor.month + Days
  /\ date' = Tomorrow(date)
  /\ UNCHANGED <<anchor, months>>

CalendarSpec == CalendarInit /\ [][NextDay]_calendar

-----------------------------------------------------------------------------

(* The period of the next day is the same one, or starts that day where    *)
(* this one ends: no day falls between two periods or into both.           *)
PeriodsTile ==
  [][Current' = Current
       \/ (Current'.start = Current.end /\ date' = Current.end)]_calendar

(* carryForward opens the row of the period after source.periodEnd as      *)
(* [periodEnd, addMonths(periodEnd)): the one a later request looks up.    *)
NextPeriodAgrees ==
  PeriodContaining(anchor, months, Current.end)
    = [start |-> Current.end, end |-> AddMonths(Current.end, months)]

(* Every day from the hire date on has its period, which starts and ends   *)
(* on days there are.  Clamping at month ends adds up from period to       *)
(* period, but no start is earlier in its month than the 28th unless the   *)
(* hire date is, nor later than the hire date, and no month is skipped.    *)
DriftBounded ==
  /\ Current # Unresolved
  /\ ValidDate(Current.start) /\ ValidDate(Current.end)
  /\ Current.start.day <= anchor.day
  /\ Current.start.day >= IF anchor.day < 28 THEN anchor.day ELSE 28
  /\ Current.end.month = Current.start.month + months
  /\ (Current.start.month - anchor.month) % months = 0
=============================================================================
