------------------------------ MODULE DateColumns ------------------------------
(***************************************************************************)
(* How the dates of the accrual calendar survive PostgreSQL.  A DATE column*)
(* holds a calendar date and no zone.  The driver reads one as UTC midnight*)
(* (the type parser connection.ts installs) but writes a Date parameter in *)
(* the server's own zone, so a row and the key of a look-up are the same   *)
(* only if both went the same way.  The seed passes text, which nothing    *)
(* converts.  One employee and leave type, and the newest balance row.     *)
(***************************************************************************)
EXTENDS AccrualCalendar

CONSTANTS
  Zones,   \* the server's offset from UTC, in hours
  Hours,   \* the hours, in UTC, at which callers say a leave starts: the
           \* route takes any instant, the request form sends midnights
  NoRow

ASSUME ColumnsAssumption ==
  /\ Zones \subseteq -12 .. 14
  /\ Hours \subseteq 0 .. 23
  /\ NoRow # Unresolved

VARIABLES
  zone,    \* the zone the server runs in
  newest   \* the DATE columns of the newest balance row, or NoRow

columns == <<zone, newest>>

-----------------------------------------------------------------------------
(* node-postgres: a parameter is formatted in local time, and PostgreSQL   *)
(* keeps the date of the text it gets.                                     *)
ToColumn(day, hour) ==
  CASE hour + zone < 0   -> Yesterday(day)
    [] hour + zone >= 24 -> Tomorrow(day)
    [] OTHER             -> day

(* Mutant: the default parser, whose local midnight is a day earlier in UTC*)
(* east of Greenwich.                                                      *)
AtLocalMidnight(column) == IF zone > 0 THEN Yesterday(column) ELSE column

(* The parser of connection.ts.                                            *)
FromColumn(column) == column

RowOf(period) ==
  [start |-> ToColumn(period.start, 0), end |-> ToColumn(period.end, 0)]

(* resolveBalance for an instant of a day: the period is computed from the *)
(* stored hire date, and findByKey sends its bounds, which are midnights,  *)
(* as parameters.  The hour cannot matter: a period ends at a midnight.    *)
KeyOf(day) ==
  LET period == PeriodContaining(FromColumn(anchor), months, day)
  IN IF period = Unresolved THEN Unresolved ELSE RowOf(period)

(* The day that was asked for, as the request's row gives it back.         *)
StoredDay(day, hour) == FromColumn(ToColumn(day, hour))

ColumnsInit ==
  /\ CalendarInit
  /\ zone \in Zones
  /\ newest = NoRow

-----------------------------------------------------------------------------

(* The seed opens the period of the present day, computed from the hire    *)
(* date it is about to insert and written as text.                         *)
Seed ==
  /\ newest = NoRow
  /\ newest' = Current
  /\ UNCHANGED <<calendar, zone>>

(* openPeriod for the period of the present day.                           *)
OpenPeriod ==
  /\ newest = NoRow
  /\ KeyOf(date) # Unresolved
  /\ newest' = KeyOf(date)
  /\ UNCHANGED <<calendar, zone>>

(* carryForward of a row whose period has ended opens the one it computes  *)
(* from the end it reads.                                                  *)
CarryForward ==
  LET end == FromColumn(newest.end) IN
  /\ newest # NoRow
  /\ ~Before(date, end)
  /\ newest' = RowOf([start |-> end, end |-> AddMonths(end, months)])
  /\ UNCHANGED <<calendar, zone>>

(* Bound: a period is carried forward before the next one has passed.      *)
Midnight ==
  /\ newest # NoRow => Before(date, AddMonths(newest.end, months))
  /\ NextDay
  /\ UNCHANGED columns

ColumnsNext == Seed \/ OpenPeriod \/ CarryForward \/ Midnight

ColumnsSpec == ColumnsInit /\ [][ColumnsNext]_<<calendar, columns>>

-----------------------------------------------------------------------------

(* "Returning UTC midnight makes the driver agree with the arithmetic that *)
(* consumes it": a day within a balance row resolves to that row, whether  *)
(* the day comes from a new request or from the columns of a stored one,   *)
(* and whether the seed, openPeriod or carryForward wrote the row.  The    *)
(* row is checked for a new request and booked for a stored one: they are  *)
(* the same as long as it is the same day where the server runs.           *)
RequestsFindRow ==
  newest # NoRow /\ Within(newest, date) =>
    /\ KeyOf(date) = newest
    /\ \A hour \in Hours :
         hour + zone \in 0 .. 23 => KeyOf(StoredDay(date, hour)) = newest
=============================================================================
