----------------------------- MODULE DateColumnsMC -----------------------------
(* Hire dates at the end of a month around a leap February, and one at the  *)
(* start of a month, each with monthly, quarterly and yearly periods.       *)
(* Month 0 is the January of a leap year, month 11 its December.            *)
EXTENDS DateColumns

HireDatesMC == {[month |-> 0, day |-> 31], [month |-> 1, day |-> 29],
                [month |-> 7, day |-> 31], [month |-> 11, day |-> 1]}

=============================================================================
