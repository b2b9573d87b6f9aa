------------------------------- MODULE SeedData -------------------------------
(***************************************************************************)
(* The demo seed of seeds/seed.service.ts: rows with fixed ids, inserted   *)
(* one statement at a time with no transaction around them, each skipped   *)
(* when a row with its key is there already.  The keys of requests and     *)
(* balances hold dates of the accrual period the seed runs in, their ids   *)
(* do not.  A run may be cut off anywhere and started again, in the same   *)
(* period or a later one, and the leave workflow decides the seeded        *)
(* request in the meantime.                                                *)
(***************************************************************************)
EXTENDS Naturals, Sequences

CONSTANTS
  Ids,          \* primary keys of the seeded rows
  Order,        \* Seq(Ids), the order of the inserts
  Dated,        \* the requests and the balances
  Taken,        \* the request seeded APPROVED
  Asked,        \* the request seeded SUBMITTED
  Account,      \* the balance row both are booked on
  DaysOf,       \* [{Taken, Asked} -> Nat], requestedDays
  LastPeriod,   \* bound on the calendar
  Absent        \* no row

Statuses == {"SUBMITTED", "APPROVED", "REJECTED", "CANCELLED"}

ASSUME SeedAssumption ==
  /\ Order \in Seq(Ids)
  /\ \A id \in Ids : \E i \in DOMAIN Order : Order[i] = id
  /\ Dated \subseteq Ids
  /\ {Taken, Asked, Account} \subseteq Dated
  /\ Taken # Asked /\ Account \notin {Taken, Asked}
  /\ \A i \in DOMAIN Order : Order[i] = Account =>
       {Taken, Asked} \subseteq {Order[j] : j \in 1 .. i - 1}
  /\ DaysOf \in [{Taken, Asked} -> Nat]
  /\ LastPeriod \in Nat
  /\ Absent \notin Nat \cup Statuses

Periods == 0 .. LastPeriod

VARIABLES
  row,      \* [Ids -> Periods \cup {Absent}]: the period in the row's key
  status,   \* [{Taken, Asked} -> status]
  counter,  \* used_days and pending_days of Account
  today,    \* the current period
  run       \* where the seed is, and the period it started in

seedVars == <<row, status, counter, today, run>>

Phases == {"off", "inserting", "done", "failed"}

SeedInit ==
  /\ row = [id \in Ids |-> Absent]
  /\ status = [id \in {Taken, Asked} |-> Absent]
  /\ counter = [used |-> 0, pending |-> 0]
  /\ today = 0
  /\ run = [pc |-> "off", next |-> 1, period |-> 0]

-----------------------------------------------------------------------------

Start ==
  /\ run.pc # "inserting"
  /\ run' = [pc |-> "inserting", next |-> 1, period |-> today]
  /\ UNCHANGED <<row, status, counter, today>>

(* Mutant: the period is computed for each row when it is inserted.        *)
PeriodOfRow == today

(* The date of a run is taken once, when it starts.                        *)
PeriodOfRun == run.period

(* The value of the key of id that the run looks for.                      *)
KeyOf(id) == IF id \in Dated THEN PeriodOfRun ELSE 0

(* Mutant: a row counts as seeded when its id is taken.                    *)
SeededById(id) == row[id] # Absent

Seeded(id) == row[id] # Absent /\ row[id] = KeyOf(id)

Advance ==
  run' = [run EXCEPT !.next = @ + 1,
                     !.pc = IF run.next = Len(Order) THEN "done" ELSE @]

Skip ==
  /\ run.pc = "inserting"
  /\ Seeded(Order[run.next])
  /\ Advance
  /\ UNCHANGED <<row, status, counter, today>>

(* Mutant: the pending days are left out of the seeded balance.            *)
CountersWithoutPending == [used |-> DaysOf[Taken], pending |-> 0]

(* countersFor, of the seeded requests and not of the stored ones.         *)
SeedCounters == [used |-> DaysOf[Taken], pending |-> DaysOf[Asked]]

Insert ==
  LET id == Order[run.next] IN
  /\ run.pc = "inserting"
  /\ row[id] = Absent
  /\ row' = [row EXCEPT ![id] = KeyOf(id)]
  /\ status' = CASE id = Taken -> [status EXCEPT ![id] = "APPROVED"]
                 [] id = Asked -> [status EXCEPT ![id] = "SUBMITTED"]
                 [] OTHER      -> status
  /\ counter' = IF id = Account THEN SeedCounters ELSE counter
  /\ Advance
  /\ UNCHANGED today

(* The key is free but the id is not: the primary key refuses the INSERT   *)
(* and the error ends the run.                                             *)
RefusedById ==
  /\ run.pc = "inserting"
  /\ row[Order[run.next]] # Absent
  /\ ~Seeded(Order[run.next])
  /\ run' = [run EXCEPT !.pc = "failed"]
  /\ UNCHANGED <<row, status, counter, today>>

Cut ==
  /\ run.pc = "inserting"
  /\ run' = [run EXCEPT !.pc = "off"]
  /\ UNCHANGED <<row, status, counter, today>>

-----------------------------------------------------------------------------

(* A decision on the seeded request, on the balance row of its period.     *)
Decide(decision) ==
  /\ status[Asked] = "SUBMITTED"
  /\ row[Account] # Absent /\ row[Account] = row[Asked]
  /\ status' = [status EXCEPT ![Asked] = decision]
  /\ counter' =
       [used |-> counter.used + IF decision = "APPROVED" THEN DaysOf[Asked] ELSE 0,
        pending |-> counter.pending - DaysOf[Asked]]
  /\ UNCHANGED <<row, today, run>>

NextPeriod ==
  /\ today < LastPeriod
  /\ today' = today + 1
  /\ UNCHANGED <<row, status, counter, run>>

SeedNext ==
  \/ Start \/ Skip \/ Insert \/ RefusedById \/ Cut
  \/ \E decision \in {"APPROVED", "REJECTED", "CANCELLED"} : Decide(decision)
  \/ NextPeriod

SeedSpec == SeedInit /\ [][SeedNext]_seedVars

-----------------------------------------------------------------------------

SeedTypeOK ==
  /\ row \in [Ids -> Periods \cup {Absent}]
  /\ status \in [{Taken, Asked} -> Statuses \cup {Absent}]
  /\ counter \in [used : Nat, pending : Nat]
  /\ today \in Periods
  /\ run \in [pc : Phases, next : 1 .. Len(Order) + 1, period : Periods]

DaysWith(st) ==
  (IF status[Taken] = st THEN DaysOf[Taken] ELSE 0)
    + (IF status[Asked] = st THEN DaysOf[Asked] ELSE 0)

(* "used/pending are DERIVED from the seeded requests": however often the  *)
(* seed is cut off and run again, and whatever is decided in between, the  *)
(* seeded balance is that of the requests of its period.                   *)
SeededBalanceAgrees ==
  row[Account] # Absent =>
    /\ row[Taken] = row[Account] /\ row[Asked] = row[Account]
    /\ counter.used = DaysWith("APPROVED")
    /\ counter.pending = DaysWith("SUBMITTED")

(* A run that ends without an error has left the demo data of the period   *)
(* it ran in, balances included.                                           *)
DoneIsSeeded ==
  run.pc = "done" =>
    \A id \in Ids : row[id] = IF id \in Dated THEN run.period ELSE 0

(* Within a period re-running skips what is there: a run is refused only   *)
(* over rows that an earlier period's run has left.                        *)
RefusedOverOlder ==
  run.pc = "failed" => \E id \in Dated : row[id] \notin {Absent, run.period}
=============================================================================
