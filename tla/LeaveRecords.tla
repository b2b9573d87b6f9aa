---------------------------- MODULE LeaveRecords ----------------------------
(***************************************************************************)
(* The records of the leave workflow and the rules about them that read no *)
(* variable: who may act on a leave_requests row, and how the rows of an   *)
(* account add up.                                                         *)
(*                                                                         *)
(* A leave_balances row (employee, leave type, accrual period) is an       *)
(* Account.  A request resolves to the same account each time, which is    *)
(* what one policy per leave type gives.  Dates are days counted from 0.   *)
(***************************************************************************)
EXTENDS Integers, FiniteSets

CONSTANTS
  Employees,   \* the authenticated actors
  Role,        \* [Employees -> Roles]
  ManagerOf,   \* [Employees -> Employees \cup {None}]
  Accounts,    \* the leave_balances rows
  OwnerOf,     \* [Accounts -> Employees]
  Requests,    \* the ids leave_requests rows can get
  DayCounts,   \* the requestedDays the clients ask for
  StartDays,   \* the start dates the clients ask for
  None         \* SQL NULL, and the absent row

Roles    == {"EMPLOYEE", "MANAGER", "ADMIN"}
Statuses == {"DRAFT", "SUBMITTED", "APPROVED", "REJECTED", "CANCELLED"}

Row == [status : Statuses, account : Accounts, days : DayCounts,
        start : StartDays, approver : Employees \cup {None},
        cancelledBy : Employees \cup {None}, reverses : Requests \cup {None}]

(* What is left of a row where only who may act on it matters.             *)
View == [status : Statuses, account : Accounts]

Balance == [used : Int, pending : Int]

ASSUME ActorsAssumption ==
  /\ Role \in [Employees -> Roles]
  /\ ManagerOf \in [Employees -> Employees \cup {None}]
  /\ OwnerOf \in [Accounts -> Employees]

ASSUME RecordsAssumption ==
  /\ IsFiniteSet(Requests)
  /\ DayCounts \subseteq Nat \ {0}
  /\ StartDays \subseteq Nat
  /\ None \notin Employees \cup Requests \cup Row \cup View \cup Statuses

-----------------------------------------------------------------------------

Owner(row) == OwnerOf[row.account]

(* A MANAGER must be the direct manager of the owner, an ADMIN need not.   *)
Oversees(actor, row) ==
  \/ Role[actor] = "ADMIN"
  \/ Role[actor] = "MANAGER" /\ ManagerOf[Owner(row)] = actor

MayDecide(actor, row) == actor # Owner(row) /\ Oversees(actor, row)

MayCancel(actor, row) ==
  \/ actor = Owner(row) /\ row.status \in {"DRAFT", "SUBMITTED"}
  \/ actor # Owner(row) /\ row.status = "APPROVED" /\ Oversees(actor, row)

Draft(a, n, d) ==
  [status |-> "DRAFT", account |-> a, days |-> n, start |-> d,
   approver |-> None, cancelledBy |-> None, reverses |-> None]

(* Mutant: the reversal refers to its actor.                               *)
ReversalOfActor(r, row, actor) ==
  [Draft(row.account, row.days, row.start) EXCEPT
     !.status = "CANCELLED", !.cancelledBy = actor, !.reverses = actor]

(* The row that stands for the cancellation of the APPROVED row of id r.   *)
ReversalOf(r, row, actor) ==
  [Draft(row.account, row.days, row.start) EXCEPT
     !.status = "CANCELLED", !.cancelledBy = actor, !.reverses = r]

-----------------------------------------------------------------------------
(* The rows of a leave_requests table, a function of Requests.             *)

StoredIn(rows) == {r \in Requests : rows[r] # None}

ReversedIn(rows, r) == \E s \in StoredIn(rows) : rows[s].reverses = r

SubmittedIn(rows, a) ==
  {r \in StoredIn(rows) : rows[r].account = a /\ rows[r].status = "SUBMITTED"}

(* Approved leave of account a that no reversal has released.              *)
TakenIn(rows, a) ==
  {r \in StoredIn(rows) : /\ rows[r].account = a
                          /\ rows[r].status = "APPROVED"
                          /\ ~ReversedIn(rows, r)}

(* One element for each requested day of the requests in S: its            *)
(* cardinality is the sum of their requestedDays.                          *)
DayUnits(rows, S) == UNION {{r} \X (1 .. rows[r].days) : r \in S}

DaysOf(rows, S) == Cardinality(DayUnits(rows, S))
=============================================================================
