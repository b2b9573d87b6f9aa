----------------------------- MODULE LeaveCommits -----------------------------
(***************************************************************************)
(* What the leave workflow promises of calls that overlap on one request.  *)
(* A call reads the status of a request and applies its guards; its commit *)
(* comes later and does not look at the status again.  So a commit moves a *)
(* request as its operation does from SOME status the request has had, not *)
(* always the one it has.  LeaveService is shown to implement this however *)
(* calls race; the pages of the web client are modelled on top of it.      *)
(*                                                                         *)
(* Balances are left out: a decision may also fail on them, and any call   *)
(* may fail at any time, which is a step not taken.                        *)
(***************************************************************************)
EXTENDS LeaveRecords

VARIABLES
  request,   \* [Requests -> View \cup {None}], status and account of the rows
  past       \* [Requests -> SUBSET Statuses], the statuses rows have had

commits == <<request, past>>

Operations == {"submit", "approve", "reject", "cancel"}

(* The status an operation sets.                                           *)
Outcome ==
  [submit |-> "SUBMITTED", approve |-> "APPROVED", reject |-> "REJECTED",
   cancel |-> "CANCELLED"]

(* The guards of an operation, on the row it has read.                     *)
Permits(operation, actor, row) ==
  CASE operation = "submit" -> Owner(row) = actor /\ row.status = "DRAFT"
    [] operation = "cancel" -> MayCancel(actor, row)
    [] OTHER -> MayDecide(actor, row) /\ row.status = "SUBMITTED"

(* Row r as a call has read it.                                            *)
Seen(r, status) == [request[r] EXCEPT !.status = status]

CommitsInit ==
  /\ request = [r \in Requests |-> None]
  /\ past = [r \in Requests |-> {}]

Insert(r, status, a) ==
  /\ request[r] = None
  /\ request' = [request EXCEPT ![r] = [status |-> status, account |-> a]]
  /\ past' = [past EXCEPT ![r] = {status}]

CommitDraft(r, a) == Insert(r, "DRAFT", a)

(* A call that has read status and commits now.                            *)
CommitInPlace(r, operation, actor, status) ==
  /\ request[r] # None /\ status \in past[r]
  /\ Permits(operation, actor, Seen(r, status))
  /\ status # "APPROVED"
  /\ request' = [request EXCEPT ![r] = Seen(r, Outcome[operation])]
  /\ past' = [past EXCEPT ![r] = past[r] \cup {Outcome[operation]}]

(* Cancelling what was read APPROVED inserts a row of its own.             *)
CommitReversal(r, s, actor) ==
  /\ request[r] # None /\ "APPROVED" \in past[r]
  /\ Permits("cancel", actor, Seen(r, "APPROVED"))
  /\ Insert(s, "CANCELLED", request[r].account)

CommitsNext ==
  \E r \in Requests :
    \/ \E a \in Accounts : CommitDraft(r, a)
    \/ \E operation \in Operations, actor \in Employees, status \in Statuses :
         CommitInPlace(r, operation, actor, status)
    \/ \E s \in Requests, actor \in Employees : CommitReversal(r, s, actor)

CommitsSpec == CommitsInit /\ [][CommitsNext]_commits
=============================================================================
