----------------------------- MODULE LeaveLedger -----------------------------
(***************************************************************************)
(* What the leave workflow promises, each operation one atomic step: a     *)
(* leave request moves through its lifecycle on decisions of those allowed *)
(* to take them, a completed decision is immutable, cancelling an approval *)
(* inserts one reversal row, and every move of days is booked on the       *)
(* balance in the same step.  LeaveService is shown to implement it when   *)
(* calls on one request do not overlap.                                    *)
(***************************************************************************)
EXTENDS LeaveRecords

VARIABLES
  request,   \* [Requests -> Row \cup {None}]
  balance    \* [Accounts -> Balance]

vars == <<request, balance>>

Init ==
  /\ request = [r \in Requests |-> None]
  /\ balance = [a \in Accounts |-> [used |-> 0, pending |-> 0]]

Is(r, status) == request[r] # None /\ request[r].status = status

Book(r, used, pending) ==
  LET a == request[r].account IN
  balance' = [balance EXCEPT
    ![a] = [used    |-> balance[a].used + used * request[r].days,
            pending |-> balance[a].pending + pending * request[r].days]]

Create(r, a, n, d) ==
  /\ request[r] = None
  /\ request' = [request EXCEPT ![r] = Draft(a, n, d)]
  /\ UNCHANGED balance

Submit(r) ==
  /\ Is(r, "DRAFT")
  /\ request' = [request EXCEPT
       ![r] = [request[r] EXCEPT !.status = "SUBMITTED"]]
  /\ Book(r, 0, 1)

Approve(r, actor) ==
  /\ Is(r, "SUBMITTED")
  /\ MayDecide(actor, request[r])
  /\ request' = [request EXCEPT
       ![r] = [request[r] EXCEPT !.status = "APPROVED", !.approver = actor]]
  /\ Book(r, 1, -1)

Reject(r, actor) ==
  /\ Is(r, "SUBMITTED")
  /\ MayDecide(actor, request[r])
  /\ request' = [request EXCEPT
       ![r] = [request[r] EXCEPT !.status = "REJECTED", !.approver = actor]]
  /\ Book(r, 0, -1)

CancelDraft(r, actor) ==
  /\ Is(r, "DRAFT")
  /\ MayCancel(actor, request[r])
  /\ request' = [request EXCEPT
       ![r] = [request[r] EXCEPT !.status = "CANCELLED",
                                 !.cancelledBy = actor]]
  /\ UNCHANGED balance

CancelSubmitted(r, actor) ==
  /\ Is(r, "SUBMITTED")
  /\ MayCancel(actor, request[r])
  /\ request' = [request EXCEPT
       ![r] = [request[r] EXCEPT !.status = "CANCELLED",
                                 !.cancelledBy = actor]]
  /\ Book(r, 0, -1)

(* The original row is left alone: the reversal s carries the cancellation. *)
Reverse(r, s, actor) ==
  /\ Is(r, "APPROVED")
  /\ MayCancel(actor, request[r])
  /\ ~ReversedIn(request, r)
  /\ request[s] = None
  /\ request' = [request EXCEPT ![s] = ReversalOf(r, request[r], actor)]
  /\ Book(r, -1, 0)

Next ==
  \E r \in Requests :
    \/ \E a \in Accounts, n \in DayCounts, d \in StartDays : Create(r, a, n, d)
    \/ Submit(r)
    \/ \E actor \in Employees :
         \/ Approve(r, actor)
         \/ Reject(r, actor)
         \/ CancelDraft(r, actor)
         \/ CancelSubmitted(r, actor)
         \/ \E s \in Requests : Reverse(r, s, actor)

Spec == Init /\ [][Next]_vars

-----------------------------------------------------------------------------

TypeOK ==
  /\ request \in [Requests -> Row \cup {None}]
  /\ balance \in [Accounts -> Balance]

(* pendingDays is the total of the SUBMITTED requests of the account and   *)
(* usedDays that of its APPROVED requests no reversal has released.        *)
CountersAgree ==
  \A a \in Accounts :
    /\ balance[a].pending = DaysOf(request, SubmittedIn(request, a))
    /\ balance[a].used = DaysOf(request, TakenIn(request, a))

(* Reversal rows name distinct originals, stored, APPROVED and of the same *)
(* account, days and dates.                                                *)
ReversalsMatch ==
  \A s \in StoredIn(request), r \in Requests : request[s].reverses = r =>
    /\ request[s].status = "CANCELLED"
    /\ r \in StoredIn(request)
    /\ request[r].status = "APPROVED" /\ request[r].reverses = None
    /\ request[s].account = request[r].account
    /\ request[s].days = request[r].days
    /\ \A t \in StoredIn(request) : request[t].reverses = r => t = s

-----------------------------------------------------------------------------
(* The life of each request: a reversal row has none of its own, it ends   *)
(* that of the approval it names.                                          *)

PhaseOf(status) ==
  CASE status = "DRAFT"     -> "draft"
    [] status = "SUBMITTED" -> "submitted"
    [] status = "APPROVED"  -> "approved"
    [] status = "REJECTED"  -> "rejected"
    [] status = "CANCELLED" -> "cancelled"

Original(r) == r \in StoredIn(request) /\ request[r].reverses = None

Phase(r) ==
  IF ~Original(r) THEN "none"
  ELSE IF ReversedIn(request, r) THEN "released"
  ELSE PhaseOf(request[r].status)

Lifecycle == INSTANCE LeaveLifecycle
               WITH phase <- [r \in Requests |-> Phase(r)]

(* Every operation moves one request one phase on, and no other: no        *)
(* decision is taken twice or back, no row comes back from the cancelled   *)
(* or released, and a reversal releases exactly the approval it names.     *)
ImplementsLifecycle == Lifecycle!Spec
=============================================================================
