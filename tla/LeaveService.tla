----------------------------- MODULE LeaveService -----------------------------
(***************************************************************************)
(* The leave-request workflow of src/src/modules/leave/leave.service.ts    *)
(* on PostgreSQL at READ COMMITTED.  A handler is one HTTP request being   *)
(* served.  It reads the leave request and applies its guards outside any  *)
(* transaction, opens a transaction, locks the balance row                 *)
(* (SELECT ... FOR UPDATE), stages its writes and commits them together.   *)
(* Handlers interleave between any two awaits of the code, and a handler   *)
(* may be rolled back at any of them (an error, a lost connection, a       *)
(* crashed server).                                                        *)
(***************************************************************************)
EXTENDS LeaveRecords, Sequences

CONSTANTS
  Entitled,        \* [Accounts -> Nat], entitled_days
  Creatable,       \* bound: the ids left to create, the rest are reversals'
  Handlers,        \* HTTP requests that can be in service at once
  LastDay,         \* bound on the calendar
  SerialRequests   \* TRUE when two calls never overlap on one leave request

Ops == {"create", "submit", "approve", "reject", "cancel"}

Entry == [action : Ops, actor : Employees,
          before : Statuses \cup {None}, after : Statuses]

ASSUME ServiceAssumption ==
  /\ Entitled \in [Accounts -> Nat]
  /\ Creatable \subseteq Requests
  /\ LastDay \in Nat
  /\ SerialRequests \in BOOLEAN
  /\ None \notin Handlers \cup Ops

VARIABLES
  request,      \* [Requests -> Row \cup {None}], the committed leave_requests
  balance,      \* [Accounts -> Balance], the committed leave_balances
  balanceLock,  \* [Accounts -> Handlers \cup {None}], FOR UPDATE row locks
  rowLock,      \* [Requests -> Handlers \cup {None}], leave_requests row locks
  audit,        \* [Requests -> Seq(Entry)], audit_logs per entity
  notified,     \* [Requests -> Nat], notifications sent about a request
  today,        \* the current UTC day
  call          \* [Handlers -> Call], where each handler is

db    == <<request, balance, audit, notified>>
locks == <<balanceLock, rowLock>>
vars  == <<db, locks, today, call>>

-----------------------------------------------------------------------------
(* Local state of a handler: the step it has reached, the request row it   *)
(* read before its transaction, the balance it read under the lock, and    *)
(* the request row and the balance its transaction has staged.             *)

Steps == {"idle", "checked", "searched", "locked", "written"}

Call == [pc : Steps, op : Ops \cup {None}, actor : Employees \cup {None},
         id : Requests \cup {None}, seen : Row \cup {None}, held : Balance,
         target : Requests \cup {None}, out : Row \cup {None}, booked : Balance]

ZeroBalance == [used |-> 0, pending |-> 0]

Idle == [pc |-> "idle", op |-> None, actor |-> None, id |-> None,
         seen |-> None, held |-> ZeroBalance,
         target |-> None, out |-> None, booked |-> ZeroBalance]

Stored == StoredIn(request)

(* Mutant: the search looks for a reversal that is still open.             *)
ReversedWhileOpen(r) ==
  \E s \in Stored : request[s].reverses = r /\ request[s].status # "CANCELLED"

Reversed(r) == ReversedIn(request, r)

Available(a) == Entitled[a] - balance[a].used - balance[a].pending

Begun(row) == row.start <= today

(* With SerialRequests, a call on r starts only when no other is on r.     *)
Uncontended(r) == SerialRequests => \A g \in Handlers : call[g].id # r

Init ==
  /\ request     = [r \in Requests |-> None]
  /\ balance     = [a \in Accounts |-> ZeroBalance]
  /\ balanceLock = [a \in Accounts |-> None]
  /\ rowLock     = [r \in Requests |-> None]
  /\ audit       = [r \in Requests |-> <<>>]
  /\ notified    = [r \in Requests |-> 0]
  /\ today       = 0
  /\ call        = [h \in Handlers |-> Idle]

-----------------------------------------------------------------------------
(* Before the transaction: read the request, apply the guards.  A guard    *)
(* that fails answers the caller and changes nothing.                      *)

Accept(h, op, actor, r) ==
  /\ call' = [call EXCEPT ![h] = [Idle EXCEPT !.pc = "checked", !.op = op,
                !.actor = actor, !.id = r, !.seen = request[r]]]
  /\ UNCHANGED <<db, locks, today>>

(* Ids are random UUIDs: no row and no staged insert has a fresh one.      *)
Fresh(r) == r \notin Stored /\ rowLock[r] = None

(* Bound: a call to create is received only while an id is left for it.    *)
RoomToCreate ==
  Cardinality({g \in Handlers : call[g].op = "create" /\ call[g].pc = "checked"})
    < Cardinality({r \in Creatable : Fresh(r)})

CheckCreate(h, actor, a, n, d) ==
  /\ call[h] = Idle
  /\ RoomToCreate
  /\ OwnerOf[a] = actor
  /\ Available(a) >= n
  /\ call' = [call EXCEPT ![h] = [Idle EXCEPT !.pc = "checked",
                !.op = "create", !.actor = actor, !.out = Draft(a, n, d)]]
  /\ UNCHANGED <<db, locks, today>>

CheckSubmit(h, actor, r) ==
  /\ call[h] = Idle
  /\ r \in Stored
  /\ Uncontended(r)
  /\ Owner(request[r]) = actor
  /\ request[r].status = "DRAFT"
  /\ Accept(h, "submit", actor, r)

(* Mutant: the decision does not look at the status.                       *)
CheckDecideAnyStatus(h, op, actor, r) ==
  /\ call[h] = Idle
  /\ r \in Stored
  /\ Uncontended(r)
  /\ MayDecide(actor, request[r])
  /\ Accept(h, op, actor, r)

CheckDecide(h, op, actor, r) ==
  /\ call[h] = Idle
  /\ r \in Stored
  /\ Uncontended(r)
  /\ MayDecide(actor, request[r])
  /\ request[r].status = "SUBMITTED"
  /\ Accept(h, op, actor, r)

CheckCancel(h, actor, r) ==
  /\ call[h] = Idle
  /\ r \in Stored
  /\ Uncontended(r)
  /\ MayCancel(actor, request[r])
  /\ ~Begun(request[r])
  /\ Accept(h, "cancel", actor, r)

-----------------------------------------------------------------------------
(* Inside the transaction.                                                 *)

Cancels(c, status) == c.op = "cancel" /\ c.seen.status = status

(* The unlocked findByReversesRequestId of cancel.                         *)
FindReversal(h) ==
  /\ call[h].pc = "checked"
  /\ Cancels(call[h], "APPROVED")
  /\ ~Reversed(call[h].id)
  /\ call' = [call EXCEPT ![h].pc = "searched"]
  /\ UNCHANGED <<db, locks, today>>

TouchesBalance(c) ==
  \/ c.op \in {"submit", "approve", "reject"}
  \/ Cancels(c, "SUBMITTED")
  \/ Cancels(c, "APPROVED")

(* The next statement of the call is resolveBalance with forUpdate.        *)
WantsBalance(c) ==
  /\ TouchesBalance(c)
  /\ c.pc = IF Cancels(c, "APPROVED") THEN "searched" ELSE "checked"

(* assertPendingDays, which approve and reject apply and cancel does not.  *)
PendingSuffices(c) ==
  c.op \in {"approve", "reject"} =>
    balance[c.seen.account].pending >= c.seen.days

(* Mutant: the balance is read without FOR UPDATE.                         *)
ReadBalanceUnlocked(h) ==
  LET c == call[h] IN
  /\ WantsBalance(c)
  /\ PendingSuffices(c)
  /\ call' = [call EXCEPT ![h].pc = "locked",
                          ![h].held = balance[c.seen.account]]
  /\ UNCHANGED <<db, locks, today>>

LockBalance(h) ==
  LET c == call[h] IN
  /\ WantsBalance(c)
  /\ balanceLock[c.seen.account] = None
  /\ PendingSuffices(c)
  /\ balanceLock' = [balanceLock EXCEPT ![c.seen.account] = h]
  /\ call' = [call EXCEPT ![h].pc = "locked",
                          ![h].held = balance[c.seen.account]]
  /\ UNCHANGED <<db, rowLock, today>>

(* The writes of a transaction.  A statement that writes row r waits for    *)
(* r's row lock and keeps it; the balance row is locked already.           *)
Stage(h, r, row, booked) ==
  /\ rowLock[r] = None
  /\ rowLock' = [rowLock EXCEPT ![r] = h]
  /\ call' = [call EXCEPT ![h].pc = "written", ![h].target = r,
                          ![h].out = row, ![h].booked = booked]
  /\ UNCHANGED <<db, balanceLock, today>>

(* The counters computed from the balance row read under the lock.         *)
Moves(c, used, pending) ==
  [used    |-> c.held.used + used * c.seen.days,
   pending |-> c.held.pending + pending * c.seen.days]

(* UPDATE ... SET names only the changed columns: the others keep what is  *)
(* committed now, not what was read before the transaction.                *)
WriteSubmit(h) ==
  LET c == call[h] IN
  /\ c.pc = "locked" /\ c.op = "submit"
  /\ Stage(h, c.id, [request[c.id] EXCEPT !.status = "SUBMITTED"],
           Moves(c, 0, 1))

WriteApprove(h) ==
  LET c == call[h] IN
  /\ c.pc = "locked" /\ c.op = "approve"
  /\ Stage(h, c.id, [request[c.id] EXCEPT !.status = "APPROVED",
                                          !.approver = c.actor],
           Moves(c, 1, -1))

WriteReject(h) ==
  LET c == call[h] IN
  /\ c.pc = "locked" /\ c.op = "reject"
  /\ Stage(h, c.id, [request[c.id] EXCEPT !.status = "REJECTED",
                                          !.approver = c.actor],
           Moves(c, 0, -1))

Cancelled(c) ==
  [request[c.id] EXCEPT !.status = "CANCELLED", !.cancelledBy = c.actor]

WriteCancelSubmitted(h) ==
  LET c == call[h] IN
  /\ c.pc = "locked" /\ Cancels(c, "SUBMITTED")
  /\ Stage(h, c.id, Cancelled(c), Moves(c, 0, -1))

(* A DRAFT reserved no balance: its cancellation takes no balance lock.    *)
WriteCancelDraft(h) ==
  LET c == call[h] IN
  /\ c.pc = "checked" /\ Cancels(c, "DRAFT")
  /\ Stage(h, c.id, Cancelled(c), c.booked)

InsertDraft(h, r) ==
  /\ call[h].pc = "checked" /\ call[h].op = "create"
  /\ r \in Creatable /\ Fresh(r)
  /\ Stage(h, r, call[h].out, call[h].booked)

(* Cancelling an APPROVED request inserts a reversal row and leaves the    *)
(* original alone.  The unique index on reverses_request_id refuses a      *)
(* second one, and waits for a staged one to commit or roll back.          *)
ReversalStaged(r) ==
  \E g \in Handlers : call[g].pc = "written" /\ call[g].out.reverses = r

InsertReversal(h, r) ==
  LET c == call[h] IN
  /\ c.pc = "locked" /\ Cancels(c, "APPROVED")
  /\ ~Reversed(c.id) /\ ~ReversalStaged(c.id)
  /\ r \notin Creatable /\ Fresh(r)
  /\ Stage(h, r, ReversalOf(c.id, c.seen, c.actor), Moves(c, -1, 0))

-----------------------------------------------------------------------------
(* The end of the transaction.                                             *)

(* The entity an audit record and a notification are about: the created    *)
(* request, or the request the call names even when it inserts a reversal. *)
Subject(c) == IF c.op = "create" THEN c.target ELSE c.id

(* Mutant: beforeState is captured after the update.                       *)
RecordedLate(c) ==
  [action |-> c.op, actor |-> c.actor,
   before |-> IF c.op = "create" THEN None ELSE c.out.status,
   after  |-> c.out.status]

Recorded(c) ==
  [action |-> c.op, actor |-> c.actor,
   before |-> IF c.op = "create" THEN None ELSE c.seen.status,
   after  |-> c.out.status]

(* Of an audit entry.                                                      *)
Notifies(e) == e.action \in {"approve", "reject", "cancel"}

(* Mutant: a transaction that ends keeps its balance lock.                 *)
ReleaseRowsOnly(h) ==
  /\ rowLock' =
       [r \in Requests |-> IF rowLock[r] = h THEN None ELSE rowLock[r]]
  /\ call' = [call EXCEPT ![h] = Idle]
  /\ UNCHANGED balanceLock

(* Row locks are held until the transaction ends, whichever way it ends.   *)
Release(h) ==
  /\ balanceLock' =
       [a \in Accounts |-> IF balanceLock[a] = h THEN None ELSE balanceLock[a]]
  /\ rowLock' =
       [r \in Requests |-> IF rowLock[r] = h THEN None ELSE rowLock[r]]
  /\ call' = [call EXCEPT ![h] = Idle]

Commit(h) ==
  LET c == call[h] IN
  /\ c.pc = "written"
  /\ request' = [request EXCEPT ![c.target] = c.out]
  /\ balance' = IF TouchesBalance(c)
                THEN [balance EXCEPT ![c.seen.account] = c.booked]
                ELSE balance
  /\ audit' = [audit EXCEPT ![Subject(c)] = Append(@, Recorded(c))]
  /\ notified' = IF Notifies(Recorded(c))
                 THEN [notified EXCEPT ![Subject(c)] = @ + 1]
                 ELSE notified
  /\ Release(h)
  /\ UNCHANGED today

(* A ConflictError thrown inside the transaction: a reversal exists, or    *)
(* the unique index refuses it, or pendingDays would go negative.          *)
Refuse(h) ==
  LET c == call[h] IN
  /\ \/ c.pc \in {"checked", "locked"} /\ Cancels(c, "APPROVED")
        /\ Reversed(c.id)
     \/ WantsBalance(c) /\ balanceLock[c.seen.account] = None
        /\ ~PendingSuffices(c)
  /\ Release(h)
  /\ UNCHANGED <<db, today>>

(* Any other error, a lost connection or a crash: PostgreSQL rolls back.   *)
Abort(h) ==
  /\ call[h].pc # "idle"
  /\ Release(h)
  /\ UNCHANGED <<db, today>>

NextDay ==
  /\ today < LastDay
  /\ today' = today + 1
  /\ UNCHANGED <<db, locks, call>>

-----------------------------------------------------------------------------

Receive(h) ==
  \E actor \in Employees :
    \/ \E a \in Accounts, n \in DayCounts, d \in StartDays :
         CheckCreate(h, actor, a, n, d)
    \/ \E r \in Requests :
         \/ CheckSubmit(h, actor, r)
         \/ CheckDecide(h, "approve", actor, r)
         \/ CheckDecide(h, "reject", actor, r)
         \/ CheckCancel(h, actor, r)

Proceed(h) ==
  \/ FindReversal(h)
  \/ LockBalance(h)
  \/ WriteSubmit(h)
  \/ WriteApprove(h)
  \/ WriteReject(h)
  \/ WriteCancelSubmitted(h)
  \/ WriteCancelDraft(h)
  \/ \E r \in Requests : InsertDraft(h, r) \/ InsertReversal(h, r)
  \/ Commit(h)
  \/ Refuse(h)

Next ==
  \/ \E h \in Handlers : Receive(h) \/ Proceed(h) \/ Abort(h)
  \/ NextDay

Spec == Init /\ [][Next]_vars

-----------------------------------------------------------------------------
(* Properties of every interleaving.                                       *)

TypeOK ==
  /\ request \in [Requests -> Row \cup {None}]
  /\ balance \in [Accounts -> Balance]
  /\ balanceLock \in [Accounts -> Handlers \cup {None}]
  /\ rowLock \in [Requests -> Handlers \cup {None}]
  /\ audit \in [Requests -> Seq(Entry)]
  /\ notified \in [Requests -> Nat]
  /\ today \in Nat
  /\ call \in [Handlers -> Call]

(* What a handler read under FOR UPDATE is still the committed balance     *)
(* when it writes: no update of a balance row is lost, although the new    *)
(* counters are computed in application code (resolveBalance, forUpdate).  *)
NoLostUpdate ==
  \A h \in Handlers :
    call[h].pc \in {"locked", "written"} /\ TouchesBalance(call[h]) =>
      call[h].held = balance[call[h].seen.account]

(* The audit entries of account a, as <<request, index>>, and one element  *)
(* for each day of the requests of the entries in E.                       *)
EntriesOf(a) ==
  UNION {{r} \X DOMAIN audit[r] : r \in {s \in Stored : request[s].account = a}}

EntryAt(e) == audit[e[1]][e[2]]

EntryUnits(rows, E) == UNION {{e} \X (1 .. rows[e[1]].days) : e \in E}

(* What the counters of an account must be: the days its audit trail has   *)
(* moved into status kept, less those it has moved out of it.              *)
MovedInto(a, kept)  == {e \in EntriesOf(a) : EntryAt(e).after = kept}
MovedOutOf(a, kept) == {e \in EntriesOf(a) : EntryAt(e).before = kept}

Moved(a, kept) ==
  Cardinality(EntryUnits(request, MovedInto(a, kept)))
    - Cardinality(EntryUnits(request, MovedOutOf(a, kept)))

Releases(e) == e.action = "cancel" /\ e.before = "APPROVED"

ReleasesOf(r)  == {i \in DOMAIN audit[r] : Releases(audit[r][i])}
ReversalsOf(r) == {s \in Stored : request[s].reverses = r}

NotifiedBy(trail) == {i \in DOMAIN trail : Notifies(trail[i])}

(* Every step that moved days was audited with the statuses it moved them  *)
(* between, and every decision or cancellation that took effect was        *)
(* notified, once and by the same commit, whatever else ran at that time   *)
(* or was rolled back.                                                     *)
AuditIsComplete ==
  /\ \A a \in Accounts :
       /\ balance[a].pending = Moved(a, "SUBMITTED")
       /\ balance[a].used = Moved(a, "APPROVED")
  /\ \A r \in Requests : notified[r] = Cardinality(NotifiedBy(audit[r]))

(* An approval is released exactly once: one reversal row per original and *)
(* one audit entry per reversal row, so that usedDays never falls below    *)
(* zero however decisions and cancellations race.  The reversal row itself *)
(* is inert: inserted CANCELLED, with no approver and no history, and      *)
(* nobody can act on it.                                                   *)
ReleasedOnce ==
  /\ \A r \in Stored :
       /\ Cardinality(ReleasesOf(r)) = Cardinality(ReversalsOf(r))
       /\ Cardinality(ReleasesOf(r)) <= 1
  /\ \A a \in Accounts : balance[a].used >= 0
  /\ \A r \in Stored : request[r].reverses # None =>
       /\ request[r].status = "CANCELLED" /\ request[r].approver = None
       /\ audit[r] = <<>>
  /\ \A h \in Handlers : call[h].seen # None => call[h].seen.reverses = None

(* The calls h waits for: who has its balance row, or has written the row  *)
(* or staged the reversal it is about to write.                            *)
Blockers(h) ==
  LET c == call[h] IN
  CASE WantsBalance(c) -> {balanceLock[c.seen.account]} \ {None}
    [] c.pc = "locked" /\ Cancels(c, "APPROVED") ->
         {g \in Handlers : call[g].pc = "written" /\ call[g].out.reverses = c.id}
    [] \/ c.pc = "locked" /\ ~Cancels(c, "APPROVED")
       \/ c.pc = "checked" /\ Cancels(c, "DRAFT") ->
         {rowLock[c.id]} \ {None}
    [] OTHER -> {}

(* The balance row is locked before any leave row is written, and a call   *)
(* that has written waits for nobody: it waits only for calls that are     *)
(* ahead of it, so calls never wait for each other in a circle.            *)
Ahead(g, h) ==
  \/ call[g].pc = "written" /\ call[h].pc # "written"
  \/ call[g].pc = "locked" /\ call[h].pc \in {"checked", "searched"}

WaitsOrdered == \A h \in Handlers : \A g \in Blockers(h) : Ahead(g, h)

(* The statuses row r has had, as its audit trail tells: each entry but a  *)
(* release, which leaves the row alone, records one.                       *)
RowEntries(r) == {i \in DOMAIN audit[r] : ~Releases(audit[r][i])}

PastOf(r) ==
  IF r \in Stored /\ request[r].reverses # None
  THEN {request[r].status}
  ELSE {audit[r][i].after : i \in RowEntries(r)}

ViewOf(row) ==
  IF row = None THEN None
  ELSE [status |-> row.status, account |-> row.account]

Commits == INSTANCE LeaveCommits
             WITH request <- [r \in Requests |-> ViewOf(request[r])],
                  past <- [r \in Requests |-> PastOf(r)]

(* However calls race on one request, a commit is an operation of somebody *)
(* who was allowed it on a status the row has had: a status check is late  *)
(* at worst and never missing, and nothing is decided that its owner had   *)
(* not submitted.                                                          *)
ImplementsCommits == Commits!CommitsSpec

-----------------------------------------------------------------------------
(* Properties of calls that do not overlap on one request.                 *)

Ledger == INSTANCE LeaveLedger WITH request <- request, balance <- balance

(* Every commit is one step of the ledger: decided on the row as it stands *)
(* and booked with the row, although the row was read before the           *)
(* transaction.                                                            *)
ImplementsLedger == Ledger!Spec

(* pendingDays is the total of the SUBMITTED requests, usedDays that of    *)
(* the APPROVED requests no reversal has released.                         *)
CountersAgree == Ledger!CountersAgree

(* GP-008: a completed approval is immutable.  A row that reads APPROVED   *)
(* is never written again.  The code keeps this only while calls on one    *)
(* request do not overlap: a cancel of its owner that read the row before  *)
(* the approval writes it by id.                                           *)
ApprovalsImmutable ==
  [][\A r \in Stored : request[r].status = "APPROVED" =>
       request'[r] = request[r]]_vars

(* The audit trail of a request is a chain: each entry starts from the     *)
(* status the entry before it left, and the last one leaves the status of  *)
(* the row, or CANCELLED when a reversal stands for it.                    *)
AuditChained ==
  \A r \in Stored : request[r].reverses = None =>
    LET t == audit[r] IN
    /\ t # <<>> /\ t[1].before = None
    /\ \A i \in 2 .. Len(t) : t[i].before = t[i - 1].after
    /\ t[Len(t)].after = IF Reversed(r) THEN "CANCELLED" ELSE request[r].status

=============================================================================
