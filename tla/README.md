# TLA+ models of TrackerOS

TrackerOS is a leave-management service: a Fastify API over PostgreSQL (`src/src`), a React
single-page client (`src/web/src`), migrations and demo seeds, and scripts. This directory holds TLA+
specifications of its core logic, the TLC configurations that check them on small instances, and
TLAPS proofs that hold for every instance. Definitions are named after the functions they model;
`PROJECT.json` maps each to its source lines.

Paths below are relative to the repository root (`src/...` is the API, `web/src/...` the client).

## 1. Inventory

### API

| component | state | operations | interacts with |
|---|---|---|---|
| leave service (`modules/leave/leave.service.ts`) and repository | `leave_requests` rows: DRAFT, SUBMITTED, APPROVED, REJECTED, CANCELLED, and reversal rows that name the approval they release | create, submit, approve, reject, cancel; list, getById, getHistory only read | balances, audit, notifications, employees, policies, unit of work |
| leave routes | none; one call per request | the eight HTTP handlers, parsing, `sendError` | leave service, authentication |
| validation | none | date range, day count, sufficiency `entitled - used - pending >= days` | leave service |
| balance service and repository | `leave_balances`: one row per employee, leave type and period, with entitled, used and pending days | openPeriod, carryForward, getCurrentBalances, `findByKey ... FOR UPDATE` | employees, policies, unit of work |
| unit of work, pool (`shared/db`) | the pool's clients, those waiting for one | withTransaction: BEGIN, work, COMMIT or ROLLBACK, release | every repository |
| accrual dates (`shared/date/accrual.ts`) | none | startOfUtcDay, addMonths, periodContaining | leave and balance services, seeds |
| uptime, readiness | start time | uptime; a probe query raced against a timeout | pool |
| audit, notification | append-only rows | create in the caller's transaction, reads | leave service |
| employee, leave type, policy | reference rows with their unique keys | create (look-up, then INSERT), look-ups | leave and balance services |
| authentication | signed tokens | login, verification of every call | employees, web client |
| status, port resolver, errors, wiring | none | pure | - |

### Client, seeds, rest

| component | state | operations | interacts with |
|---|---|---|---|
| web session (`auth-context`, `api-client`, `token-storage`, guards) | the token in sessionStorage; session and `isRestoring` in React state | restore on load, login, logout, clearing on a 401 | API |
| leave pages (`ApprovalsPage`, `LeaveDetailPage`, `leave.actions.ts`) | the rows an earlier answer gave the page | open, press, show the answer | API |
| request form (`RequestLeavePage`) | `submitting` | submit, go to the created request's page | API |
| lists (`LeaveListPage`, `DashboardPage`) | rows of one fetch | - | API |
| demo seeds (`seeds/seed.service.ts`) | rows with fixed ids | insert row by row, skipping what is there | all tables |
| migrations | the schema: unique keys, partial unique index on `reverses_request_id` | up, down | - |
| development runner (`scripts/dev.js`) | the Set of children, `shuttingDown`, a force-kill timer, the exit code | handlers of error, exit and signal events | two child processes |
| smoke script (`scripts/smoke.js`) | a throwaway database | one sequence of awaited probes | API |
| agent harness, documents | - | text | - |

### Hard behaviours, and what would be right

* **A handler's status check is outside its transaction.** approve, reject, cancel and submit read
  the request, decide, and only then open a transaction that updates by id. Right: a decision is
  final, counters follow statuses, the audit trail is a chain. The code has that of calls that do not
  overlap on one request; of those that do, a commit is at least an operation somebody was allowed on a
  status the request has had.
* **Counters are computed in the process.** `resolveBalance(..., forUpdate)` must keep other
  calls away from the row until commit. Right: no lost update; the counters are the sum of what was
  audited.
* **A reversal is an insert, guarded by a look-up and by a unique index.** Right: an approval is
  released once, and a reversal row is never acted on.
* **One commit, four tables.** Right: status, counters, audit and notification appear together.
* **Locks.** Balance row first, then the leave row. Right: no circular wait.
* **A second client inside a transaction.** Policies and employees are read on the pool. Right:
  whoever opens a transaction releases its client.
* **carryForward and openPeriod** read without locks and have no record of what they have done.
  Right: the entitlement of a period is its grant and at most the cap carried in once; bookings
  made meanwhile stay; a carried day is not spent in the period it came from as well.
* **Look-up, then INSERT, without a transaction** in the creations of employees, leave types and
  policies. Right: only a race is refused by the database.
* **Two choices of policy.** The dashboard takes the one in force, a booking any policy of the type.
  Right: what is shown is what a booking of that day can use.
* **Month ends.** Every boundary is added to a clamped one. Right: periods tile, and the next
  period that carryForward opens is the one later look-ups compute.
* **Late answers in the client**, of restorations, logins, presses, loads of another page. Right: a
  logout sticks, the stored token is the last login's, a row shows decisions that were taken, a page
  shows the request of its address and never goes back.
* **A seed cut off between two inserts**, or run again in a later period.
* **Events of processes in any order** in the runner. Right: it leaves no child behind that was not
  told to stop, reports success only for one, and a shutdown ends.

`PROJECT.json` lists each under `hazards` with the line where it bites and the properties that
would catch it.

## 2. Modules

| module | models | composed from |
|---|---|---|
| `LeaveRecords` | rows, roles, who may see, decide and cancel | - |
| `LeaveLifecycle` | most abstract: the phases a request passes | - |
| `LeaveLedger` | abstract: each operation is one atomic step on rows and balances | `LeaveRecords`; implements `LeaveLifecycle` |
| `LeaveCommits` | abstract, of calls that overlap on one request: guards in one step, the commit in a later one | `LeaveRecords` |
| `LeaveService` | handlers interleaving at every await on PostgreSQL | `LeaveRecords`; implements `LeaveCommits`, and `LeaveLedger` when calls are serial |
| `ConnectionPool` | the pool, withTransaction, handlers as plans of queries, the readiness probe | - |
| `AccrualPeriods`, `AccrualCalendar` | date arithmetic; a day-by-day walk over the calendar | the second extends the first |
| `DateColumns` | the same dates through DATE columns, in a server's time zone | extends `AccrualCalendar` |
| `BalancePeriods` | openPeriod and carryForward beside the workflow's bookings | - |
| `ReferenceData` | creations of employees, leave types, policies; the choice of a policy | - |
| `WebSession` | one tab's token and session | - |
| `LeavePages` | approval queue, detail page and request form | on top of `LeaveCommits` as the server |
| `SeedData` | the demo seed | - |
| `DevRunner` | the development runner beside its children | - |

Modules ending in `MC` give the constants of the small instances. Those ending in `Proofs` extend
what they prove about: `LeaveLedgerProofs`, `LeaveServiceProofs`, `LeavePagesProofs`,
`ConnectionPoolProofs`, `ReferenceDataProofs`, `WebSessionProofs`, `AccrualProofs` (for
`BalancePeriods`, `AccrualPeriods`, `AccrualCalendar` and `DateColumns`) and `DevelopmentProofs` (for
`DevRunner` and `SeedData`). So that one module can extend several, `AccrualCalendar`, `DateColumns` and
`SeedData` have names of their own for what is elsewhere `Init`, `Next`, `Spec` and `vars`.

### LeaveLifecycle, LeaveLedger, LeaveCommits and LeaveService

Three levels of one workflow, and beside the middle one what is left of it when calls overlap. `LeaveLifecycle` has a phase per request and the moves between phases:
an approval can be released, once, and nothing else follows a decision. `LeaveLedger` has rows and
balances and one action per operation; `Phase` maps its rows to phases, a released approval being an
APPROVED row that a reversal names. `LeaveService` is the code:

State: `request` (the committed `leave_requests`), `balance` (`leave_balances`), `audit`,
`notified` (a count per request), the two kinds of row lock (`balanceLock` for FOR UPDATE,
`rowLock` for the locks an UPDATE or INSERT takes), `today`, and per handler a record `call`: how
far it is, what it read before the transaction (`seen`), the balance it read under the lock
(`held`) and the writes it has staged (`out`, `booked`).

| action | code |
|---|---|
| `CheckCreate`, `CheckSubmit`, `CheckDecide`, `CheckCancel` | the reads and guards before `withTransaction` |
| `FindReversal` | `findByReversesRequestId` in cancel |
| `LockBalance` | `resolveBalance` with `forUpdate`, and `assertPendingDays` for decisions |
| `WriteSubmit`, `WriteApprove`, `WriteReject`, `WriteCancelSubmitted`, `WriteCancelDraft`, `InsertDraft`, `InsertReversal` | the UPDATE or INSERT with the counters computed from the locked row |
| `Commit` | audit, notification, COMMIT: READ COMMITTED shows all of it at once |
| `Refuse`, `Abort` | a ConflictError inside; any other failure, or a crash: ROLLBACK |

An UPDATE names only its columns, so a write is an EXCEPT of the row committed *now*. The audit and
notification inserts conflict with nobody and are part of the step that commits. `SerialRequests`
restricts calls to one at a time per request; with FALSE nothing is restricted.

`ImplementsLedger` is the refinement: with one call at a time per request every commit is exactly one
step of `LeaveLedger` on the rows as they stand, although the row was read earlier and calls on the
same *balance* overlap freely. Without the restriction it is false, which `find_overwrite` shows.
`ImplementsLifecycle` is the next level up, proved of the ledger (section 6).

`ImplementsCommits` holds without the restriction. `LeaveCommits` keeps of a request the status and whose
it is, and in `past` the statuses it has had; a commit is an operation whose actor passes its guards on
*some* status of `past`, and it writes the request whatever its status is by then. `LeaveService` maps
`past` from the audit trail (`PastOf`), where each commit but a reversal's records the status it has set.
So a call that races on one request may overwrite, but it cannot decide what was never submitted, write
where its actor had no right to, or change a request's owner.

### ConnectionPool

`idle` clients, the FIFO `queue`, a phase per handler and per probe. A handler is a *plan*: queries
before the transaction, whether there is one, queries on the pool inside it. approve is
`[before 1 or 2, tx, inside 2]`. `Plans` has an entry for each route, for openPeriod and carryForward,
and for the creations of policies, leave types and employees; the look-ups that only other services or
tests call are single reads like those. pg
sets no limit on how long a connect waits (no `connectionTimeoutMillis` in `connection.ts`), so none
is modelled.

### AccrualPeriods, AccrualCalendar and DateColumns

Dates are (month, day) on the Gregorian calendar. `Starts` is the loop of `periodContaining` as a
recursive function, each start the end of the period before; `PeriodContaining` is the first period of
it that contains the day. `AccrualCalendar` goes from each hire date on a day at a time.
`DateColumns` adds the newest balance row as its columns hold it, written by the seed (as text), by
openPeriod or by carryForward (as parameters). `FromColumn` is the parser of `connection.ts`;
`ToColumn`, the external half, is what node-postgres makes of a `Date` parameter: text in the
process's zone, of which a DATE column keeps the date. The bounds of periods are UTC midnights; a leave
may start at any of `Hours`, as the route takes any instant (the request form sends midnights). Periods
end at midnights, so the hour changes nothing but the date the column keeps.

### BalancePeriods

Rows of one employee and one type by period index (that periods tile justifies the index). A call
reads its source and target without locks, stages an INSERT or an UPDATE of `entitled_days`, waits on
the row or the unique key, and commits or aborts. `Book` is the leave workflow's write under its
own lock; `late` records the periods in which a draft was submitted after their end, which submit
does not refuse. `CarryOnce` restricts callers to one carry per source row; the code does not (see 5).

### ReferenceData

`employees`, `leaveTypes` and `policies` as tables with their unique keys; a call is at one of its
look-ups, at its INSERT, or reading for the dashboard. `GetAllPolicies` goes through the rows in
any order, as `findAll` gives none, by the loop `Effective`, a recursive function of the row number;
`BookingPeriods` is what a booking may get from `findByLeaveTypeCode`. `overtaken` and `failed` are
histories: whose key another call has inserted meanwhile, and whose INSERT the database has refused.

### WebSession and LeavePages

`WebSession` has sessionStorage, React state, every pending fetch with the token it was sent with, and
the server's issued and expired tokens. A reload drops React state and pending fetches and keeps
the stored token.

In `LeavePages` one page is shown at a time and holds copies of rows. A call of it is a record in `send`:
`Check` is the server's read and guards (`seen` keeps the status it has read), `Serve` its transaction,
a step of `LeaveCommits`, `ServeOpen` and `ServeCreate` a load and a create. `EndDecide`, `EndDetail` and
`EndCreate` deliver the answer; `FailDecide`, `FailDetail` and `FailCreate` an error, at any time: a
refusal, insufficient days, a broken connection before or after the commit. `Elsewhere` is any other
commit: other people, other tabs, and calls whose page is gone. `overtaken` is a history, the requests of
which a commit was decided on a status they no longer had.

Mounting another page drops what the old one kept, and answers to its calls find nobody. Two things
survive, as in the code. The routes have no keys, so going from one detail page to another
(`ShowDetail`, by the browser's history) keeps the page with its row, its error and the calls of its
buttons; only the pending load is cancelled by the effect (`Cleanup`). And handleSubmit of a form that was
left (`"left"`) still navigates when its create is answered (`EndCreate`).

### SeedData

Inserts in the code's order, one statement per step, `Cut` anywhere, `NextPeriod` at any time.
Requests and balances are looked up by dates of the run's period but inserted under fixed ids.

### DevRunner

Children are processes: up, never started, or ended with a code or by a signal; what a child has
started itself may outlive it and keep its pipes open (`orphan`). The program's state is the Set
`children`, `shuttingDown`, the timer, `process.exitCode`. `OnError`, `OnExit` and `OnSignal` are its
handlers, `ForceKill` the timer, `Drain` Node's exit when nothing is left to wait for (the timer is
unref'd and does not count). A failed spawn is an initial state: both children are spawned before
the first event is handled.

## 3. Runs

| run | question | bounds, and why they suffice |
|---|---|---|
| `leave_races` | what holds when calls race on one request | 2 handlers, 2 requests and 2 reversals on one balance row: two handlers realise each read-check-write race, two requests share a counter, a second reversal id lets a second reversal be tried |
| `leave_serial` | does the service implement the ledger | 3 handlers, 3 requests and 2 reversals, 1 or 2 days, a day passing: three overlapping bookings of one row |
| `find_overwrite` | "a completed approval is IMMUTABLE" | violated: the owner's cancel that read the request DRAFT or SUBMITTED commits after its approval; 1 request, 2 handlers |
| `pool_waits` | does the pool lose clients or turns; is the probe answered | 3 calls with any plan, a probe, 2 clients: two transactions stand still, the third call and the probe queue |
| `find_standstill` | "always releases" | violated: as many transactions as clients |
| `accrual_calendar` | do periods tile, and does a day find its row | 14 months from 31 January, 29 February, 31 August, 1 December with periods of 1, 3, 12 months: every clamp, a leap day, a year's end; a server at UTC and one at UTC+3, leave from midnight, 20:00, when it is still the same day at UTC+3, and 23:00, when it is not |
| `balance_periods` | do openings, carry-overs and bookings compose | 2 handlers, 3 periods, a grant and a cap of 1, 2 bookable days: a carried day is the whole grant, and late bookings can exceed it |
| `reference_data` | which INSERTs are refused, which balance is shown | 2 calls, 3 employees that share a number or an address, 3 policies of one type that overlap, end or are drafts, 3 days: each key is met by a race, each policy choice occurs |
| `web_session` | do logins, logouts and restorations compose | 3 tokens, 2 pending logins, 2 page calls |
| `leave_pages` | is what a page offers and shows right | 2 requests, of any of 3 owners, 2 calls in flight; the viewer is a manager with a report and a manager above. `Bounds`: one request is written over, any number of times, a request gets at most two of APPROVED, REJECTED and CANCELLED, one answer to the form is lost: two calls and two requests realise each pair of presses, loads and addresses |
| `seed_data` | is a cut-off or repeated seed completed | 7 rows, one of each kind; 3 periods |
| `dev_runner` | what survives the runner, what it reports, does a shutdown end | the two children of `dev.js`, each failing, ending or ignoring SIGTERM |

Properties of each run, by what would break them:

* `leave_races`: `NoLostUpdate` (no FOR UPDATE), `ReleasedOnce` (a second reversal, `usedDays` below
  zero, a reversal row that can be acted on), `AuditIsComplete` (a counter moved without, or twice
  for, an audited step; a notification lost from a commit), `WaitsOrdered` (a circular wait for row
  locks), `ImplementsCommits` (a commit without a guard, or of a row the call did not read).
* `leave_serial`: `ImplementsLedger`, `CountersAgree`, `AuditChained`: what the races of one request
  break and nothing else does.
* `pool_waits`: `ClientsAccounted` (a leak, a double release, a client idle beside a waiter),
  `ReleasesOrStandstill`, `ProbeAnswered`.
* `accrual_calendar`: `PeriodsTile`, `NextPeriodAgrees`, `DriftBounded` (a boundary rule changed),
  `RequestsFindRow` (the driver's default parser).
* `balance_periods`: `EntitlementExplained` (days carried twice, lost to a racing openPeriod, or above
  the cap), `BookingsKept` (the row written back whole), `SpentOnce` (days carried from a period that
  can still be booked in).
* `reference_data`: `RefusalsAreRaces` (a key nobody looks up), `DashboardIsCurrent` (a policy chosen
  by the order of the rows; a row no booking uses).
* `web_session`: `LogoutSticks`, `LastLoginStored` (late answers), `RestoreEnds` (`isRestoring` left
  set).
* `leave_pages`: `DecisionsShownTaken` (a row shown as asked, not as answered), `DetailGoesForward` (a
  load that outlives its address), `OfferedIsPermitted` (client and server rules that differ; rows in the
  queue that are somebody else's), `OneDraftPerVisit` (the form's button enabled while submitting).
* `seed_data`: `SeededBalanceAgrees`, `DoneIsSeeded`, `RefusedOverOlder`.
* `dev_runner`: `LeavesNoStray` (an exit during a teardown ends the runner), `ZeroMeansFinished` (the
  code of `teardown(0)` kept), `ShutdownEnds` (a force timer that does not kill).

Each module with a `TypeOK` (`PagesTypeOK`, `SeedTypeOK`) checks it in its run. Each property of a
passing run has a mutant in `PROJECT.json`: a definition changed the way a bug would change the code, with
which the property fails.

Symmetry is declared for handlers, requests (drafts and reversals apart) and calls in flight: the
specifications treat them alike. Runs with liveness properties declare none; `leave_races`,
`leave_serial` and `leave_pages` declare it beside temporal formulas that are safety properties, Init and
`[][A]_v`, which a symmetric state space decides. `Bounds` is a CONSTRAINT: TLC checks the states at the
bounds and goes no further. Deadlock is not checked where the bounds make a model end: request
ids and the calendar in `LeaveService` and `LeavePages`, the calendar in `AccrualCalendar` and
in `ReferenceData`; `WaitsOrdered` states the absence of lock deadlock instead.
It is not checked in `PoolWaits` and `FindStandstill` because the pool really can stop, nor in
`DevRunner`, which ends when the runner and its children have.

## 4. Fairness

Safety needs none. `ConnectionPool!FairSpec` assumes weak fairness of each handler's next step, of each
probe's query and of each timer: Node's event loop runs callbacks that are due, and PostgreSQL
answers queries. `WebSession!FairSpec` assumes that the restoration's fetch is answered or fails,
that its answer is delivered, and that the user does not reload for ever. `DevRunner!Fairness` assumes
that events are handled, that the timer fires, that SIGKILL takes effect and that Node exits when
nothing is left; it does not assume that a child ever ends by itself or heeds SIGTERM, nor that what
it started does, which is why `ShutdownEnds` excepts an orphan. No fairness is assumed of users,
callers, expiry, crashes or calendars.

## 5. What disagrees with the code's documentation

Two violation runs, quoted under `findings`: `find_overwrite` and `find_standstill`. The models show
further behaviours that no passing property forbids, and properties name as exceptions:

* TLC's counterexample of `find_overwrite` is the shortest overwrite: a cancel that read DRAFT, which
  looks at no balance. Two overlapping decisions are refused one of them by `assertPendingDays`
  (`leave.service.ts:188`, `:250`), unless other requests keep enough days pending on the balance row;
  then both succeed, and the later commit overwrites the earlier. `ImplementsCommits` allows both.
* Then the two answers differ from what is stored: `ApprovalsPage` disables no button while a decision is
  pending (`web/src/presentation/pages/ApprovalsPage.tsx:55-73`) and keeps the first answered of two, the
  server the last committed. `DecisionsShownTaken` excepts the requests that were written over.

* submit does not test sufficiency again (`leave.service.ts:149`; `docs/ARCHITECTURE.md:72` has
  `entitledDays - usedDays - pendingDays >= requestedDays`): two drafts that fit one by one are both
  submitted and exceed the entitlement, with no race needed. carryForward then refuses the period
  (`balance.service.ts:110`, "Balance counters exceed entitlement").
* A draft of a period can be submitted after the period was carried forward, so its days are spent
  in both: `SpentOnce` excepts the periods in `late`.
* With `CarryOnce = FALSE`, `EntitlementExplained` fails: a repeated carryForward adds the days again.
* Racing a decision, cancel of a SUBMITTED request has no `assertPendingDays` and can take
  `pendingDays` below zero (the root is that of `find_overwrite`: the status is not read again).
* cancel compares the start day with the clock before it waits for locks, so it can commit on the
  day the leave begins.
* With a zone of -5, `RequestsFindRow` fails by the first row written from `Date` parameters:
  `connection.ts:24` makes the driver read DATE columns as UTC midnight, but parameters are written in
  the process's zone, where west of Greenwich that is the day before.
* At UTC+3 a leave that is said to start at 23:00 UTC is stored as starting the next day. create checks
  the period of the day before and submit books that of the stored day (`leave.service.ts:78`, `:138`):
  at the end of a period these are two rows. `RequestsFindRow` excepts such instants.
* `docs/ARCHITECTURE.md:382` has a policy effective while `effectiveTo` is null or `>= asOf`. asOf is
  the time of the call and effectiveTo a midnight, so a policy's last day is lost: the dashboard shows
  no balance on it while bookings go on. Bookings take any policy of the type, superseded or a draft.
* createEmployee does not look `managerId` up: an unknown manager is refused by the foreign key, as an
  unexpected error. `RefusalsAreRaces` is about the other employees.
* A 401 clears the stored token and leaves the session in React state, so the page goes on rendering
  and its calls carry no token (`docs/ARCHITECTURE.md:837` has it return to login).
* A login while a restoration is pending is replaced by the restored session, whose calls carry the
  new login's token.
* Two presses on the detail page answered in the other order leave the older status on it. A press that
  is pending when the page goes to another request sets its row, or its error, on the page of that one
  (`LeaveDetailPage.tsx:62-82`, and no key at `web/src/presentation/App.tsx:80`); an error stays
  through every later address.
  `DetailGoesForward` is about the visits in which no press was pending beside another call.
* `docs/ARCHITECTURE.md:970` has the detail page re-fetch the request after an action. It sets the row
  the action returned, and after a failed one shows the error in place of the row.
* A form that was left while its create was pending still navigates to the created request, from
  whatever page the viewer is on by then (`RequestLeavePage.tsx:44-45`).
* A seed in a later period is refused by the primary key before it reaches the balances
  (`RefusedOverOlder` says this is the only way a run is refused).
* `scripts/dev.js:6-9` says that when a child exits "the sibling is terminated". It is sent SIGTERM and
  the runner calls `process.exit` at once, without the force kill of a Ctrl-C: a sibling that ignores
  SIGTERM runs on. After a Ctrl-C, a process that a child had started and that outlives the SIGKILL of
  that child keeps the runner up through its pipes.
* `scripts/smoke.js:573` says "Always drop, even on failure", but a failure calls `die`, which exits the
  process in the catch block (`:568`), before the finally block that drops the schema.

## 6. Proofs

Every theorem is for any value of the constants under the modules' ASSUMEs, which TLC evaluates in the
runs. Each invariant below was first checked by TLC on the small instances.

`LeaveLedgerProofs` (any employees, accounts, day counts; finitely many requests):

* `TypeCorrect`, `CountersCorrect`, `ReversalsCorrect`: `Spec => []TypeOK`, `[]CountersAgree`,
  `[]ReversalsMatch`. The inductive invariant is `Counted`, their conjunction: the counters alone are
  not inductive, because cancelling an approval takes its days off `usedDays` and inserts a reversal,
  and the sum of unreleased approvals follows only if no reversal of it was there and reversals
  stay what they are. Sums are cardinalities of sets of day units; `DaysAdd` and `DaysRemove`
  turn a status change into the union or difference with one request's units, one lemma per action.
* `RefinesLifecycle`: `Spec => ImplementsLifecycle`. A step changes the phase of one request, the one
  it acts on; for a reversal that is the approval it names and not the row it inserts.

`LeaveServiceProofs` (any handlers, requests, accounts; `SerialRequests` either way unless a theorem
assumes it):

* `TypeCorrect`: `Spec => []TypeOK`; `NoUpdateLost`: `Spec => []NoLostUpdate`. The inductive
  invariant `Safe` adds that a call in service is `Informed` (its request exists and was read) and
  `Guarded` (what it holds of the balance is locked by it and is what is committed): a commit of
  another handler writes only a balance that handler has locked, so never this one.

* `LocksOrdered`: `Spec => []WaitsOrdered`, from `Safe` and `LocksHeld`: a row lock belongs to a call
  that has got as far as the step that takes it, so whoever blocks a call is further in the order than
  it.
* `AuditComplete` (`AuditIsComplete`) and `ReleasesOnce` (`ReleasedOnce`), for calls that race on one
  request. Statuses may be overwritten there, so the invariant `Audited` says what is true all the same:
  `Faithful` (a call has passed its guards on the row it read; of that row the leave, and the fact that
  it was once approved, are still true), `Placed` (what it has written is locked by it, and what it
  inserts is the only reversal of its request, stored or staged: the unique index), `TrailFits` (only an
  approval is released, and a reversal row has no trail) and `ReleasesMatch`. An entry's days are a set
  of day units, and a commit adds the units of the one entry it appends.
* `Refines`: `SerialRequests => (Spec => ImplementsLedger)`. The invariant `Serial` is `Safe`, `Alone`
  (two calls in service are on different requests), `Justified` (a call has passed the guards of its
  operation, on what it read) and `Current` (what it read is what is stored, and what it inserts is not
  stored yet). `Current` makes a late write one atomic step of the ledger, and it is what fails without
  `SerialRequests`. One lemma per operation shows that its commit is that action of the ledger.
* `TrailChained`: `SerialRequests => (Spec => []AuditChained)`. The invariant `Chained` is `Serial` and
  `Audited` together, and that only an APPROVED row has a reversal: the entry a commit appends starts
  from the status the call read, which by `Current` is the one stored, which ends the chain so far.
* `RefinesCommits`: `Spec => ImplementsCommits`, without `SerialRequests`. The invariant `Timely` is
  `Audited`, `StatusIsPast` (the status of a row is in its past) and `Grounded` of each call: the status it
  read is in the past of its request, and its actor was allowed the operation on it. The past of a request
  only grows (`PastGrows`), so what a call has read is still in it when the call commits, and the commit
  is that operation of `LeaveCommits` on that status.
* `ServiceCounters`: `SerialRequests => (Spec => []CountersAgree)`. The ledger's theorem is carried over
  by the refinement (`Proved == INSTANCE LeaveLedgerProofs`).

`LeavePagesProofs` (any viewer, any requests and calls in flight): `PagesTypeCorrect`,
`ShownDecisionsTaken` (`DecisionsShownTaken`), `VisitsMakeOneDraft` (`OneDraftPerVisit`),
`ButtonsPermitted` (`OfferedIsPermitted`) and `DetailForward` (`DetailGoesForward`) come from one
invariant, `Shown`. Of every copy of a row, in a page or in an answer under way, it says that the request
`Had` it: its status is in the past of the request, and unless the request was overtaken the server's row
is the same or comes later (`Onward`). `QueueFits` adds that the queue has only what the viewer may decide;
`DetailFits` that in a visit without overlapping calls one answer at most is under way, it is of the
request in the address (`OneAnswer`) and later than the row (`AnswerIsLater`); `FormFits` that the form
waits for one call, and has made one draft more than it has lost exactly while an answer that tells of one
is coming. `Moved` is all the pages need to know of a step of the server: pasts grow, owners stay, and a
row that was not overtaken goes on.

`ReferenceDataProofs` (finitely many proposals, any calls and keys): `OnlyRacesRefused`
(`RefusalsAreRaces`) and `DashboardCorrect` (`DashboardIsCurrent`). The invariant `ReferenceInv` says of a
call between its look-ups and its INSERT (`LookedUp`) that what it found free is free, or was taken by
another (`overtaken`). The dashboard needs the loop over the rows: `EffectiveLoop` says that the recursive
function exists and what each step of it does, `EffectiveLatest` that it ends with the latest policy in
force, whatever the order of the rows.

`AccrualProofs` about `BalancePeriods` (any calls, periods, grant and cap), in two layers:

* `TypeCorrect` and `BookingsStay` (`BookingsKept`) hold however callers carry. The invariant
  `PeriodsInv` adds `RowsFirst` (nothing is booked on, or carried between, periods without a row) and
  `InOrder` (what the phase of a call says of the rows: a call about to insert has locked a key that is
  still free, a call about to update has found a row that is still there).
* `Entitlements` (`EntitlementExplained`) and `NeverSpentTwice` (`SpentOnce`) assume `CarryOnce`. The
  invariant `OnceInv` adds, for every call, `Planned` (it will write the grant and what it carries),
  `Owns` (nobody else carries that period, and nobody has) and `Covered` (what it carries is still
  unused in the source row, unless a draft came late). Calls read `entitled_days` without a lock and
  write back the sum. What they read stays true of the target only because nobody else adds to it, which
  is `Owns`.

`AccrualProofs` about dates (any hire dates and lengths of periods, a calendar of any length within
the safety bound of `periodContaining`):

* `PeriodsMeet` (`PeriodsTile`), `CarriedPeriodAgrees` (`NextPeriodAgrees`), `DriftIsBounded`
  (`DriftBounded`). `StartsFit` is what a period's start is after any number of clamped additions: a day
  there is, `i * months` months after the hire date, not later in its month, and not before the 28th
  unless the hire date is. `StartsGrow` orders the starts, so a day is within one period at most
  (`FoundPeriod`), and `SomePeriod` finds one, as there are at least as many periods as months. A day is
  followed by the next one with nothing between (`TomorrowNext`), so a period is left only for the next.
* `RowsAreFound`: `EastOrGreenwich => (ColumnsSpec => []RequestsFindRow)`. The invariant `ColumnsInv`
  adds that the newest row is one of the periods (`OnePeriod`), whoever wrote it. The hypothesis says that
  no server runs west of Greenwich; there the first row that openPeriod writes is no period (see 5).

`ConnectionPoolProofs` (finitely many calls and probes, any pool size): `TypeCorrect` and
`ClientsNeverLost`, `Spec => []ClientsAccounted`. The invariant `PoolInv` adds that nobody is in the
queue twice and that whoever waits has asked; without that, a returned client handed to the head of
the queue could count for nobody, or for two. `TakesCount` and `HandOver` are the only counting:
starting to hold a client, or ceasing to wait for one, changes the clients lent by exactly one. What is safety in
`ReleasesOrStandstill` follows: `OnlyStandstillBlocks` (while somebody waits, a client is due to be given
back, or every client is a transaction's that waits for a second one) and `FewCallsGoOn` (with fewer calls
at once than clients there is always one due). That callbacks which are due run is the fairness of
section 4.

`WebSessionProofs`: `TypeCorrect`, `LogoutIsFinal` (`LogoutSticks`), `LatestLoginStored`
(`LastLoginStored`). The invariant `SessionInv` adds `Restorations`: a restoration is under way exactly
while its fetch is, and none is after a logout, so no late answer can bring a session back.

`DevelopmentProofs` about `DevRunner` (any set of children): `TypeCorrect`, `NoStrays`
(`LeavesNoStray`), `ZeroIsFinished` (`ZeroMeansFinished`). The invariant adds `Teardowns`: before the
first handled event nobody was signalled and every end is still to be handled, and a runner that is being
torn down will not report success.

`DevelopmentProofs` about `SeedData` (any rows and periods, in any order that has the two requests before
the balance, as the code does: `SeedAssumption`): `SeedTypeCorrect`, `BalanceFollowsRequests`
(`SeededBalanceAgrees`), `DoneMeansSeeded` (`DoneIsSeeded`), `OnlyOlderRefuse` (`RefusedOverOlder`). The
invariant adds `SeedFits`: a run at an insert has all its earlier rows under the keys it looks for, and
nobody decides the seeded request before its balance is there. That the requests come first is what makes
the counters right when the balance is inserted: they are of the run's own period.

Loops. The prover cannot use the library's induction theorems, which take an operator, nor RECURSIVE
operators. Where a proof needs a loop, the loop is a recursive function, and induction up to a bound is the
lemma `Reached`, about the *set* of the numbers for which a fact holds: if a number were missing there would
be a smaller one missing before it, so the missing ones could be mapped into fewer of them, against the
pigeonhole principle of FiniteSetTheorems.

Every invariant and every safety property of the passing runs is proved. Model-checked only: liveness
under fairness (`ReleasesOrStandstill`, `ProbeAnswered`, `RestoreEnds`, `ShutdownEnds`), which is out of
the prover's reach.

## 7. What could follow

* `LeaveListing`: visibility of list, getById and history; filters; LIMIT and OFFSET while rows change.

## 8. Not modelled

The list and the dashboard pages (one fetch and one render each), filters and pages of listings,
status, port resolver, errors and wiring (pure, a unit test reaches every case), password hashing and
signatures (libraries), markAsRead (no route), the running of migrations, the smoke script (one
sequence of awaited assertions that shares no state with anybody), the agent harness and documents.
Message texts, logging and layout are abstracted everywhere. DST and clock steps are not modelled.
