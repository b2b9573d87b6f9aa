---------------------------- MODULE ReferenceData ----------------------------
(***************************************************************************)
(* Employees, leave types and leave policies: the creations of             *)
(* employee.service.ts, leave-type.service.ts and policy.service.ts, which *)
(* look a key up and then insert with no transaction around the two, and   *)
(* the two ways the rows are used: getCurrentBalances takes the policy in  *)
(* force, a booking any policy of the leave type.                          *)
(*                                                                         *)
(* One employee, hired on day 0, has the balances; a period is named by    *)
(* its first day and its length (AccrualCalendar has the real calendar).   *)
(* Policies begin and end at midnight, calls are made later in the day.    *)
(***************************************************************************)
EXTENDS Integers, FiniteSets, SequencesExt

CONSTANTS
  Calls,       \* calls that can be in service at once
  Hires,       \* the employees callers want to create: [number, email,
               \* manager], the manager by his number
  Codes,       \* LeaveTypeCode
  Proposals,   \* the policies callers want to create, see Policy
  LastDay,     \* bound on the calendar
  None

Statuses == {"DRAFT", "ACTIVE", "SUPERSEDED"}

Policy == [code : Codes, months : Nat \ {0}, from : Nat,
           to : Nat \cup {None}, status : Statuses]

Period == [code : Codes, start : Nat, months : Nat \ {0}]

ASSUME ReferenceAssumption ==
  /\ Proposals \subseteq Policy
  /\ \A p \in Proposals : p.to = None \/ p.from <= p.to
  /\ LastDay \in Nat
  /\ None \notin Hires \cup Codes \cup Policy \cup Nat

VARIABLES
  employees,    \* SUBSET Hires
  leaveTypes,   \* SUBSET Codes
  policies,     \* SUBSET Proposals
  balances,     \* SUBSET Period, the leave_balances rows of the employee
  today,
  call,         \* [Calls -> Call]
  shown,        \* [Codes -> Shown], what the dashboard was last answered
  overtaken,    \* history: the calls one of whose keys another call has
                \* inserted since they were received
  failed        \* history: the calls whose INSERT the database refused for
                \* another reason than an unknown manager

tables  == <<employees, leaveTypes, policies>>
history == <<overtaken, failed>>
vars    == <<tables, balances, today, call, shown, history>>

-----------------------------------------------------------------------------

Kinds == {"employee", "leaveType", "policy", "dashboard"}

Call == [pc : {"idle", "number", "email", "code", "insert", "policies",
               "balances"},
         kind : Kinds \cup {None}, input : Hires \cup Codes \cup Proposals \cup {None},
         inForce : [Codes -> Proposals \cup {None}], asOf : Nat]

Idle == [pc |-> "idle", kind |-> None, input |-> None,
         inForce |-> [k \in Codes |-> None], asOf |-> 0]

(* The unique keys of a row to insert, and those that are taken.           *)
Keys(kind, input) ==
  CASE kind = "employee"  -> {<<"number", input.number>>, <<"email", input.email>>}
    [] kind = "leaveType" -> {<<"code", input>>}
    [] OTHER              -> {}

Taken == (UNION {Keys("employee", e) : e \in employees})
           \cup (UNION {Keys("leaveType", k) : k \in leaveTypes})

Init ==
  /\ employees = {} /\ leaveTypes = {} /\ policies = {}
  /\ balances = {}
  /\ today = 0
  /\ call = [c \in Calls |-> Idle]
  /\ shown = [k \in Codes |-> None]
  /\ overtaken = {} /\ failed = {}

-----------------------------------------------------------------------------
(* The calls.  createEmployee, createLeaveType and createLeavePolicy check *)
(* their input first, which the inputs here pass.                          *)

Begin(c, kind, input, step) ==
  /\ call[c].pc = "idle"
  /\ call' = [call EXCEPT ![c] = [Idle EXCEPT !.pc = step, !.kind = kind,
                                             !.input = input]]
  /\ overtaken' = overtaken \ {c}
  /\ failed' = failed \ {c}
  /\ UNCHANGED <<tables, balances, today, shown>>

CreateEmployee(c, e) == Begin(c, "employee", e, "number")

CreateLeaveType(c, k) == Begin(c, "leaveType", k, "code")

CreateLeavePolicy(c, p) ==
  /\ p.to # None => p.from <= p.to
  /\ Begin(c, "policy", p, "code")

GetCurrentBalances(c) == Begin(c, "dashboard", None, "policies")

(* The look-up at step pc: the call goes on, or answers 409 or 404.        *)
LookUp(c, pc, found, next) ==
  /\ call[c].pc = pc
  /\ call' = [call EXCEPT ![c] = IF found THEN [@ EXCEPT !.pc = next] ELSE Idle]
  /\ UNCHANGED <<tables, balances, today, shown, history>>

FindByEmployeeNumber(c) ==
  LookUp(c, "number", <<"number", call[c].input.number>> \notin Taken, "email")

(* Mutant: the address is not looked up.                                   *)
AssumeEmailFree(c) == LookUp(c, "email", TRUE, "insert")

FindByEmail(c) ==
  LookUp(c, "email", <<"email", call[c].input.email>> \notin Taken, "insert")

(* A new leave type must not exist, and that of a policy must.             *)
FindByCode(c) ==
  /\ call[c].kind = "leaveType"
  /\ LookUp(c, "code", call[c].input \notin leaveTypes, "insert")

GetLeaveTypeByCode(c) ==
  /\ call[c].kind = "policy"
  /\ LookUp(c, "code", call[c].input.code \in leaveTypes, "insert")

(* The end of a call that inserted its row, or that the database refused.  *)
Inserts(c, kind) ==
  call[c].pc = "insert" /\ call[c].kind = kind

Inserted(c) ==
  LET Overtakes(d) == d # c /\ Keys(call[d].kind, call[d].input)
                                 \cap Keys(call[c].kind, call[c].input) # {}
  IN
  /\ overtaken' = overtaken \cup {d \in Calls : Overtakes(d)}
  /\ UNCHANGED failed

Refused(c) == failed' = failed \cup {c} /\ UNCHANGED overtaken

Free(c) == Keys(call[c].kind, call[c].input) \cap Taken = {}

(* manager_id refers to an employee, whom no code has looked up.           *)
ManagerKnown(e) ==
  e.manager # None => \E m \in employees : m.number = e.manager

InsertEmployee(c) ==
  LET e == call[c].input IN
  /\ Inserts(c, "employee")
  /\ \/ Free(c) /\ ManagerKnown(e) /\ employees' = employees \cup {e} /\ Inserted(c)
     \/ ~Free(c) /\ ManagerKnown(e) /\ UNCHANGED employees /\ Refused(c)
     \/ ~ManagerKnown(e) /\ UNCHANGED <<employees, history>>
  /\ call' = [call EXCEPT ![c] = Idle]
  /\ UNCHANGED <<leaveTypes, policies, balances, today, shown>>

InsertLeaveType(c) ==
  /\ Inserts(c, "leaveType")
  /\ \/ Free(c) /\ leaveTypes' = leaveTypes \cup {call[c].input} /\ Inserted(c)
     \/ ~Free(c) /\ UNCHANGED leaveTypes /\ Refused(c)
  /\ call' = [call EXCEPT ![c] = Idle]
  /\ UNCHANGED <<employees, policies, balances, today, shown>>

(* The id is random, leave_type_code refers to a leave type.               *)
InsertPolicy(c) ==
  LET p == call[c].input IN
  /\ Inserts(c, "policy")
  /\ IF p.code \in leaveTypes
     THEN policies' = policies \cup {p} /\ Inserted(c)
     ELSE UNCHANGED policies /\ Refused(c)
  /\ call' = [call EXCEPT ![c] = Idle]
  /\ UNCHANGED <<employees, leaveTypes, balances, today, shown>>

(* Any other error of a query: nothing of the call is left behind.         *)
Fail(c) ==
  /\ call[c].pc # "idle"
  /\ call' = [call EXCEPT ![c] = Idle]
  /\ UNCHANGED <<tables, balances, today, shown, history>>

-----------------------------------------------------------------------------
(* Policies in use                                                         *)

PoliciesOf(k) == {p \in policies : p.code = k}

(* periodContaining                                                        *)
PeriodOf(p, day) ==
  [code |-> p.code, start |-> day - (day % p.months), months |-> p.months]

(* Of some policy of the type, findByLeaveTypeCode says which.  A booking  *)
(* on a day of leave looks one of these rows up.                           *)
BookingPeriods(k, day) == {PeriodOf(p, day) : p \in PoliciesOf(k)}

(* openPeriod (BalancePeriods has it in full): the caller names the period *)
(* of a policy.                                                            *)
OpenPeriod(k) ==
  /\ \E period \in BookingPeriods(k, today) : balances' = balances \cup {period}
  /\ UNCHANGED <<tables, today, call, shown, history>>

(* Midnight of the last day comes before any call made on that day.        *)
InForce(p, day) ==
  p.status = "ACTIVE" /\ p.from <= day /\ (p.to = None \/ p.to > day)

(* Mutant: the policy that comes first is kept.                            *)
TakeFirst(k, day, current, p) ==
  IF p.code = k /\ InForce(p, day) /\ current = None THEN p ELSE current

Take(k, day, current, p) ==
  IF /\ p.code = k /\ InForce(p, day)
     /\ current = None \/ p.from > current.from
  THEN p ELSE current

(* effectiveByType after the loop over rows, which come in any order.      *)
Effective(k, day, rows) ==
  LET best[n \in 0 .. Len(rows)] ==
        IF n = 0 THEN None ELSE Take(k, day, best[n - 1], rows[n])
  IN best[Len(rows)]

GetAllPolicies(c) ==
  /\ call[c].pc = "policies"
  /\ \E rows \in SetToSeqs(policies) :
       call' = [call EXCEPT ![c].pc = "balances", ![c].asOf = today,
                  ![c].inForce = [k \in Codes |-> Effective(k, today, rows)]]
  /\ UNCHANGED <<tables, balances, today, shown, history>>

(* One findByKey for each type with a policy in force.                     *)
FindBalance(c, k) ==
  LET p == call[c].inForce[k]
      period == PeriodOf(p, call[c].asOf)
  IN
  /\ call[c].pc = "balances" /\ p # None
  /\ shown' = [shown EXCEPT ![k] =
       IF period \in balances
       THEN [period |-> period, day |-> call[c].asOf] ELSE None]
  /\ call' = [call EXCEPT ![c].inForce[k] = None]
  /\ UNCHANGED <<tables, balances, today, history>>

AnswerDashboard(c) ==
  /\ call[c].pc = "balances"
  /\ \A k \in Codes : call[c].inForce[k] = None
  /\ call' = [call EXCEPT ![c] = Idle]
  /\ UNCHANGED <<tables, balances, today, shown, history>>

NextDay ==
  /\ today < LastDay
  /\ today' = today + 1
  /\ UNCHANGED <<tables, balances, call, shown, history>>

Create(c) ==
  \/ \E e \in Hires : CreateEmployee(c, e)
  \/ \E k \in Codes : CreateLeaveType(c, k)
  \/ \E p \in Proposals : CreateLeavePolicy(c, p)
  \/ FindByEmployeeNumber(c) \/ FindByEmail(c)
  \/ FindByCode(c) \/ GetLeaveTypeByCode(c)
  \/ InsertEmployee(c) \/ InsertLeaveType(c) \/ InsertPolicy(c)

Read(c) ==
  \/ GetCurrentBalances(c) \/ GetAllPolicies(c)
  \/ \E k \in Codes : FindBalance(c, k)
  \/ AnswerDashboard(c)

Next ==
  \/ \E c \in Calls : Create(c) \/ Read(c) \/ Fail(c)
  \/ \E k \in Codes : OpenPeriod(k)
  \/ NextDay

Spec == Init /\ [][Next]_vars

-----------------------------------------------------------------------------

(* An INSERT whose manager exists is refused, and its caller answered 500, *)
(* only when another creation of the same key came between the call's      *)
(* look-up and its INSERT: the look-ups cover every unique key, and the    *)
(* leave type of a policy, which is never removed, cannot go missing.      *)
RefusalsAreRaces == failed \subseteq overtaken

EffectiveIsLatest(k, rows) ==
  LET p == Effective(k, today, rows)
      candidates == {q \in PoliciesOf(k) : InForce(q, today)}
  IN IF candidates = {} THEN p = None
     ELSE p \in candidates /\ \A q \in candidates : q.from <= p.from

(* getCurrentBalances takes the latest policy in force, and none only when *)
(* none is, in whatever order findAll returns the rows; and the balance    *)
(* it shows is one that bookings of that day use, the only one while the   *)
(* type has a single policy: what the employee sees is what create and     *)
(* submit check and reserve, though policies and periods come in between.  *)
DashboardIsCurrent ==
  \A k \in Codes :
    /\ \A rows \in SetToSeqs(policies) : EffectiveIsLatest(k, rows)
    /\ shown[k] # None =>
         shown[k].period \in BookingPeriods(k, shown[k].day) \cap balances
=============================================================================
