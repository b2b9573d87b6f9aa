---------------------------- MODULE BalancePeriods ----------------------------
(***************************************************************************)
(* The leave_balances rows of one employee and one leave type, one period  *)
(* after the other: openPeriod and carryForward of                         *)
(* src/src/modules/balance/balance.service.ts beside the leave workflow,   *)
(* which books days on the same rows.  Both read their rows without a lock *)
(* (findById and findByKey are called without forUpdate), and rely on the  *)
(* unique key of the table and on an UPDATE of the one column they change. *)
(*                                                                         *)
(* Period p + 1 starts where period p ends: AccrualCalendar shows that the *)
(* period carryForward computes from a source row is the one the lookups   *)
(* compute, so a period is its index here.                                 *)
(***************************************************************************)
EXTENDS Integers

CONSTANTS
  Handlers,     \* calls of openPeriod and carryForward in service at once
  LastPeriod,   \* bound on the calendar
  Annual,       \* annualEntitlementDays of the policy
  CarryCap,     \* carryForwardDays of the policy
  MaxBooked,    \* bound on the days the leave workflow books in one period
  CarryOnce,    \* TRUE when no source row is carried forward twice
  None          \* no row, no handler, nothing carried

Periods  == 0 .. LastPeriod
Counters == [entitled : Int, used : Int, pending : Int]

ASSUME BalanceAssumption ==
  /\ LastPeriod \in Nat
  /\ Annual \in Nat \ {0}
  /\ CarryCap \in Nat
  /\ MaxBooked \in Nat
  /\ CarryOnce \in BOOLEAN
  /\ None \notin Handlers \cup Counters \cup Int

VARIABLES
  row,       \* [Periods -> Counters \cup {None}], the committed rows
  rowLock,   \* [Periods -> Handlers \cup {None}], row and unique-key locks
  current,   \* the period of the present day
  call,      \* [Handlers -> Call]
  booked,    \* history: the days the leave workflow has booked, per period
  carried,   \* history: the days last carried out of a period, or None
  late       \* history: the periods in which leave was submitted after
             \* their end

vars == <<row, rowLock, current, call, booked, carried, late>>

-----------------------------------------------------------------------------

(* source is the period carried from, None for openPeriod; seen the row    *)
(* found for the target period; entitled what the call is going to write.  *)
Call == [pc : {"idle", "read", "found", "absent", "staged"},
         source : Periods \cup {None}, target : Periods \cup {None},
         seen : Counters \cup {None}, carry : Int, entitled : Int]

Idle == [pc |-> "idle", source |-> None, target |-> None, seen |-> None,
         carry |-> 0, entitled |-> 0]

Opened == {p \in Periods : row[p] # None}

Granted(n) == [entitled |-> n, used |-> 0, pending |-> 0]

Unused(r) == r.entitled - r.used - r.pending

CarryOf(unused) == IF unused <= CarryCap THEN unused ELSE CarryCap

(* No call has carried p forward, and none is about to.                    *)
NotCarried(p) ==
  /\ carried[p] = None
  /\ \A h \in Handlers : call[h].source # p

Init ==
  /\ row     = [p \in Periods |-> None]
  /\ rowLock = [p \in Periods |-> None]
  /\ current = 0
  /\ call    = [h \in Handlers |-> Idle]
  /\ booked  = [p \in Periods |-> [used |-> 0, pending |-> 0]]
  /\ carried = [p \in Periods |-> None]
  /\ late    = {}

-----------------------------------------------------------------------------
(* openPeriod: the key is free when it is looked up.                       *)
CheckOpen(h, p) ==
  /\ call[h] = Idle
  /\ p \notin Opened
  /\ call' = [call EXCEPT ![h] = [Idle EXCEPT !.pc = "absent", !.target = p,
                                              !.entitled = Annual]]
  /\ UNCHANGED <<row, rowLock, current, booked, carried, late>>

(* Mutant: a period can be carried forward on its last day.                *)
ReadSourceEarly(h, p) ==
  /\ call[h] = Idle
  /\ p \in Opened
  /\ p <= current /\ p < LastPeriod
  /\ Unused(row[p]) >= 0
  /\ CarryOnce => NotCarried(p)
  /\ call' = [call EXCEPT ![h] = [Idle EXCEPT !.pc = "read", !.source = p,
                !.target = p + 1, !.carry = CarryOf(Unused(row[p]))]]
  /\ UNCHANGED <<row, rowLock, current, booked, carried, late>>

(* carryForward: the source row has ended and its counters are in order.   *)
ReadSource(h, p) ==
  /\ call[h] = Idle
  /\ p \in Opened
  /\ p < current
  /\ row[p].entitled >= 0 /\ row[p].used >= 0 /\ row[p].pending >= 0
  /\ Unused(row[p]) >= 0
  /\ CarryOnce => NotCarried(p)
  /\ call' = [call EXCEPT ![h] = [Idle EXCEPT !.pc = "read", !.source = p,
                !.target = p + 1, !.carry = CarryOf(Unused(row[p]))]]
  /\ UNCHANGED <<row, rowLock, current, booked, carried, late>>

(* carryForward: look the next period up.                                  *)
ReadNext(h) ==
  LET c == call[h]
      next == row[c.target]
  IN
  /\ c.pc = "read"
  /\ call' = [call EXCEPT ![h] =
       [c EXCEPT !.pc = IF next = None THEN "absent" ELSE "found",
                 !.seen = next,
                 !.entitled = c.carry +
                   IF next = None THEN Annual ELSE next.entitled]]
  /\ UNCHANGED <<row, rowLock, current, booked, carried, late>>

(* Mutant: an INSERT of a key that exists overwrites the row.              *)
StageUpsert(h) ==
  LET c == call[h] IN
  /\ c.pc \in {"absent", "found"}
  /\ rowLock[c.target] = None
  /\ rowLock' = [rowLock EXCEPT ![c.target] = h]
  /\ call' = [call EXCEPT ![h].pc = "staged"]
  /\ UNCHANGED <<row, current, booked, carried, late>>

(* The INSERT or the UPDATE.  Either waits for another transaction's write *)
(* of the same key; the INSERT goes on only if the key is still free then. *)
Stage(h) ==
  LET c == call[h] IN
  /\ c.pc = "found" \/ (c.pc = "absent" /\ c.target \notin Opened)
  /\ rowLock[c.target] = None
  /\ rowLock' = [rowLock EXCEPT ![c.target] = h]
  /\ call' = [call EXCEPT ![h].pc = "staged"]
  /\ UNCHANGED <<row, current, booked, carried, late>>

(* Mutant: the UPDATE writes every counter of the row that was read.       *)
WrittenWhole(c) ==
  [Granted(c.entitled) EXCEPT
     !.used    = IF c.seen = None THEN 0 ELSE c.seen.used,
     !.pending = IF c.seen = None THEN 0 ELSE c.seen.pending]

(* The UPDATE sets entitled_days alone, the INSERT a row nobody has used.  *)
Written(c) ==
  IF c.seen = None THEN Granted(c.entitled)
                   ELSE [row[c.target] EXCEPT !.entitled = c.entitled]

Commit(h) ==
  LET c == call[h] IN
  /\ c.pc = "staged"
  /\ row' = [row EXCEPT ![c.target] = Written(c)]
  /\ carried' = IF c.source = None THEN carried
                ELSE [carried EXCEPT ![c.source] = c.carry]
  /\ rowLock' = [rowLock EXCEPT ![c.target] = None]
  /\ call' = [call EXCEPT ![h] = Idle]
  /\ UNCHANGED <<current, booked, late>>

(* Mutant: a rollback that keeps the locks.                                *)
AbortHolding(h) ==
  /\ call[h] # Idle
  /\ call' = [call EXCEPT ![h] = Idle]
  /\ UNCHANGED <<row, rowLock, current, booked, carried, late>>

(* A rollback: the unique key refused the INSERT, or any await failed.     *)
Abort(h) ==
  /\ call[h] # Idle
  /\ rowLock' = [p \in Periods |-> IF rowLock[p] = h THEN None ELSE rowLock[p]]
  /\ call' = [call EXCEPT ![h] = Idle]
  /\ UNCHANGED <<row, current, booked, carried, late>>

-----------------------------------------------------------------------------
(* A committed transaction of the leave workflow moves a day: submit       *)
(* reserves it, approve takes it, reject and cancel give it back.  It holds*)
(* the row lock from its SELECT ... FOR UPDATE, writes used_days and       *)
(* pending_days alone, and serves any period that has a row.               *)
Submitted == [used |-> 0, pending |-> 1]

Moves == {Submitted, [used |-> 0, pending |-> -1],
          [used |-> 1, pending |-> -1], [used |-> -1, pending |-> 0]}

Book(p, move) ==
  LET used    == row[p].used + move.used
      pending == row[p].pending + move.pending
  IN
  /\ p \in Opened
  /\ rowLock[p] = None
  /\ used >= 0 /\ pending >= 0
  /\ used + pending <= MaxBooked
  /\ row' = [row EXCEPT ![p].used = used, ![p].pending = pending]
  /\ booked' = [booked EXCEPT ![p].used    = @ + move.used,
                              ![p].pending = @ + move.pending]
  /\ late' = IF move = Submitted /\ p < current THEN late \cup {p} ELSE late
  /\ UNCHANGED <<rowLock, current, call, carried>>

NextPeriod ==
  /\ current < LastPeriod
  /\ current' = current + 1
  /\ UNCHANGED <<row, rowLock, call, booked, carried, late>>

Next ==
  \/ \E h \in Handlers, p \in Periods : CheckOpen(h, p) \/ ReadSource(h, p)
  \/ \E h \in Handlers : ReadNext(h) \/ Stage(h) \/ Commit(h) \/ Abort(h)
  \/ \E p \in Periods, move \in Moves : p \in Opened /\ Book(p, move)
  \/ NextPeriod

Spec == Init /\ [][Next]_vars

-----------------------------------------------------------------------------

(* Every variable has its type, and a handler that has staged its write,   *)
(* and no other, holds the lock of the row it writes.                      *)
TypeOK ==
  /\ row \in [Periods -> Counters \cup {None}]
  /\ rowLock \in [Periods -> Handlers \cup {None}]
  /\ current \in Periods
  /\ call \in [Handlers -> Call]
  /\ booked \in [Periods -> [used : Nat, pending : Nat]]
  /\ carried \in [Periods -> Int \cup {None}]
  /\ late \subseteq Periods
  /\ \A h \in Handlers, p \in Periods :
       rowLock[p] = h <=> call[h].pc = "staged" /\ call[h].target = p

(* However opening, carrying over and booking interleave, a row's          *)
(* entitlement is the annual grant and what the period before carried over:*)
(* no carried day is lost to a racing openPeriod, none is added twice, and *)
(* no row gets more than the days the policy lets an employee carry over.  *)
EntitlementExplained ==
  \A p \in Opened :
    LET carriedIn == IF p > 0 /\ carried[p - 1] # None THEN carried[p - 1] ELSE 0
    IN row[p].entitled = Annual + carriedIn /\ carriedIn <= CarryCap

(* carryForward writes back nothing it read of the leave workflow's        *)
(* counters: they stay what the workflow booked.                           *)
BookingsKept ==
  \A p \in Opened :
    row[p].used = booked[p].used /\ row[p].pending = booked[p].pending

(* The days carried out of a period are not taken in it as well: whatever  *)
(* is decided, cancelled or reversed while carryForward runs and after it, *)
(* the carried days stay unused in the period they came from.  A draft     *)
(* submitted after the end of its period is the exception: submit does not *)
(* ask whether the period has ended.                                       *)
SpentOnce ==
  \A p \in Opened \ late :
    carried[p] # None => carried[p] <= Unused(row[p])
=============================================================================
