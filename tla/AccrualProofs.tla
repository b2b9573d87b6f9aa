---------------------------- MODULE AccrualProofs ----------------------------
(***************************************************************************)
(* Proofs about the accrual periods: the rows of BalancePeriods, for any   *)
(* number of calls and periods, any grant and any cap (what openings,      *)
(* carry-overs and bookings leave in a balance row, although carryForward  *)
(* reads without locks); and the dates of AccrualPeriods, AccrualCalendar  *)
(* and DateColumns, for any hire date, any length of the periods and any   *)
(* length of the calendar.                                                 *)
(***************************************************************************)
EXTENDS BalancePeriods, DateColumns, FiniteSetTheorems, TLAPS

(* How far a call is, and what that says of the rows.                      *)
InOrder(c) ==
  /\ c.pc = "idle" => c = Idle
  /\ c.pc # "idle" => c.target \in Periods
  /\ c.pc = "read" => c.source # None
  /\ c.pc \in {"read", "absent"} => c.seen = None
  /\ c.pc = "found" => c.seen # None
  /\ c.seen # None => c.target \in Opened
  /\ c.pc = "staged" /\ c.seen = None => c.target \notin Opened
  /\ c.source # None =>
       /\ c.source \in Opened /\ c.source < current
       /\ c.target = c.source + 1
       /\ c.carry >= 0

(* Days are booked on, and carried between, periods that have a row.       *)
RowsFirst ==
  \A p \in Periods :
    /\ p \notin Opened => booked[p] = [used |-> 0, pending |-> 0]
    /\ carried[p] # None => p \in Opened /\ p < current /\ p + 1 \in Opened

PeriodsInv ==
  /\ TypeOK
  /\ RowsFirst
  /\ BookingsKept
  /\ \A h \in Handlers : InOrder(call[h])

LEMMA NoneApart ==
  /\ None \notin Handlers /\ None \notin Counters /\ None \notin Int
  /\ None \notin Periods
BY BalanceAssumption DEF Periods

LEMMA PeriodsInit == Init => PeriodsInv
<1> SUFFICES ASSUME Init PROVE PeriodsInv
  OBVIOUS
<1>1. TypeOK
  BY NoneApart, BalanceAssumption
     DEF Init, TypeOK, Call, Idle, Periods
<1>2. Opened = {}
  BY DEF Init, Opened
<1>3. RowsFirst /\ BookingsKept
  BY <1>2 DEF Init, RowsFirst, BookingsKept
<1>4. \A h \in Handlers : InOrder(call[h])
  BY DEF Init, Idle, InOrder
<1>5. QED
  BY <1>1, <1>3, <1>4 DEF PeriodsInv

(* A step of one call that leaves the rows alone.                          *)
LEMMA CallStep ==
  ASSUME PeriodsInv, NEW h \in Handlers, NEW c \in Call,
         call' = [call EXCEPT ![h] = c],
         UNCHANGED <<row, current, booked, carried, late>>,
         rowLock' \in [Periods -> Handlers \cup {None}],
         \A g \in Handlers, p \in Periods :
           rowLock'[p] = g <=> call'[g].pc = "staged" /\ call'[g].target = p,
         InOrder(c)
  PROVE  PeriodsInv'
<1>1. TypeOK'
  BY DEF PeriodsInv, TypeOK
<1>2. Opened' = Opened
  BY DEF Opened
<1>3. RowsFirst' /\ BookingsKept'
  BY <1>2 DEF PeriodsInv, RowsFirst, BookingsKept
<1>4. ASSUME NEW g \in Handlers
      PROVE  InOrder(call[g])'
  <2>1. call'[g] = IF g = h THEN c ELSE call[g]
    BY DEF PeriodsInv, TypeOK
  <2>2. InOrder(call'[g])
    BY <2>1 DEF PeriodsInv
  <2>3. QED
    BY <1>2, <2>2 DEF InOrder
<1>5. QED
  BY <1>1, <1>3, <1>4 DEF PeriodsInv

LEMMA CallTypes ==
  ASSUME PeriodsInv, NEW h \in Handlers
  PROVE  /\ call[h] \in Call /\ InOrder(call[h])
         /\ call \in [Handlers -> Call] /\ row \in [Periods -> Counters \cup {None}]
         /\ rowLock \in [Periods -> Handlers \cup {None}]
         /\ \A g \in Handlers, p \in Periods :
              rowLock[p] = g <=> call[g].pc = "staged" /\ call[g].target = p
BY DEF PeriodsInv, TypeOK

LEMMA IdleType == Idle \in Call
BY DEF Idle, Call

LEMMA OpeningStep ==
  ASSUME PeriodsInv, NEW h \in Handlers, NEW p \in Periods, CheckOpen(h, p)
  PROVE  PeriodsInv'
<1>1. PICK c : c = [Idle EXCEPT !.pc = "absent", !.target = p,
                                !.entitled = Annual]
  OBVIOUS
<1>2. /\ c.pc = "absent" /\ c.source = None /\ c.target = p /\ c.seen = None
      /\ call[h].pc = "idle" /\ p \notin Opened
  BY <1>1 DEF Idle, CheckOpen
<1>3. c \in Call
  <2>1. Annual \in Int
    BY BalanceAssumption
  <2>2. QED
    BY <1>1, <2>1, IdleType DEF Call
<1>4. InOrder(c)
  BY <1>2 DEF InOrder
<1>5. /\ call' = [call EXCEPT ![h] = c] /\ rowLock' = rowLock
      /\ UNCHANGED <<row, current, booked, carried, late>>
  BY <1>1 DEF CheckOpen
<1>6. \A g \in Handlers, q \in Periods :
         rowLock'[q] = g <=> call'[g].pc = "staged" /\ call'[g].target = q
  BY <1>2, <1>5, CallTypes
<1>7. QED
  BY <1>3, <1>4, <1>5, <1>6, CallTypes, CallStep

LEMMA CarryTypes ==
  ASSUME NEW unused \in Int, unused >= 0
  PROVE  /\ CarryOf(unused) \in Int /\ CarryOf(unused) >= 0
         /\ CarryOf(unused) <= unused /\ CarryOf(unused) <= CarryCap
BY BalanceAssumption DEF CarryOf

LEMMA SourceStep ==
  ASSUME PeriodsInv, NEW h \in Handlers, NEW p \in Periods, ReadSource(h, p)
  PROVE  PeriodsInv'
<1>1. PICK carry : carry = CarryOf(Unused(row[p]))
  OBVIOUS
<1>2. carry \in Int /\ carry >= 0 /\ carry <= Unused(row[p])
  <2>1. row[p] \in Counters
    BY CallTypes DEF ReadSource, Opened
  <2>2. Unused(row[p]) \in Int /\ Unused(row[p]) >= 0
    BY <2>1 DEF Unused, Counters, ReadSource
  <2>3. QED
    BY <1>1, <2>2, CarryTypes
<1>3. p + 1 \in Periods /\ p < current /\ p \in Opened /\ p \in Int
  BY BalanceAssumption DEF ReadSource, Periods, PeriodsInv, TypeOK
<1>4. PICK c : c = [Idle EXCEPT !.pc = "read", !.source = p,
                                !.target = p + 1, !.carry = carry]
  OBVIOUS
<1>5. /\ c.pc = "read" /\ c.source = p /\ c.target = p + 1 /\ c.seen = None
      /\ c.carry = carry /\ call[h].pc = "idle"
  BY <1>4 DEF Idle, ReadSource
<1>6. c \in Call
  BY <1>2, <1>3, <1>4, IdleType DEF Call
<1>7. InOrder(c)
  BY <1>2, <1>3, <1>5, NoneApart DEF InOrder
<1>9. /\ call' = [call EXCEPT ![h] = c] /\ rowLock' = rowLock
      /\ UNCHANGED <<row, current, booked, carried, late>>
  BY <1>1, <1>4 DEF ReadSource
<1>10. \A g \in Handlers, q \in Periods :
         rowLock'[q] = g <=> call'[g].pc = "staged" /\ call'[g].target = q
  BY <1>5, <1>9, CallTypes
<1>11. QED
  BY <1>6, <1>7, <1>9, <1>10, CallTypes, CallStep

LEMMA NextRowStep ==
  ASSUME PeriodsInv, NEW h \in Handlers, ReadNext(h)
  PROVE  PeriodsInv'
<1>1. PICK next : next = row[call[h].target]
  OBVIOUS
<1>2. /\ call[h] \in Call /\ InOrder(call[h])
      /\ call[h].pc = "read" /\ call[h].target \in Periods
      /\ next \in Counters \cup {None}
      /\ next # None <=> call[h].target \in Opened
  BY <1>1, CallTypes DEF ReadNext, InOrder, Opened
<1>3. PICK entitled : entitled = call[h].carry +
                        IF next = None THEN Annual ELSE next.entitled
  OBVIOUS
<1>4. entitled \in Int
  BY <1>2, <1>3, BalanceAssumption DEF Counters, Call
<1>5. PICK c : c = [call[h] EXCEPT
                      !.pc = IF next = None THEN "absent" ELSE "found",
                      !.seen = next, !.entitled = entitled]
  OBVIOUS
<1>6. /\ c.target = call[h].target /\ c.source = call[h].source
      /\ c.carry = call[h].carry /\ c.seen = next
      /\ c.pc = IF next = None THEN "absent" ELSE "found"
      /\ c \in Call
  BY <1>2, <1>4, <1>5 DEF Call
<1>7. InOrder(c)
  BY <1>2, <1>6 DEF InOrder
<1>8. /\ call' = [call EXCEPT ![h] = c] /\ rowLock' = rowLock
      /\ UNCHANGED <<row, current, booked, carried, late>>
  BY <1>1, <1>3, <1>5 DEF ReadNext
<1>9. \A g \in Handlers, q \in Periods :
         rowLock'[q] = g <=> call'[g].pc = "staged" /\ call'[g].target = q
  BY <1>2, <1>6, <1>8, CallTypes
<1>10. QED
  BY <1>6, <1>7, <1>8, <1>9, CallTypes, CallStep

LEMMA StageStep ==
  ASSUME PeriodsInv, NEW h \in Handlers, Stage(h)
  PROVE  PeriodsInv'
<1>0. PICK c : c = [call[h] EXCEPT !.pc = "staged"]
  OBVIOUS
<1>1. /\ call[h] \in Call /\ InOrder(call[h])
      /\ call[h].pc \in {"found", "absent"} /\ call[h].target \in Periods
      /\ call[h].pc = "absent" => call[h].target \notin Opened
      /\ rowLock[call[h].target] = None
  BY CallTypes DEF Stage, InOrder
<1>2. /\ c.target = call[h].target /\ c.source = call[h].source
      /\ c.carry = call[h].carry /\ c.seen = call[h].seen /\ c.pc = "staged"
      /\ c \in Call
  BY <1>0, <1>1 DEF Call
<1>3. InOrder(c)
  BY <1>1, <1>2 DEF InOrder
<1>4. /\ call' = [call EXCEPT ![h] = c]
      /\ rowLock' = [rowLock EXCEPT ![call[h].target] = h]
      /\ UNCHANGED <<row, current, booked, carried, late>>
  BY <1>0, CallTypes DEF Stage
<1>5. \A g \in Handlers, q \in Periods :
         rowLock'[q] = g <=> call'[g].pc = "staged" /\ call'[g].target = q
  BY <1>1, <1>2, <1>4, CallTypes, NoneApart
<1>6. rowLock' \in [Periods -> Handlers \cup {None}]
  BY <1>1, <1>4, CallTypes
<1>7. QED
  BY <1>2, <1>3, <1>4, <1>5, <1>6, CallStep

LEMMA AbortStep ==
  ASSUME PeriodsInv, NEW h \in Handlers, Abort(h)
  PROVE  PeriodsInv'
<1>1. Idle \in Call /\ InOrder(Idle)
  BY IdleType DEF Idle, InOrder
<1>2. \A g \in Handlers, q \in Periods :
         rowLock'[q] = g <=> call'[g].pc = "staged" /\ call'[g].target = q
  BY CallTypes, NoneApart DEF Abort, Idle
<1>3. rowLock' \in [Periods -> Handlers \cup {None}]
  BY CallTypes DEF Abort
<1>4. QED
  BY <1>1, <1>2, <1>3, CallStep DEF Abort

(* The INSERT or the UPDATE takes effect.                                  *)
LEMMA CommitStep ==
  ASSUME PeriodsInv, NEW h \in Handlers, Commit(h)
  PROVE  PeriodsInv'
<1>1. /\ call[h] \in Call /\ InOrder(call[h]) /\ call[h].pc = "staged"
      /\ call[h].target \in Periods
  BY CallTypes DEF Commit, InOrder
<1>2. PICK t : t = call[h].target
  OBVIOUS
<1>3. PICK w : w = Written(call[h])
  OBVIOUS
<1>4. /\ w \in Counters
      /\ w.used = booked[t].used /\ w.pending = booked[t].pending
  <2>1. CASE call[h].seen = None
    <3>1. w = Granted(call[h].entitled) /\ t \notin Opened
      BY <1>1, <1>2, <1>3, <2>1 DEF Written, InOrder
    <3>2. booked[t] = [used |-> 0, pending |-> 0]
      BY <1>1, <1>2, <3>1 DEF PeriodsInv, RowsFirst
    <3>3. call[h].entitled \in Int
      BY <1>1 DEF Call
    <3>4. QED
      BY <3>1, <3>2, <3>3 DEF Granted, Counters
  <2>2. CASE call[h].seen # None
    <3>1. /\ w = [row[t] EXCEPT !.entitled = call[h].entitled]
          /\ t \in Opened
      BY <1>1, <1>2, <1>3, <2>2 DEF Written, InOrder
    <3>2. row[t] \in Counters /\ call[h].entitled \in Int
      BY <1>1, <3>1, CallTypes DEF Opened, Call
    <3>3. row[t].used = booked[t].used /\ row[t].pending = booked[t].pending
      BY <3>1 DEF PeriodsInv, BookingsKept
    <3>4. QED
      BY <3>1, <3>2, <3>3 DEF Counters
  <2>3. QED
    BY <2>1, <2>2
<1>5. /\ row' = [row EXCEPT ![t] = w] /\ call' = [call EXCEPT ![h] = Idle]
      /\ rowLock' = [rowLock EXCEPT ![t] = None]
      /\ UNCHANGED <<current, booked, late>>
  BY <1>2, <1>3 DEF Commit
<1>6. /\ row' \in [Periods -> Counters \cup {None}]
      /\ Opened' = Opened \cup {t}
  BY <1>1, <1>2, <1>4, <1>5, CallTypes, NoneApart DEF Opened
<1>7. /\ carried' \in [Periods -> Int \cup {None}]
      /\ \A p \in Periods : carried'[p] # None =>
           p \in Opened /\ p < current /\ (p + 1 \in Opened \/ p + 1 = t)
  <2>1. CASE call[h].source = None
    BY <2>1 DEF Commit, PeriodsInv, TypeOK, RowsFirst
  <2>2. CASE call[h].source # None
    <3>1. /\ carried' = [carried EXCEPT ![call[h].source] = call[h].carry]
          /\ call[h].carry \in Int /\ call[h].source \in Periods
          /\ call[h].source \in Opened /\ call[h].source < current
          /\ call[h].source + 1 = t
      BY <1>1, <1>2, <2>2 DEF Commit, InOrder, Call
    <3>2. QED
      BY <3>1 DEF PeriodsInv, TypeOK, RowsFirst
  <2>3. QED
    BY <2>1, <2>2
<1>8. \A g \in Handlers, p \in Periods :
         rowLock'[p] = g <=> call'[g].pc = "staged" /\ call'[g].target = p
  <2>1. Idle.pc # "staged"
    BY DEF Idle
  <2>2. QED
    BY <1>1, <1>2, <1>5, <2>1, CallTypes, NoneApart
<1>9. TypeOK'
  <2>1. call' \in [Handlers -> Call]
    BY <1>5, CallTypes, IdleType
  <2>2. rowLock' \in [Periods -> Handlers \cup {None}]
    BY <1>1, <1>2, <1>5, CallTypes
  <2>3. QED
    BY <1>5, <1>6, <1>7, <1>8, <2>1, <2>2 DEF PeriodsInv, TypeOK
<1>10. RowsFirst'
  BY <1>5, <1>6, <1>7 DEF PeriodsInv, RowsFirst
<1>11. BookingsKept'
  BY <1>1, <1>2, <1>4, <1>5, <1>6, CallTypes DEF PeriodsInv, BookingsKept, Opened
<1>12. ASSUME NEW g \in Handlers PROVE InOrder(call[g])'
  <2>1. CASE g = h
    <3>1. call'[g] = Idle
      BY <1>5, <2>1, CallTypes
    <3>2. QED
      BY <3>1 DEF Idle, InOrder
  <2>2. CASE g # h
    <3>1. call'[g] = call[g] /\ InOrder(call[g]) /\ current' = current
      BY <1>5, <2>2, CallTypes
    <3>2. call[g].pc = "staged" => call[g].target # t
      BY <1>1, <1>2, <2>2, CallTypes
    <3>3. QED
      BY <1>6, <3>1, <3>2 DEF InOrder
  <2>3. QED
    BY <2>1, <2>2
<1>13. QED
  BY <1>9, <1>10, <1>11, <1>12 DEF PeriodsInv

LEMMA BookStep ==
  ASSUME PeriodsInv, NEW p \in Periods, NEW move \in Moves, Book(p, move)
  PROVE  PeriodsInv'
<1>1. /\ p \in Opened /\ row[p] \in Counters
      /\ move.used \in Int /\ move.pending \in Int
      /\ row[p].used = booked[p].used /\ row[p].pending = booked[p].pending
  BY CallTypes DEF Book, Opened, PeriodsInv, TypeOK, BookingsKept, Moves,
                   Submitted
<1>2. PICK used, pending : /\ used = row[p].used + move.used
                           /\ pending = row[p].pending + move.pending
  OBVIOUS
<1>3. used \in Nat /\ pending \in Nat
  BY <1>1, <1>2 DEF Book, Counters
<1>4. /\ row' = [row EXCEPT ![p].used = used, ![p].pending = pending]
      /\ booked' = [booked EXCEPT ![p].used = used, ![p].pending = pending]
      /\ UNCHANGED <<rowLock, current, call, carried>>
      /\ late' \subseteq Periods
  BY <1>1, <1>2 DEF Book, PeriodsInv, TypeOK
<1>5. PICK r : r = [row[p] EXCEPT !.used = used, !.pending = pending]
  OBVIOUS
<1>6. /\ row' = [row EXCEPT ![p] = r] /\ r \in Counters
      /\ r.used = used /\ r.pending = pending /\ r.entitled = row[p].entitled
  <2>1. row' = [row EXCEPT ![p] = r]
    BY <1>4, <1>5, CallTypes
  <2>2. row[p] \in Counters /\ used \in Int /\ pending \in Int
    BY <1>1, <1>3
  <2>3. QED
    BY <1>5, <2>1, <2>2 DEF Counters
<1>7. /\ row' \in [Periods -> Counters \cup {None}] /\ Opened' = Opened
      /\ \A q \in Periods : row'[q] = IF q = p THEN r ELSE row[q]
  <2>1. /\ row' \in [Periods -> Counters \cup {None}]
        /\ \A q \in Periods : row'[q] = IF q = p THEN r ELSE row[q]
    <3>1. row \in [Periods -> Counters \cup {None}]
      BY DEF PeriodsInv, TypeOK
    <3>2. QED
      BY <1>6, <3>1
  <2>2. r # None /\ row[p] # None
    BY <1>1, <1>6, NoneApart
  <2>3. QED
    BY <2>1, <2>2 DEF Opened
<1>8. /\ booked' \in [Periods -> [used : Nat, pending : Nat]]
      /\ \A q \in Periods : q # p => booked'[q] = booked[q]
      /\ booked'[p].used = used /\ booked'[p].pending = pending
  <2>1. booked \in [Periods -> [used : Nat, pending : Nat]]
    BY DEF PeriodsInv, TypeOK
  <2>2. booked'[p] = [booked[p] EXCEPT !.used = used, !.pending = pending]
    BY <1>4, <2>1
  <2>3. /\ booked'[p] \in [used : Nat, pending : Nat]
        /\ booked'[p].used = used /\ booked'[p].pending = pending
    BY <1>3, <2>1, <2>2
  <2>4. QED
    BY <1>4, <2>1, <2>3
<1>9. TypeOK'
  BY <1>4, <1>7, <1>8 DEF PeriodsInv, TypeOK
<1>10. RowsFirst' /\ BookingsKept'
  <2>1. RowsFirst'
    BY <1>1, <1>4, <1>7, <1>8 DEF PeriodsInv, RowsFirst
  <2>2. ASSUME NEW q \in Opened
        PROVE  row'[q].used = booked'[q].used /\ row'[q].pending = booked'[q].pending
    BY <1>6, <1>7, <1>8 DEF PeriodsInv, BookingsKept, Opened
  <2>3. QED
    BY <1>7, <2>1, <2>2 DEF BookingsKept
<1>11. \A h \in Handlers : InOrder(call[h])'
  BY <1>4, <1>7 DEF PeriodsInv, InOrder
<1>12. QED
  BY <1>9, <1>10, <1>11 DEF PeriodsInv

LEMMA QuietStep ==
  ASSUME PeriodsInv, NextPeriod \/ UNCHANGED vars
  PROVE  PeriodsInv'
<1>1. /\ current' \in Periods /\ current' >= current
      /\ current \in Int /\ current' \in Int
      /\ UNCHANGED <<row, rowLock, call, booked, carried, late>>
  BY BalanceAssumption DEF NextPeriod, vars, PeriodsInv, TypeOK, Periods
<1>2. Opened' = Opened
  BY <1>1 DEF Opened
<1>3. TypeOK' /\ BookingsKept'
  BY <1>1, <1>2 DEF PeriodsInv, TypeOK, BookingsKept
<1>4. RowsFirst'
  BY <1>1, <1>2, BalanceAssumption DEF PeriodsInv, RowsFirst, Periods
<1>5. ASSUME NEW h \in Handlers PROVE InOrder(call[h])'
  <2>1. call[h].source # None => call[h].source \in Int
    BY CallTypes, BalanceAssumption DEF Call, Periods
  <2>2. call[h].source # None => call[h].source < current'
    BY <1>1, <2>1 DEF PeriodsInv, InOrder
  <2>3. QED
    BY <1>1, <1>2, <2>2 DEF PeriodsInv, InOrder
<1>6. QED
  BY <1>3, <1>4, <1>5 DEF PeriodsInv

LEMMA PeriodsStep == PeriodsInv /\ [Next]_vars => PeriodsInv'
<1> SUFFICES ASSUME PeriodsInv, [Next]_vars PROVE PeriodsInv'
  OBVIOUS
<1>1. CASE Next
  BY <1>1, OpeningStep, SourceStep, NextRowStep, StageStep, AbortStep,
     CommitStep, BookStep, QuietStep DEF Next
<1>2. CASE UNCHANGED vars
  BY <1>2, QuietStep
<1>3. QED
  BY <1>1, <1>2

(* Rows, locks, calls and histories have their types, and a row is locked  *)
(* by the one call that has staged a write of it.                          *)
THEOREM TypeCorrect == Spec => []TypeOK
<1>1. PeriodsInv => TypeOK
  BY DEF PeriodsInv
<1>2. QED
  BY <1>1, PeriodsInit, PeriodsStep, PTL DEF Spec

(* Whatever openings and carry-overs run beside it, and however often a    *)
(* period is carried, the counters are what the leave workflow booked.     *)
THEOREM BookingsStay == Spec => []BookingsKept
<1>1. PeriodsInv => BookingsKept
  BY DEF PeriodsInv
<1>2. QED
  BY <1>1, PeriodsInit, PeriodsStep, PTL DEF Spec

-----------------------------------------------------------------------------
(* Each period carried forward once.                                       *)

CarriedBy(c) == IF c.source = None THEN 0 ELSE c.carry

(* What a call is about to write is the grant and what it carries.         *)
Planned(c) ==
  /\ c.pc \in {"absent", "found", "staged"} => c.entitled = Annual + CarriedBy(c)
  /\ c.source # None => c.carry <= CarryCap
  /\ c.source = None => c.seen = None

(* What a call carries is still unused, unless a draft came late.          *)
Covered(c) ==
  c.source # None /\ c.source \notin late => c.carry <= Unused(row[c.source])

(* Nobody else has carried, or is about to carry, what h carries.          *)
Owns(h, c) ==
  c.source # None =>
    /\ carried[c.source] = None
    /\ \A g \in Handlers : g # h => call[g].source # c.source

OnceInv ==
  /\ PeriodsInv
  /\ \A h \in Handlers :
       Planned(call[h]) /\ Covered(call[h]) /\ Owns(h, call[h])
  /\ EntitlementExplained
  /\ SpentOnce

LEMMA OnceInit == Init => OnceInv
<1> SUFFICES ASSUME Init PROVE OnceInv
  OBVIOUS
<1>1. PeriodsInv
  BY PeriodsInit
<1>2. Opened = {}
  BY DEF Init, Opened
<1>3. EntitlementExplained /\ SpentOnce
  BY <1>2 DEF EntitlementExplained, SpentOnce
<1>4. \A h \in Handlers :
         Planned(call[h]) /\ Covered(call[h]) /\ Owns(h, call[h])
  BY DEF Init, Idle, Planned, Covered, Owns
<1>5. QED
  BY <1>1, <1>3, <1>4 DEF OnceInv

(* A step of one call that leaves the rows alone.                          *)
LEMMA OnceCallStep ==
  ASSUME OnceInv, PeriodsInv', NEW h \in Handlers, NEW c,
         call' = [call EXCEPT ![h] = c],
         UNCHANGED <<row, current, booked, carried, late>>,
         Planned(c), Covered(c), Owns(h, c)
  PROVE  OnceInv'
<1>1. Opened' = Opened
  BY DEF Opened
<1>2. EntitlementExplained' /\ SpentOnce'
  BY <1>1 DEF OnceInv, EntitlementExplained, SpentOnce, Unused
<1>3. \A g \in Handlers : call'[g] = IF g = h THEN c ELSE call[g]
  BY DEF OnceInv, PeriodsInv, TypeOK
<1>4. ASSUME NEW g \in Handlers
      PROVE  Planned(call[g])' /\ Covered(call[g])' /\ Owns(g, call[g])'
  <2>1. Planned(call'[g]) /\ Covered(call'[g])
    BY <1>3 DEF OnceInv
  <2>2. Planned(call[g])' /\ Covered(call[g])'
    BY <2>1 DEF Planned, Covered, CarriedBy, Unused
  <2>3. Owns(g, call[g])'
    BY <1>3 DEF OnceInv, Owns
  <2>4. QED
    BY <2>2, <2>3
<1>5. QED
  BY <1>2, <1>4 DEF OnceInv

LEMMA OnceCallSteps ==
  ASSUME CarryOnce, OnceInv, PeriodsInv', NEW h \in Handlers,
         \/ \E p \in Periods : CheckOpen(h, p) \/ ReadSource(h, p)
         \/ ReadNext(h) \/ Stage(h) \/ Abort(h)
  PROVE  OnceInv'
<1>0. /\ PeriodsInv /\ call[h] \in Call /\ InOrder(call[h])
      /\ Planned(call[h]) /\ Covered(call[h]) /\ Owns(h, call[h])
  BY CallTypes DEF OnceInv
<1>1. ASSUME NEW p \in Periods, CheckOpen(h, p) PROVE OnceInv'
  <2>1. PICK c : c = [Idle EXCEPT !.pc = "absent", !.target = p,
                                  !.entitled = Annual]
    OBVIOUS
  <2>2. c.source = None /\ c.seen = None /\ c.entitled = Annual
    BY <2>1 DEF Idle
  <2>3. Planned(c) /\ Covered(c) /\ Owns(h, c)
    BY <2>2, BalanceAssumption DEF Planned, CarriedBy, Covered, Owns
  <2>4. /\ call' = [call EXCEPT ![h] = c]
        /\ UNCHANGED <<row, current, booked, carried, late>>
    BY <1>1, <2>1 DEF CheckOpen
  <2>5. QED
    BY <2>3, <2>4, OnceCallStep
<1>2. ASSUME NEW p \in Periods, ReadSource(h, p) PROVE OnceInv'
  <2>1. PICK carry : carry = CarryOf(Unused(row[p]))
    OBVIOUS
  <2>2. carry <= Unused(row[p]) /\ carry <= CarryCap
    <3>0. p \in Opened /\ Unused(row[p]) >= 0
      BY <1>2 DEF ReadSource
    <3>1. row[p] \in Counters
      BY <1>0, <3>0 DEF PeriodsInv, TypeOK, Opened
    <3>2. Unused(row[p]) \in Int /\ Unused(row[p]) >= 0
      <4>1. /\ row[p].entitled \in Int /\ row[p].used \in Int
            /\ row[p].pending \in Int
        BY <3>1 DEF Counters
      <4>2. QED
        BY <3>0, <4>1 DEF Unused
    <3>3. QED
      BY <2>1, <3>2, CarryTypes
  <2>3. PICK c : c = [Idle EXCEPT !.pc = "read", !.source = p,
                                  !.target = p + 1, !.carry = carry]
    OBVIOUS
  <2>4. /\ c.pc = "read" /\ c.source = p /\ c.carry = carry
        /\ NotCarried(p) /\ p # None
    BY <1>2, <2>3, NoneApart DEF Idle, ReadSource
  <2>5. Planned(c) /\ Covered(c) /\ Owns(h, c)
    BY <2>2, <2>4 DEF Planned, Covered, Owns, NotCarried
  <2>6. /\ call' = [call EXCEPT ![h] = c]
        /\ UNCHANGED <<row, current, booked, carried, late>>
    BY <1>2, <2>1, <2>3 DEF ReadSource
  <2>7. QED
    BY <2>5, <2>6, OnceCallStep
<1>3. ASSUME ReadNext(h) PROVE OnceInv'
  <2>1. PICK next : next = row[call[h].target]
    OBVIOUS
  <2>2. PICK entitled : entitled = call[h].carry +
                          IF next = None THEN Annual ELSE next.entitled
    OBVIOUS
  <2>3. /\ call[h].source # None /\ call[h].source \in Periods
        /\ call[h].target = call[h].source + 1 /\ call[h].target \in Periods
        /\ carried[call[h].source] = None /\ call[h].carry \in Int
    BY <1>0, <1>3 DEF ReadNext, InOrder, Owns, Call
  <2>4. next # None => next.entitled = Annual
    <3>1. next # None => call[h].target \in Opened
      BY <2>1, <2>3 DEF Opened
    <3>2. call[h].target > 0 /\ call[h].target - 1 = call[h].source
      BY <2>3, BalanceAssumption DEF Periods
    <3>3. QED
      BY <2>1, <2>3, <3>1, <3>2, BalanceAssumption
         DEF OnceInv, EntitlementExplained
  <2>5. entitled = Annual + call[h].carry
    BY <2>2, <2>3, <2>4, BalanceAssumption
  <2>6. PICK c : c = [call[h] EXCEPT
                        !.pc = IF next = None THEN "absent" ELSE "found",
                        !.seen = next, !.entitled = entitled]
    OBVIOUS
  <2>7. /\ c.source = call[h].source /\ c.carry = call[h].carry
        /\ c.entitled = entitled
    BY <1>0, <2>6 DEF Call
  <2>8. Planned(c) /\ Covered(c) /\ Owns(h, c)
    BY <1>0, <2>3, <2>5, <2>7 DEF Planned, CarriedBy, Covered, Owns
  <2>9. /\ call' = [call EXCEPT ![h] = c]
        /\ UNCHANGED <<row, current, booked, carried, late>>
    BY <1>3, <2>1, <2>2, <2>6 DEF ReadNext
  <2>10. QED
    BY <2>8, <2>9, OnceCallStep
<1>4. ASSUME Stage(h) PROVE OnceInv'
  <2>1. PICK c : c = [call[h] EXCEPT !.pc = "staged"]
    OBVIOUS
  <2>2. /\ c.source = call[h].source /\ c.carry = call[h].carry
        /\ c.entitled = call[h].entitled /\ c.seen = call[h].seen
        /\ call[h].pc \in {"absent", "found"}
    BY <1>0, <1>4, <2>1 DEF Call, Stage
  <2>3. Planned(c) /\ Covered(c) /\ Owns(h, c)
    BY <1>0, <2>2 DEF Planned, CarriedBy, Covered, Owns
  <2>4. /\ call' = [call EXCEPT ![h] = c]
        /\ UNCHANGED <<row, current, booked, carried, late>>
    BY <1>0, <1>4, <2>1, CallTypes DEF Stage
  <2>5. QED
    BY <2>3, <2>4, OnceCallStep
<1>5. ASSUME Abort(h) PROVE OnceInv'
  <2>1. Planned(Idle) /\ Covered(Idle) /\ Owns(h, Idle)
    BY DEF Idle, Planned, Covered, Owns
  <2>2. QED
    BY <1>5, <2>1, OnceCallStep DEF Abort
<1>6. QED
  BY <1>1, <1>2, <1>3, <1>4, <1>5

(* A commit leaves the row entitled to the grant and what was carried into *)
(* it, and takes no unused day from anybody.                               *)
LEMMA OnceCommitStep ==
  ASSUME OnceInv, PeriodsInv', NEW h \in Handlers, Commit(h)
  PROVE  OnceInv'
<1>0. PICK c : c = call[h]
  OBVIOUS
<1>1. /\ PeriodsInv /\ c \in Call /\ InOrder(c) /\ Planned(c) /\ Covered(c)
      /\ Owns(h, c) /\ c.pc = "staged" /\ c.target \in Periods
      /\ row \in [Periods -> Counters \cup {None}]
  BY <1>0, CallTypes DEF OnceInv, Commit, InOrder
<1>2. PICK t : t = c.target
  OBVIOUS
<1>3. /\ row' = [row EXCEPT ![t] = Written(c)]
      /\ call' = [call EXCEPT ![h] = Idle]
      /\ carried' = IF c.source = None THEN carried
                    ELSE [carried EXCEPT ![c.source] = c.carry]
      /\ UNCHANGED <<current, booked, late>>
  BY <1>0, <1>2 DEF Commit
<1>4. /\ \A p \in Periods : p # t => row'[p] = row[p]
      /\ row'[t] = Written(c) /\ Opened' = Opened \cup {t} /\ t \in Int
      /\ c.carry \in Int /\ CarriedBy(c) \in Int /\ Annual \in Int
  <2>1. row'[t] # None
    <3>1. Written(c) \in Counters
      <4>1. c.entitled \in Int
        BY <1>1 DEF Call
      <4>2. CASE c.seen = None
        BY <4>1, <4>2 DEF Written, Granted, Counters
      <4>3. CASE c.seen # None
        <5>1. row[c.target] \in Counters
          BY <1>1, <4>3 DEF InOrder, Opened
        <5>2. QED
          BY <4>1, <4>3, <5>1 DEF Written, Counters
      <4>4. QED
        BY <4>2, <4>3
    <3>2. QED
      BY <1>1, <1>2, <1>3, <3>1, NoneApart
  <2>2. c.carry \in Int /\ t \in Int /\ Annual \in Int
    BY <1>1, <1>2, BalanceAssumption DEF Call, Periods
  <2>3. QED
    BY <1>1, <1>2, <1>3, <2>1, <2>2 DEF Opened, CarriedBy
<1>5. row'[t].entitled = Annual + CarriedBy(c)
  <2>1. Written(c).entitled = c.entitled
    <3>1. CASE c.seen = None
      BY <3>1 DEF Written, Granted
    <3>2. CASE c.seen # None
      <4>1. row[c.target] \in Counters
        BY <1>1, <3>2 DEF InOrder, Opened
      <4>2. QED
        BY <3>2, <4>1 DEF Written, Counters
    <3>3. QED
      BY <3>1, <3>2
  <2>2. QED
    BY <1>1, <1>4, <2>1 DEF Planned
<1>6. c.source # None =>
        /\ c.source \in Periods /\ c.source \in Int /\ c.source = t - 1 /\ t > 0
        /\ c.source \in Opened /\ c.source # t /\ carried[c.source] = None
        /\ c.carry >= 0 /\ c.carry <= CarryCap
        /\ carried' = [carried EXCEPT ![c.source] = c.carry]
  <2> SUFFICES ASSUME c.source # None
      PROVE  /\ c.source \in Periods /\ c.source \in Int /\ c.source = t - 1
             /\ t > 0 /\ c.source \in Opened /\ c.source # t
             /\ carried[c.source] = None
             /\ c.carry >= 0 /\ c.carry <= CarryCap
             /\ carried' = [carried EXCEPT ![c.source] = c.carry]
    OBVIOUS
  <2>1. c.source \in Periods
    BY <1>1 DEF Call
  <2>2. c.source \in Nat
    BY <2>1, BalanceAssumption DEF Periods
  <2>3. c.source \in Opened /\ t = c.source + 1 /\ c.carry >= 0
    BY <1>1, <1>2 DEF InOrder
  <2>4. c.source = t - 1 /\ t > 0 /\ c.source # t
    BY <2>2, <2>3
  <2>5. carried[c.source] = None /\ c.carry <= CarryCap
    BY <1>1 DEF Owns, Planned
  <2>6. carried' = [carried EXCEPT ![c.source] = c.carry]
    BY <1>3
  <2>7. QED
    BY <2>1, <2>2, <2>3, <2>4, <2>5, <2>6
<1>7. EntitlementExplained'
  <2> SUFFICES ASSUME NEW p \in Opened'
      PROVE  LET carriedIn == IF p > 0 /\ carried'[p - 1] # None
                              THEN carried'[p - 1] ELSE 0
             IN row'[p].entitled = Annual + carriedIn /\ carriedIn <= CarryCap
    BY DEF EntitlementExplained
  <2>0. p \in Periods /\ p \in Int /\ carried \in [Periods -> Int \cup {None}]
    BY <1>1, <1>2, <1>4, BalanceAssumption DEF Opened, Periods, PeriodsInv, TypeOK
  <2>1. CASE p = t /\ c.source # None
    <3>1. carried'[p - 1] = c.carry /\ c.carry # None
      BY <1>4, <1>6, <2>0, <2>1, NoneApart
    <3>2. QED
      BY <1>5, <1>6, <2>1, <3>1 DEF CarriedBy
  <2>2. CASE p = t /\ c.source = None
    <3>1. carried' = carried /\ t \notin Opened
      BY <1>1, <1>2, <1>3, <2>2 DEF Planned, InOrder
    <3>2. p > 0 => p - 1 \in Periods /\ (p - 1) + 1 = p
      BY <2>0, BalanceAssumption DEF Periods
    <3>3. p > 0 => carried[p - 1] = None
      BY <1>1, <2>2, <3>1, <3>2 DEF PeriodsInv, RowsFirst
    <3>4. CarriedBy(c) = 0 /\ 0 <= CarryCap
      BY <2>2, BalanceAssumption DEF CarriedBy
    <3>5. QED
      BY <1>4, <1>5, <2>2, <3>1, <3>3, <3>4
  <2>3. CASE p # t
    <3>1. p \in Opened /\ row'[p] = row[p]
      BY <1>4, <2>0, <2>3
    <3>2. p > 0 => p - 1 \in Periods
      BY <2>0, BalanceAssumption DEF Periods
    <3>3. p > 0 => carried'[p - 1] = carried[p - 1]
      BY <1>3, <1>4, <1>6, <2>0, <2>3, <3>2
    <3>4. QED
      BY <3>1, <3>3 DEF OnceInv, EntitlementExplained
  <2>4. QED
    BY <2>1, <2>2, <2>3
<1>8. ASSUME NEW p \in Opened
      PROVE  Unused(row'[p]) >= Unused(row[p]) /\ Unused(row[p]) \in Int
             /\ Unused(row'[p]) \in Int
  <2>0. row[p] \in Counters /\ p \in Periods
    BY <1>1 DEF Opened
  <2>1. CASE p # t
    BY <1>4, <2>0, <2>1 DEF Unused, Counters
  <2>2. CASE p = t
    <3>1. c.seen # None /\ c.source # None
      BY <1>1, <1>2, <2>2 DEF InOrder, Planned
    <3>2. row'[p] = [row[p] EXCEPT !.entitled = c.entitled]
      BY <1>2, <1>4, <2>2, <3>1 DEF Written
    <3>3. row[p].entitled = Annual
      BY <1>4, <1>6, <2>2, <3>1 DEF OnceInv, EntitlementExplained
    <3>4. c.entitled = Annual + c.carry /\ c.carry >= 0
      BY <1>1, <1>6, <3>1 DEF Planned, CarriedBy
    <3>5. QED
      BY <1>4, <2>0, <3>2, <3>3, <3>4 DEF Unused, Counters
  <2>3. QED
    BY <2>1, <2>2
<1>9. SpentOnce'
  <2> SUFFICES ASSUME NEW p \in Opened', p \notin late, carried'[p] # None
      PROVE  carried'[p] <= Unused(row'[p])
    BY <1>3 DEF SpentOnce, Unused
  <2>0. p \in Periods /\ carried \in [Periods -> Int \cup {None}]
    BY <1>1, <1>2, <1>4 DEF Opened, PeriodsInv, TypeOK
  <2>1. CASE p = c.source
    <3>1. carried'[p] = c.carry /\ row'[p] = row[p] /\ c.carry <= Unused(row[p])
      BY <1>1, <1>4, <1>6, <2>0, <2>1, NoneApart DEF Covered
    <3>2. QED
      BY <3>1
  <2>2. CASE p # c.source
    <3>1. carried'[p] = carried[p]
      BY <1>3, <2>0, <2>2
    <3>2. p \in Opened /\ carried[p] \in Int /\ carried[p] <= Unused(row[p])
      BY <1>1, <2>0, <3>1 DEF OnceInv, PeriodsInv, RowsFirst, SpentOnce
    <3>3. QED
      BY <1>8, <3>1, <3>2
  <2>3. QED
    BY <2>1, <2>2
<1>10. ASSUME NEW g \in Handlers
       PROVE  Planned(call[g])' /\ Covered(call[g])' /\ Owns(g, call[g])'
  <2>1. CASE g = h
    <3>1. call'[g] = Idle
      BY <1>3, <2>1, CallTypes DEF OnceInv
    <3>2. QED
      BY <3>1 DEF Idle, Planned, Covered, Owns
  <2>2. CASE g # h
    <3>1. /\ call'[g] = call[g] /\ call[g] \in Call /\ InOrder(call[g])
          /\ Planned(call[g]) /\ Covered(call[g]) /\ Owns(g, call[g])
      BY <1>3, <2>2, CallTypes DEF OnceInv
    <3>2. Planned(call[g])'
      BY <3>1 DEF Planned, CarriedBy
    <3>3. Covered(call[g])'
      <4>1. call[g].source # None =>
              call[g].source \in Opened /\ call[g].carry \in Int
        BY <3>1 DEF InOrder, Call
      <4>2. call[g].source # None /\ call[g].source \notin late =>
              call[g].carry <= Unused(row'[call[g].source])
        BY <1>8, <3>1, <4>1 DEF Covered
      <4>3. QED
        BY <1>3, <3>1, <4>2 DEF Covered, Unused
    <3>4. Owns(g, call[g])'
      <4>1. call[g].source # None => call[g].source # c.source
        BY <1>0, <1>1, <2>2, <3>1 DEF Owns
      <4>2. call[g].source # None => carried'[call[g].source] = None
        BY <1>1, <1>3, <3>1, <4>1 DEF Owns, Call, PeriodsInv, TypeOK
      <4>3. \A f \in Handlers : call'[f].source \in {None, call[f].source}
        BY <1>1, <1>3, CallTypes DEF Idle
      <4>4. QED
        BY <3>1, <4>2, <4>3 DEF Owns
    <3>5. QED
      BY <3>2, <3>3, <3>4
  <2>3. QED
    BY <2>1, <2>2
<1>11. QED
  BY <1>7, <1>9, <1>10 DEF OnceInv

(* A booking in an ended period takes an unused day only by a late draft.  *)
LEMMA OnceBookStep ==
  ASSUME OnceInv, PeriodsInv', NEW p \in Periods, NEW move \in Moves,
         Book(p, move)
  PROVE  OnceInv'
<1>1. /\ PeriodsInv /\ row \in [Periods -> Counters \cup {None}]
      /\ p \in Opened /\ row[p] \in Counters
  BY CallTypes DEF OnceInv, Book, Opened, PeriodsInv, TypeOK
<1>2. PICK used, pending : /\ used = row[p].used + move.used
                           /\ pending = row[p].pending + move.pending
  OBVIOUS
<1>3. PICK r : r = [row[p] EXCEPT !.used = used, !.pending = pending]
  OBVIOUS
<1>4. move.used \in Int /\ move.pending \in Int
  BY DEF Moves, Submitted
<1>5. used \in Int /\ pending \in Int
  BY <1>1, <1>2, <1>4 DEF Counters
<1>6. /\ r.used = used /\ r.pending = pending /\ r.entitled = row[p].entitled
      /\ r \in Counters
  BY <1>1, <1>3, <1>5 DEF Counters
<1>7. /\ row' = [row EXCEPT ![p] = r]
      /\ UNCHANGED <<current, call, carried>>
      /\ late' = IF move = Submitted /\ p < current THEN late \cup {p} ELSE late
  BY <1>1, <1>2, <1>3 DEF Book
<1>8. /\ \A q \in Periods : row'[q] = IF q = p THEN r ELSE row[q]
      /\ Opened' = Opened
  BY <1>1, <1>6, <1>7, NoneApart DEF Opened
<1>9. ASSUME NEW q \in Opened, q < current, q \notin late'
      PROVE  /\ Unused(row'[q]) >= Unused(row[q]) /\ q \notin late
             /\ Unused(row[q]) \in Int /\ Unused(row'[q]) \in Int
  <2>0. q \in Periods /\ row[q] \in Counters /\ q \notin late
    BY <1>1, <1>7, <1>9 DEF Opened
  <2>1. CASE q # p
    BY <1>8, <2>0, <2>1 DEF Unused, Counters
  <2>2. CASE q = p
    <3>1. move # Submitted
      BY <1>7, <1>9, <2>2
    <3>2. move.used + move.pending <= 0
      BY <3>1 DEF Moves
    <3>3. Unused(r) = Unused(row[q]) - (move.used + move.pending)
      BY <1>2, <1>4, <1>5, <1>6, <2>0, <2>2 DEF Unused, Counters
    <3>4. Unused(row[q]) \in Int /\ row'[q] = r
      BY <1>8, <2>0, <2>2 DEF Unused, Counters
    <3>5. QED
      BY <1>4, <2>0, <3>2, <3>3, <3>4
  <2>3. QED
    BY <2>1, <2>2
<1>10. EntitlementExplained'
  <2>1. \A q \in Opened : row'[q].entitled = row[q].entitled
    BY <1>6, <1>8 DEF Opened
  <2>2. QED
    BY <1>7, <1>8, <2>1 DEF OnceInv, EntitlementExplained
<1>11. SpentOnce'
  <2> SUFFICES ASSUME NEW q \in Opened', q \notin late', carried'[q] # None
      PROVE  carried'[q] <= Unused(row'[q])
    BY DEF SpentOnce, Unused
  <2>1. /\ q \in Opened /\ q < current /\ carried'[q] = carried[q]
        /\ carried[q] \in Int
    BY <1>1, <1>7, <1>8 DEF PeriodsInv, TypeOK, RowsFirst, Opened
  <2>2. carried[q] <= Unused(row[q])
    BY <1>9, <2>1 DEF OnceInv, SpentOnce
  <2>3. QED
    BY <1>9, <2>1, <2>2
<1>12. ASSUME NEW g \in Handlers
       PROVE  Planned(call[g])' /\ Covered(call[g])' /\ Owns(g, call[g])'
  <2>1. /\ call' = call /\ call[g] \in Call /\ InOrder(call[g])
        /\ Planned(call[g]) /\ Covered(call[g]) /\ Owns(g, call[g])
    BY <1>1, <1>7, CallTypes DEF OnceInv
  <2>2. Planned(call[g])' /\ Owns(g, call[g])'
    BY <1>7, <2>1 DEF Planned, CarriedBy, Owns
  <2>3. Covered(call[g])'
    <3>1. ASSUME call[g].source # None, call[g].source \notin late'
          PROVE  call[g].carry <= Unused(row'[call[g].source])
      <4>1. /\ call[g].source \in Opened /\ call[g].source < current
            /\ call[g].carry \in Int
        BY <2>1, <3>1 DEF InOrder, Call
      <4>2. call[g].carry <= Unused(row[call[g].source])
        BY <1>9, <2>1, <3>1, <4>1 DEF Covered
      <4>3. QED
        BY <1>9, <3>1, <4>1, <4>2
    <3>2. QED
      BY <2>1, <3>1 DEF Covered, Unused
  <2>4. QED
    BY <2>2, <2>3
<1>13. QED
  BY <1>10, <1>11, <1>12 DEF OnceInv

LEMMA OnceQuietStep ==
  ASSUME OnceInv, PeriodsInv', NextPeriod \/ UNCHANGED vars
  PROVE  OnceInv'
<1>1. UNCHANGED <<row, rowLock, call, booked, carried, late>>
  BY DEF NextPeriod, vars
<1>2. Opened' = Opened
  BY <1>1 DEF Opened
<1>3. EntitlementExplained' /\ SpentOnce'
  BY <1>1, <1>2 DEF OnceInv, EntitlementExplained, SpentOnce, Unused
<1>4. \A h \in Handlers :
         Planned(call[h])' /\ Covered(call[h])' /\ Owns(h, call[h])'
  BY <1>1 DEF OnceInv, Planned, CarriedBy, Covered, Owns, Unused
<1>5. QED
  BY <1>3, <1>4 DEF OnceInv

LEMMA OnceStep ==
  ASSUME CarryOnce
  PROVE  OnceInv /\ [Next]_vars => OnceInv'
<1> SUFFICES ASSUME OnceInv, [Next]_vars PROVE OnceInv'
  OBVIOUS
<1>0. PeriodsInv'
  BY PeriodsStep DEF OnceInv
<1>1. CASE Next
  BY <1>0, <1>1, OnceCallSteps, OnceCommitStep, OnceBookStep, OnceQuietStep
     DEF Next
<1>2. CASE UNCHANGED vars
  BY <1>0, <1>2, OnceQuietStep
<1>3. QED
  BY <1>1, <1>2

(* When no period is carried forward twice, a row is entitled to the grant *)
(* and what the period before carried over, at most the cap: whatever      *)
(* openings and carry-overs of the same rows overlap, none of them is lost *)
(* and none is added to a row another has opened meanwhile.                *)
THEOREM Entitlements == CarryOnce => (Spec => []EntitlementExplained)
<1> SUFFICES ASSUME CarryOnce PROVE Spec => []EntitlementExplained
  OBVIOUS
<1>1. OnceInv /\ [Next]_vars => OnceInv'
  BY OnceStep
<1>2. OnceInv => EntitlementExplained
  BY DEF OnceInv
<1>3. QED
  BY <1>1, <1>2, OnceInit, PTL DEF Spec

(* Under the same assumption no carried day is spent in the period it came *)
(* from, in which no draft was submitted late, although carryForward reads *)
(* that period without a lock and commits any time after.                  *)
THEOREM NeverSpentTwice == CarryOnce => (Spec => []SpentOnce)
<1> SUFFICES ASSUME CarryOnce PROVE Spec => []SpentOnce
  OBVIOUS
<1>1. OnceInv /\ [Next]_vars => OnceInv'
  BY OnceStep
<1>2. OnceInv => SpentOnce
  BY DEF OnceInv
<1>3. QED
  BY <1>1, <1>2, OnceInit, PTL DEF Spec

-----------------------------------------------------------------------------
(* The dates of the periods.  Induction up to a bound, on a set of numbers:*)
(* if a number were missing there would be a smaller one missing before it,*)
(* so the missing ones would be as many as those of them below the bound.  *)

LEMMA Reached ==
  ASSUME NEW N \in Nat, NEW S, 0 \in S,
         \A i \in 0 .. N - 1 : i \in S => i + 1 \in S
  PROVE  \A n \in 0 .. N : n \in S
<1> SUFFICES ASSUME NEW n \in 0 .. N, n \notin S PROVE FALSE
  OBVIOUS
<1>1. PICK T : T = {i \in 0 .. n : i \notin S}
  OBVIOUS
<1>2. T \in SUBSET (0 .. n) /\ n \in T
  BY <1>1
<1>3. ASSUME NEW i \in T PROVE i \in Nat /\ i - 1 \in T \ {n}
  <2>1. i \in 0 .. n /\ i # 0 /\ i \notin S
    BY <1>1, <1>3
  <2>2. i - 1 \in 0 .. N - 1 /\ (i - 1) + 1 = i
    BY <2>1
  <2>3. i - 1 \notin S
    BY <2>1, <2>2
  <2>4. QED
    BY <1>1, <2>1, <2>3
<1>4. IsFiniteSet(T)
  <2>1. 0 \in Int /\ n \in Int
    OBVIOUS
  <2>2. IsFiniteSet(0 .. n)
    BY <2>1, FS_Interval
  <2>3. QED
    BY <1>2, <2>2, FS_Subset
<1>5. /\ IsFiniteSet(T \ {n})
      /\ Cardinality(T \ {n}) = Cardinality(T) - 1
      /\ Cardinality(T) \in Nat
  BY <1>2, <1>4, FS_RemoveElement, FS_CardinalityType
<1>6. PICK f : f = [i \in T |-> i - 1]
  OBVIOUS
<1>7. f \in [T -> T \ {n}]
  BY <1>3, <1>6
<1>8. Cardinality(T \ {n}) < Cardinality(T)
  BY <1>5
<1>9. \E i, j \in T : i # j /\ f[i] = f[j]
  BY <1>4, <1>5, <1>7, <1>8, FS_PigeonHole
<1>10. QED
  BY <1>3, <1>6, <1>9

LEMMA DaysInRange == \A m \in Int : DaysIn(m) \in 28 .. 31
BY DEF DaysIn

LEMMA AddMonthsDate ==
  ASSUME NEW d \in DateType, NEW n \in Nat
  PROVE  /\ AddMonths(d, n) \in DateType
         /\ ValidDate(AddMonths(d, n))
         /\ AddMonths(d, n).month = d.month + n
         /\ AddMonths(d, n).day <= d.day
         /\ AddMonths(d, n).day = d.day \/ AddMonths(d, n).day >= 28
<1>1. PICK last \in 28 .. 31 : last = DaysIn(d.month + n)
  BY DaysInRange DEF DateType
<1>2. PICK day : day = IF d.day <= last THEN d.day ELSE last
  OBVIOUS
<1>3. /\ day \in 1 .. 31 /\ day <= d.day /\ day <= last
      /\ day = d.day \/ day >= 28
  BY <1>2 DEF DateType
<1>4. AddMonths(d, n) = [month |-> d.month + n, day |-> day]
  BY <1>1, <1>2 DEF AddMonths
<1>5. d.month + n \in Int
  BY DEF DateType
<1>6. QED
  BY <1>1, <1>3, <1>4, <1>5 DEF DateType, ValidDate

LEMMA StartsFunction ==
  ASSUME NEW a, NEW n
  PROVE  Starts(a, n) = [i \in 0 .. MaxPeriods |->
           IF i = 0 THEN a
           ELSE NextStart(a, n, i - 1, Starts(a, n)[i - 1])]
<1>1. PICK S : S = {m \in 0 .. MaxPeriods : \E start : start = [i \in 0 .. m |->
           IF i = 0 THEN a
           ELSE NextStart(a, n, i - 1, start[i - 1])]}
  OBVIOUS
<1>2. 0 \in S
  <2>1. PICK start : start = [i \in 0 .. 0 |-> a]
    OBVIOUS
  <2>2. start = [i \in 0 .. 0 |-> IF i = 0 THEN a
           ELSE NextStart(a, n, i - 1, start[i - 1])]
    BY <2>1
  <2>3. QED
    BY <1>1, <2>2, PeriodsAssumption
<1>3. ASSUME NEW m \in 0 .. MaxPeriods - 1, m \in S PROVE m + 1 \in S
  <2>1. PICK g : g = [i \in 0 .. m |-> IF i = 0 THEN a
           ELSE NextStart(a, n, i - 1, g[i - 1])]
    BY <1>1, <1>3
  <2>2. PICK last : last = NextStart(a, n, m, g[m])
    OBVIOUS
  <2>3. PICK start : start = [i \in 0 .. m + 1 |-> IF i <= m THEN g[i] ELSE last]
    OBVIOUS
  <2>4. ASSUME NEW i \in 0 .. m + 1
        PROVE  start[i] = IF i = 0 THEN a
                 ELSE NextStart(a, n, i - 1, start[i - 1])
    <3>1. CASE i = 0
      <4>1. start[0] = g[0] /\ g[0] = a
        BY <2>1, <2>3
      <4>2. QED
        BY <3>1, <4>1
    <3>2. CASE i \in 1 .. m
      <4>1. start[i] = g[i] /\ start[i - 1] = g[i - 1]
        BY <2>3, <3>2
      <4>2. g[i] = NextStart(a, n, i - 1, g[i - 1])
        BY <2>1, <3>2
      <4>3. QED
        BY <3>2, <4>1, <4>2
    <3>3. CASE i = m + 1
      <4>1. start[i] = last /\ start[i - 1] = g[m] /\ i - 1 = m /\ i # 0
        BY <2>3, <3>3
      <4>2. QED
        BY <2>2, <4>1
    <3>4. QED
      BY <3>1, <3>2, <3>3
  <2>5. start = [i \in 0 .. m + 1 |-> IF i = 0 THEN a
           ELSE NextStart(a, n, i - 1, start[i - 1])]
    BY <2>3, <2>4
  <2>6. m + 1 \in 0 .. MaxPeriods
    BY PeriodsAssumption
  <2>7. QED
    BY <1>1, <2>5, <2>6
<1>4. MaxPeriods \in S
  BY <1>2, <1>3, Reached, PeriodsAssumption
<1>5. \E start : start = [i \in 0 .. MaxPeriods |->
           IF i = 0 THEN a
           ELSE NextStart(a, n, i - 1, start[i - 1])]
  BY <1>1, <1>4
<1>6. PICK start : start = CHOOSE f : f = [i \in 0 .. MaxPeriods |->
           IF i = 0 THEN a
           ELSE NextStart(a, n, i - 1, f[i - 1])]
  OBVIOUS
<1>7. start = [i \in 0 .. MaxPeriods |-> IF i = 0 THEN a
           ELSE NextStart(a, n, i - 1, start[i - 1])]
  BY <1>5, <1>6
<1>8. Starts(a, n) = start
  BY <1>6 DEF Starts
<1>9. QED
  BY <1>7, <1>8

(* Each period starts where the one before ends.                           *)
LEMMA StartsLoop ==
  ASSUME NEW a \in DateType, NEW n \in Nat
  PROVE  /\ Starts(a, n)[0] = a
         /\ \A i \in 0 .. MaxPeriods : Starts(a, n)[i] \in DateType
         /\ \A i \in 0 .. MaxPeriods - 1 :
              Starts(a, n)[i + 1] = AddMonths(Starts(a, n)[i], n)
<1>1. PICK start : start = Starts(a, n)
  OBVIOUS
<1>2. start = [i \in 0 .. MaxPeriods |-> IF i = 0 THEN a
           ELSE NextStart(a, n, i - 1, start[i - 1])]
  BY <1>1, StartsFunction
<1>3. Starts(a, n) = start
  BY <1>1
<1>4. start[0] = a
  <2>1. 0 \in 0 .. MaxPeriods
    BY PeriodsAssumption
  <2>2. QED
    BY <1>2, <2>1
<1>5. ASSUME NEW i \in 0 .. MaxPeriods - 1, start[i] \in DateType
      PROVE  start[i + 1] = AddMonths(start[i], n)
  <2>1. i + 1 \in 0 .. MaxPeriods /\ (i + 1) - 1 = i /\ i + 1 # 0
    BY PeriodsAssumption
  <2>2. start[i + 1] = NextStart(a, n, i, start[i])
    BY <1>2, <2>1
  <2>3. QED
    BY <1>5, <2>2 DEF NextStart, EndOf
<1>6. PICK S : S = {i \in 0 .. MaxPeriods : start[i] \in DateType}
  OBVIOUS
<1>7. 0 \in S
  BY <1>4, <1>6, PeriodsAssumption
<1>8. ASSUME NEW i \in 0 .. MaxPeriods - 1, i \in S PROVE i + 1 \in S
  <2>1. i + 1 \in 0 .. MaxPeriods
    BY PeriodsAssumption
  <2>2. start[i + 1] \in DateType
    BY <1>5, <1>6, <1>8, AddMonthsDate
  <2>3. QED
    BY <1>6, <2>1, <2>2
<1>9. \A i \in 0 .. MaxPeriods : i \in S
  BY <1>7, <1>8, Reached, PeriodsAssumption
<1>10. QED
  BY <1>3, <1>4, <1>5, <1>6, <1>9, PeriodsAssumption

LEMMA BeforeOrder ==
  ASSUME NEW d \in DateType, NEW e \in DateType, NEW f \in DateType
  PROVE  /\ ~Before(d, d)
         /\ ~Before(d, e) /\ ~Before(e, f) => ~Before(d, f)
         /\ Before(d, e) /\ ~Before(f, e) => Before(d, f)
         /\ ~Before(d, e) /\ ~Before(e, d) => d = e
<1>1. /\ d.month \in Int /\ d.day \in Int
      /\ e.month \in Int /\ e.day \in Int
      /\ f.month \in Int /\ f.day \in Int
  BY DEF DateType
<1>2. d.month = e.month /\ d.day = e.day => d = e
  BY DEF DateType
<1>3. QED
  BY <1>1, <1>2 DEF Before

(* No day lies between a day and the next one.                             *)
LEMMA TomorrowNext ==
  ASSUME NEW d, ValidDate(d)
  PROVE  /\ ValidDate(Tomorrow(d))
         /\ Tomorrow(d).month \in {d.month, d.month + 1}
         /\ Before(d, Tomorrow(d))
         /\ \A e : ValidDate(e) /\ Before(d, e) => ~Before(e, Tomorrow(d))
<1>1. d \in DateType /\ d.month \in Int /\ d.day \in 1 .. 31
      /\ d.day <= DaysIn(d.month)
  BY DEF ValidDate, DateType
<1>2. DaysIn(d.month) \in 28 .. 31 /\ DaysIn(d.month + 1) \in 28 .. 31
  BY <1>1, DaysInRange
<1>3. CASE d.day < DaysIn(d.month)
  <2>1. PICK t : t = [d EXCEPT !.day = d.day + 1]
    OBVIOUS
  <2>2. t \in DateType /\ t.month = d.month /\ t.day = d.day + 1
    BY <1>1, <1>2, <1>3, <2>1 DEF DateType
  <2>3. Tomorrow(d) = t
    BY <1>3, <2>1 DEF Tomorrow
  <2>4. t.day <= DaysIn(t.month)
    BY <1>1, <1>2, <1>3, <2>2
  <2>5. ValidDate(t)
    BY <2>2, <2>4 DEF ValidDate
  <2>6. Before(d, t)
    BY <1>1, <2>2 DEF Before
  <2>7. ASSUME NEW e, ValidDate(e), Before(d, e) PROVE ~Before(e, t)
    <3>1. e.month \in Int /\ e.day \in 1 .. 31
      BY <2>7 DEF ValidDate, DateType
    <3>2. QED
      BY <1>1, <2>2, <2>7, <3>1 DEF Before
  <2>8. QED
    BY <2>2, <2>3, <2>5, <2>6, <2>7
<1>4. CASE d.day = DaysIn(d.month)
  <2>1. PICK t : t = [month |-> d.month + 1, day |-> 1]
    OBVIOUS
  <2>2. t \in DateType /\ t.month = d.month + 1 /\ t.day = 1
    BY <1>1, <2>1 DEF DateType
  <2>3. Tomorrow(d) = t
    BY <1>1, <1>2, <1>4, <2>1 DEF Tomorrow
  <2>4. ASSUME NEW e, ValidDate(e), Before(d, e) PROVE ~Before(e, t)
    <3>1. e.month \in Int /\ e.day \in 1 .. 31 /\ e.day <= DaysIn(e.month)
      BY <2>4 DEF ValidDate, DateType
    <3>2. e.month # d.month
      BY <1>1, <1>4, <2>4, <3>1 DEF Before
    <3>3. QED
      BY <1>1, <2>2, <2>4, <3>1, <3>2 DEF Before
  <2>5. t.day <= DaysIn(t.month)
    BY <1>2, <2>2
  <2>6. ValidDate(t)
    BY <2>2, <2>5 DEF ValidDate
  <2>7. Before(d, t)
    BY <1>1, <2>2 DEF Before
  <2>8. QED
    BY <2>2, <2>3, <2>4, <2>6, <2>7
<1>5. QED
  BY <1>1, <1>2, <1>3, <1>4

(* No month is skipped, and a start drifts no further back in its month    *)
(* than the 28th.                                                          *)
LEMMA StartsFit ==
  ASSUME NEW a, ValidDate(a), NEW n \in Nat \ {0}, NEW S, S = Starts(a, n)
  PROVE  \A i \in 0 .. MaxPeriods :
           /\ S[i] \in DateType /\ ValidDate(S[i])
           /\ S[i].month = a.month + i * n
           /\ S[i].day <= a.day
           /\ S[i].day = a.day \/ S[i].day >= 28
<1>1. a \in DateType /\ a.month \in Int /\ a.day \in 1 .. 31
  BY DEF ValidDate, DateType
<1>2. S[0] = a
  BY <1>1, StartsLoop
<1>3. PICK T : T = {i \in 0 .. MaxPeriods :
           /\ S[i] \in DateType /\ ValidDate(S[i])
           /\ S[i].month = a.month + i * n
           /\ S[i].day <= a.day
           /\ S[i].day = a.day \/ S[i].day >= 28}
  OBVIOUS
<1>4. 0 \in T
  <2>1. 0 \in 0 .. MaxPeriods /\ 0 * n = 0
    BY PeriodsAssumption
  <2>2. QED
    BY <1>1, <1>2, <1>3, <2>1
<1>5. ASSUME NEW i \in 0 .. MaxPeriods - 1, i \in T PROVE i + 1 \in T
  <2>1. i + 1 \in 0 .. MaxPeriods /\ i \in 0 .. MaxPeriods
    BY PeriodsAssumption
  <2>2. /\ S[i] \in DateType
        /\ S[i].month = a.month + i * n
        /\ S[i].day <= a.day
        /\ S[i].day = a.day \/ S[i].day >= 28
    BY <1>3, <1>5
  <2>3. S[i + 1] = AddMonths(S[i], n)
    BY <1>1, StartsLoop
  <2>4. /\ S[i + 1] \in DateType /\ ValidDate(S[i + 1])
        /\ S[i + 1].month = S[i].month + n
        /\ S[i + 1].day <= S[i].day
        /\ S[i + 1].day = S[i].day \/ S[i + 1].day >= 28
    <3>1. PICK s \in DateType : s = S[i]
      BY <2>2
    <3>2. PICK t : t = AddMonths(s, n)
      OBVIOUS
    <3>3. /\ t \in DateType /\ ValidDate(t) /\ t.month = s.month + n
          /\ t.day <= s.day
          /\ t.day = s.day \/ t.day >= 28
      BY <3>2, AddMonthsDate
    <3>4. QED
      BY <2>3, <3>1, <3>2, <3>3
  <2>5. i * n \in Int /\ (i + 1) * n = i * n + n
    OBVIOUS
  <2>6. S[i + 1].month = a.month + (i + 1) * n
    <3>1. PICK p \in Int : p = i * n
      BY <2>5
    <3>2. S[i].month = a.month + p /\ (i + 1) * n = p + n
      BY <2>2, <2>5, <3>1
    <3>3. QED
      BY <1>1, <2>4, <3>1, <3>2
  <2>7. S[i].day \in Int /\ S[i + 1].day \in Int
    BY <2>2, <2>4 DEF DateType
  <2>8. /\ S[i + 1].day <= a.day
        /\ S[i + 1].day = a.day \/ S[i + 1].day >= 28
    BY <1>1, <2>2, <2>4, <2>7
  <2>9. QED
    BY <1>3, <2>1, <2>4, <2>6, <2>8
<1>6. \A i \in 0 .. MaxPeriods : i \in T
  BY <1>4, <1>5, Reached, PeriodsAssumption
<1>7. QED
  BY <1>3, <1>6

(* Later periods start in later months.                                    *)
LEMMA StartsGrow ==
  ASSUME NEW a, ValidDate(a), NEW n \in Nat \ {0}, NEW S, S = Starts(a, n),
         NEW i \in 0 .. MaxPeriods, NEW j \in 0 .. MaxPeriods
  PROVE  /\ i < j => S[i].month < S[j].month /\ Before(S[i], S[j])
         /\ i <= j => ~Before(S[j], S[i])
         /\ S[i].month >= a.month + i
<1>1. /\ S[i] \in DateType /\ S[j] \in DateType
      /\ S[i].month = a.month + i * n
      /\ S[j].month = a.month + j * n
  BY StartsFit
<1>2. a.month \in Int
  BY DEF ValidDate, DateType
<1>3. ASSUME NEW k \in Nat PROVE k * n \in Int /\ k * n >= k
  <2>1. k * (n - 1) >= 0
    OBVIOUS
  <2>2. QED
    BY <2>1
<1>4. i \in Nat /\ j \in Nat
  BY PeriodsAssumption
<1>5. ASSUME i < j PROVE S[i].month < S[j].month
  <2>1. j - i \in Nat /\ j - i >= 1
    BY <1>4, <1>5
  <2>2. (j - i) * n >= j - i
    BY <1>3, <2>1
  <2>3. j * n = i * n + (j - i) * n
    BY <1>4
  <2>4. i * n \in Int /\ j * n \in Int /\ (j - i) * n \in Int
    BY <1>4
  <2>5. QED
    BY <1>1, <1>2, <2>1, <2>2, <2>3, <2>4
<1>6. S[i].month \in Int /\ S[j].month \in Int
  BY <1>1 DEF DateType
<1>7. i < j => Before(S[i], S[j]) /\ ~Before(S[j], S[i])
  BY <1>5, <1>6 DEF Before
<1>8. i = j => ~Before(S[j], S[i])
  BY <1>1, BeforeOrder
<1>9. S[i].month >= a.month + i
  BY <1>1, <1>2, <1>3, <1>4
<1>10. QED
  BY <1>4, <1>5, <1>7, <1>8, <1>9

(* A day within one of the periods: periodContaining gives that period.    *)
LEMMA FoundPeriod ==
  ASSUME NEW a, ValidDate(a), NEW n \in Nat \ {0}, NEW S, S = Starts(a, n),
         NEW d \in DateType, NEW i \in 0 .. MaxPeriods - 1,
         ~Before(d, S[i]), Before(d, S[i + 1])
  PROVE  PeriodContaining(a, n, d) = [start |-> S[i], end |-> S[i + 1]]
<1>1. \A j \in 0 .. MaxPeriods : S[j] \in DateType
  BY StartsFit
<1>2. a \in DateType /\ S[0] = a
  BY StartsLoop DEF ValidDate
<1>3. 0 \in 0 .. MaxPeriods /\ i \in 0 .. MaxPeriods /\ i + 1 \in 0 .. MaxPeriods
  BY PeriodsAssumption
<1>4. ~Before(d, a)
  <2>1. ~Before(S[i], a)
    BY <1>2, <1>3, StartsGrow
  <2>2. QED
    BY <1>1, <1>2, <1>3, <2>1, BeforeOrder
<1>5. ASSUME NEW j \in 0 .. MaxPeriods - 1, j < i PROVE ~Before(d, S[j + 1])
  <2>1. j + 1 \in 0 .. MaxPeriods /\ j + 1 <= i
    BY <1>5, PeriodsAssumption
  <2>2. ~Before(S[i], S[j + 1])
    BY <1>3, <2>1, StartsGrow
  <2>3. QED
    BY <1>1, <1>3, <2>1, <2>2, BeforeOrder
<1>6. ASSUME NEW j \in 0 .. MaxPeriods - 1, i < j PROVE Before(d, S[j])
  <2>1. j \in 0 .. MaxPeriods /\ i + 1 <= j
    BY <1>6, PeriodsAssumption
  <2>2. ~Before(S[j], S[i + 1])
    BY <1>3, <2>1, StartsGrow
  <2>3. QED
    BY <1>1, <1>3, <2>1, <2>2, BeforeOrder
<1>7. PICK period : period = [j \in 0 .. MaxPeriods - 1 |->
                                [start |-> S[j], end |-> S[j + 1]]]
  OBVIOUS
<1>8. \A j \in 0 .. MaxPeriods - 1 :
        Within(period[j], d) <=> ~Before(d, S[j]) /\ Before(d, S[j + 1])
  BY <1>7 DEF Within
<1>9. PICK hits : hits = {j \in 0 .. MaxPeriods - 1 : Within(period[j], d)}
  OBVIOUS
<1>10. \A j \in 0 .. MaxPeriods - 1 : j < i \/ j = i \/ i < j
  OBVIOUS
<1>11. hits = {i}
  BY <1>5, <1>6, <1>8, <1>9, <1>10
<1>12. Min(hits) = i
  BY <1>11 DEF Min
<1>13. period[i] = [start |-> S[i], end |-> S[i + 1]]
  BY <1>7
<1>14. PeriodContaining(a, n, d)
         = IF Before(d, a) \/ hits = {} THEN Unresolved ELSE period[Min(hits)]
  BY <1>7, <1>9 DEF PeriodContaining
<1>15. QED
  BY <1>4, <1>11, <1>12, <1>13, <1>14

(* Every day of the calendar is within one of the periods.                 *)
LEMMA SomePeriod ==
  ASSUME NEW a, ValidDate(a), NEW n \in Nat \ {0}, NEW S, S = Starts(a, n),
         NEW d \in DateType, ~Before(d, a), d.month <= a.month + Days
  PROVE  \E i \in 0 .. Days : ~Before(d, S[i]) /\ Before(d, S[i + 1])
<1> SUFFICES ASSUME \A i \in 0 .. Days : ~Before(d, S[i]) => ~Before(d, S[i + 1])
             PROVE  FALSE
  OBVIOUS
<1>1. Days \in Nat /\ Days + 1 \in Nat /\ Days + 1 \in 0 .. MaxPeriods
  BY CalendarAssumption, PeriodsAssumption
<1>2. a \in DateType /\ S[0] = a
  BY StartsLoop DEF ValidDate
<1>3. PICK T : T = {i \in 0 .. Days + 1 : ~Before(d, S[i])}
  OBVIOUS
<1>4. 0 \in T
  BY <1>1, <1>2, <1>3
<1>5. \A i \in 0 .. (Days + 1) - 1 : i \in T => i + 1 \in T
  BY <1>1, <1>3
<1>6. Days + 1 \in T
  <2>1. \A i \in 0 .. Days + 1 : i \in T
    BY <1>1, <1>4, <1>5, Reached
  <2>2. QED
    BY <1>1, <2>1
<1>7. S[Days + 1] \in DateType /\ S[Days + 1].month >= a.month + (Days + 1)
  BY <1>1, StartsFit, StartsGrow
<1>8. a.month \in Int /\ d.month \in Int /\ S[Days + 1].month \in Int
  BY <1>2, <1>7 DEF DateType
<1>9. ~Before(d, S[Days + 1])
  BY <1>3, <1>6
<1>10. QED
  BY <1>1, <1>7, <1>8, <1>9 DEF Before

-----------------------------------------------------------------------------
(* The calendar: the day is one there is, and no further than its bound.   *)
OnCalendar ==
  /\ ValidDate(anchor) /\ ValidDate(date)
  /\ months \in Nat \ {0}
  /\ ~Before(date, anchor)
  /\ date.month <= anchor.month + Days

(* Current(i): the period of the day is the one of index i.                *)
LEMMA CurrentPeriod ==
  ASSUME OnCalendar, NEW S, S = Starts(anchor, months)
  PROVE  \E i \in 0 .. Days :
           /\ ~Before(date, S[i]) /\ Before(date, S[i + 1])
           /\ Current = [start |-> S[i], end |-> S[i + 1]]
           /\ i \in 0 .. MaxPeriods - 1 /\ i + 1 \in 0 .. MaxPeriods - 1
<1>1. date \in DateType
  BY DEF OnCalendar, ValidDate
<1>2. PICK i \in 0 .. Days : ~Before(date, S[i]) /\ Before(date, S[i + 1])
  BY <1>1, SomePeriod DEF OnCalendar
<1>3. i \in 0 .. MaxPeriods - 1 /\ i + 1 \in 0 .. MaxPeriods - 1
  BY CalendarAssumption, PeriodsAssumption
<1>4. Current = [start |-> S[i], end |-> S[i + 1]]
  BY <1>1, <1>2, <1>3, FoundPeriod DEF Current, OnCalendar
<1>5. QED
  BY <1>2, <1>3, <1>4

LEMMA CalendarStarts == CalendarInit => OnCalendar
<1> SUFFICES ASSUME CalendarInit PROVE OnCalendar
  OBVIOUS
<1>1. ValidDate(anchor) /\ date = anchor /\ months \in Nat \ {0}
  BY CalendarAssumption DEF CalendarInit
<1>2. anchor \in DateType /\ anchor.month \in Int
  BY <1>1 DEF ValidDate, DateType
<1>3. ~Before(date, anchor)
  BY <1>1, <1>2, BeforeOrder
<1>4. date.month <= anchor.month + Days
  BY <1>1, <1>2, CalendarAssumption
<1>5. QED
  BY <1>1, <1>3, <1>4 DEF OnCalendar

LEMMA NextDayStays == OnCalendar /\ NextDay => OnCalendar'
<1> SUFFICES ASSUME OnCalendar, NextDay PROVE OnCalendar'
  OBVIOUS
<1>1. PICK t : t = Tomorrow(date)
  OBVIOUS
<1>2. /\ date' = t /\ anchor' = anchor /\ months' = months
      /\ date.month < anchor.month + Days
  BY <1>1 DEF NextDay
<1>3. /\ ValidDate(anchor) /\ ValidDate(date) /\ months \in Nat \ {0}
      /\ ~Before(date, anchor)
  BY DEF OnCalendar
<1>4. /\ ValidDate(t) /\ t.month \in {date.month, date.month + 1}
      /\ Before(date, t)
  BY <1>1, <1>3, TomorrowNext
<1>5. anchor \in DateType /\ date \in DateType /\ t \in DateType
  BY <1>3, <1>4 DEF ValidDate
<1>6. ~Before(t, date)
  <2>1. /\ date.month \in Int /\ date.day \in Int
        /\ t.month \in Int /\ t.day \in Int
    BY <1>5 DEF DateType
  <2>2. QED
    BY <1>4, <2>1 DEF Before
<1>7. ~Before(t, anchor)
  BY <1>3, <1>5, <1>6, BeforeOrder
<1>8. t.month <= anchor.month + Days
  <2>1. date.month \in Int /\ anchor.month \in Int
    BY <1>5 DEF DateType
  <2>2. QED
    BY <1>2, <1>4, <2>1, CalendarAssumption
<1>9. ValidDate(date') /\ ~Before(date', anchor')
      /\ date'.month <= anchor'.month + Days
  BY <1>2, <1>4, <1>7, <1>8
<1>10. ValidDate(anchor') /\ months' \in Nat \ {0}
  BY <1>2, <1>3
<1>11. QED
  BY <1>9, <1>10 DEF OnCalendar

(* The period after the present one is periodContaining's for its own first*)
(* day: carryForward and a later request agree on it.                      *)
LEMMA CarriedPeriod ==
  ASSUME OnCalendar
  PROVE  NextPeriodAgrees
<1>1. PICK S : S = Starts(anchor, months)
  OBVIOUS
<1>2. PICK i \in 0 .. Days :
        /\ Current = [start |-> S[i], end |-> S[i + 1]]
        /\ i \in 0 .. MaxPeriods - 1 /\ i + 1 \in 0 .. MaxPeriods - 1
  BY <1>1, CurrentPeriod
<1>3. PICK j \in 0 .. MaxPeriods - 1 : j = i + 1
  BY <1>2
<1>4. /\ ValidDate(anchor) /\ months \in Nat \ {0}
      /\ anchor \in DateType /\ months \in Nat
  BY DEF OnCalendar, ValidDate
<1>5. j \in 0 .. MaxPeriods /\ j + 1 \in 0 .. MaxPeriods
  BY PeriodsAssumption
<1>6. S[j] \in DateType
  BY <1>1, <1>4, <1>5, StartsFit
<1>7. ~Before(S[j], S[j]) /\ Before(S[j], S[j + 1])
  BY <1>1, <1>4, <1>5, StartsGrow
<1>8. PeriodContaining(anchor, months, S[j]) = [start |-> S[j], end |-> S[j + 1]]
  BY <1>1, <1>4, <1>6, <1>7, FoundPeriod
<1>9. S[j + 1] = AddMonths(S[j], months)
  BY <1>1, <1>4, StartsLoop
<1>10. Current.end = S[j]
  BY <1>2, <1>3
<1>11. QED
  BY <1>8, <1>9, <1>10 DEF NextPeriodAgrees

LEMMA BoundedDrift ==
  ASSUME OnCalendar
  PROVE  DriftBounded
<1>1. PICK S : S = Starts(anchor, months)
  OBVIOUS
<1>2. PICK i \in 0 .. Days :
        /\ Current = [start |-> S[i], end |-> S[i + 1]]
        /\ i \in 0 .. MaxPeriods - 1 /\ i + 1 \in 0 .. MaxPeriods - 1
  BY <1>1, CurrentPeriod
<1>3. PICK s, e : s = S[i] /\ e = S[i + 1]
  OBVIOUS
<1>4. Current.start = s /\ Current.end = e
  BY <1>2, <1>3
<1>5. /\ ValidDate(anchor) /\ months \in Nat \ {0}
      /\ anchor \in DateType /\ months \in Nat
  BY DEF OnCalendar, ValidDate
<1>6. i \in 0 .. MaxPeriods /\ i + 1 \in 0 .. MaxPeriods /\ i \in Nat
  BY <1>2, PeriodsAssumption
<1>7. /\ s \in DateType /\ ValidDate(s)
      /\ s.month = anchor.month + i * months
      /\ s.day <= anchor.day
      /\ s.day = anchor.day \/ s.day >= 28
  BY <1>1, <1>3, <1>5, <1>6, StartsFit
<1>8. e = AddMonths(s, months)
  BY <1>1, <1>2, <1>3, <1>5, StartsLoop
<1>9. e \in DateType /\ ValidDate(e) /\ e.month = s.month + months
  BY <1>5, <1>7, <1>8, AddMonthsDate
<1>10. Current # Unresolved
  <2>1. [start |-> s, end |-> e] \in [start : DateType, end : DateType]
    BY <1>7, <1>9
  <2>2. QED
    BY <1>2, <1>3, <2>1, PeriodsAssumption
<1>11. s.day >= IF anchor.day < 28 THEN anchor.day ELSE 28
  <2>1. s.day \in Int /\ anchor.day \in Int
    BY <1>5, <1>7 DEF DateType
  <2>2. QED
    BY <1>7, <2>1
<1>12. (s.month - anchor.month) % months = 0
  <2>1. anchor.month \in Int /\ i * months \in Int
    BY <1>5, <1>6 DEF DateType
  <2>2. s.month - anchor.month = i * months
    BY <1>7, <2>1
  <2>3. (i * months) % months = 0
    BY <1>5, <1>6
  <2>4. QED
    BY <2>2, <2>3
<1>13. QED
  BY <1>4, <1>7, <1>9, <1>10, <1>11, <1>12 DEF DriftBounded

(* The next day is in the same period, or the first of the next one.       *)
LEMMA NextDayTiles ==
  ASSUME OnCalendar, OnCalendar', NextDay
  PROVE  Current' = Current
           \/ (Current'.start = Current.end /\ date' = Current.end)
<1>1. PICK S : S = Starts(anchor, months)
  OBVIOUS
<1>2. PICK i \in 0 .. Days :
        /\ ~Before(date, S[i]) /\ Before(date, S[i + 1])
        /\ Current = [start |-> S[i], end |-> S[i + 1]]
        /\ i \in 0 .. MaxPeriods - 1 /\ i + 1 \in 0 .. MaxPeriods - 1
  BY <1>1, CurrentPeriod
<1>3. PICK t : t = Tomorrow(date)
  OBVIOUS
<1>4. date' = t /\ anchor' = anchor /\ months' = months
  BY <1>3 DEF NextDay
<1>5. Current' = PeriodContaining(anchor, months, t)
  BY <1>4 DEF Current
<1>6. /\ ValidDate(anchor) /\ months \in Nat \ {0} /\ ValidDate(date)
      /\ date \in DateType
  BY DEF OnCalendar, ValidDate
<1>7. /\ ValidDate(t) /\ t \in DateType /\ Before(date, t)
      /\ \A e : ValidDate(e) /\ Before(date, e) => ~Before(e, t)
  BY <1>3, <1>6, TomorrowNext DEF ValidDate
<1>8. PICK j \in 0 .. MaxPeriods - 1 : j = i + 1
  BY <1>2
<1>9. /\ i \in 0 .. MaxPeriods /\ j \in 0 .. MaxPeriods
      /\ j + 1 \in 0 .. MaxPeriods
  BY <1>2, PeriodsAssumption
<1>10. /\ S[i] \in DateType /\ S[j] \in DateType /\ S[j + 1] \in DateType
       /\ ValidDate(S[j]) /\ Before(S[j], S[j + 1])
  <2>1. \A k \in 0 .. MaxPeriods : S[k] \in DateType /\ ValidDate(S[k])
    BY <1>1, <1>6, StartsFit
  <2>2. Before(S[j], S[j + 1])
    BY <1>1, <1>6, <1>9, StartsGrow
  <2>3. QED
    BY <1>9, <2>1, <2>2
<1>11. CASE Before(t, S[j])
  <2>1. ~Before(t, S[i])
    <3>1. Before(t, S[i]) => Before(date, S[i])
      <4>1. /\ date.month \in Int /\ date.day \in Int
            /\ t.month \in Int /\ t.day \in Int
            /\ S[i].month \in Int /\ S[i].day \in Int
        BY <1>6, <1>7, <1>10 DEF DateType
      <4>2. QED
        BY <1>7, <4>1 DEF Before
    <3>2. QED
      BY <1>2, <3>1
  <2>2. PeriodContaining(anchor, months, t) = [start |-> S[i], end |-> S[i + 1]]
    BY <1>1, <1>2, <1>6, <1>7, <1>8, <1>11, <2>1, FoundPeriod
  <2>3. QED
    BY <1>2, <1>5, <2>2
<1>12. CASE ~Before(t, S[j])
  <2>1. ~Before(S[j], t)
    BY <1>2, <1>7, <1>8, <1>10
  <2>2. t = S[j]
    BY <1>7, <1>10, <1>12, <2>1, BeforeOrder
  <2>3. PeriodContaining(anchor, months, t) = [start |-> S[j], end |-> S[j + 1]]
    BY <1>1, <1>6, <1>7, <1>10, <1>12, <2>2, FoundPeriod
  <2>4. QED
    BY <1>2, <1>4, <1>5, <1>8, <2>2, <2>3
<1>13. QED
  BY <1>11, <1>12

-----------------------------------------------------------------------------
(* The columns, on a server at Greenwich or east of it: the newest row is  *)
(* one of the periods of the calendar.                                     *)
EastOrGreenwich == \A z \in Zones : z >= 0

OnePeriod ==
  \/ newest = NoRow
  \/ \E i \in 0 .. Days :
       newest = [start |-> Starts(anchor, months)[i],
                 end |-> Starts(anchor, months)[i + 1]]

ColumnsInv ==
  /\ OnCalendar
  /\ zone \in Zones
  /\ EastOrGreenwich => OnePeriod

(* A midnight in UTC is the same day where the server runs.                *)
LEMMA RowOfPeriod ==
  ASSUME EastOrGreenwich, zone \in Zones, NEW p \in [start : DateType, end : DateType]
  PROVE  RowOf(p) = p
<1>1. 0 + zone \in Int /\ ~(0 + zone < 0) /\ ~(0 + zone >= 24)
  BY ColumnsAssumption DEF EastOrGreenwich
<1>2. \A d : ToColumn(d, 0) = d
  BY <1>1 DEF ToColumn
<1>3. QED
  BY <1>2 DEF RowOf

LEMMA KeyOfDay ==
  ASSUME EastOrGreenwich, zone \in Zones, NEW d,
         PeriodContaining(anchor, months, d) \in [start : DateType, end : DateType]
  PROVE  KeyOf(d) = PeriodContaining(anchor, months, d)
<1>1. PICK p \in [start : DateType, end : DateType] :
        p = PeriodContaining(anchor, months, d)
  OBVIOUS
<1>2. p # Unresolved /\ RowOf(p) = p
  BY PeriodsAssumption, RowOfPeriod
<1>3. QED
  BY <1>1, <1>2 DEF KeyOf, FromColumn

LEMMA ColumnsStart == ColumnsInit => ColumnsInv
BY CalendarStarts DEF ColumnsInit, ColumnsInv, OnePeriod

(* The rows the seed, openPeriod and carryForward write are periods.       *)
LEMMA PeriodsOpened ==
  ASSUME ColumnsInv, EastOrGreenwich, Seed \/ OpenPeriod \/ CarryForward
  PROVE  OnePeriod'
<1>1. PICK S : S = Starts(anchor, months)
  OBVIOUS
<1>2. /\ OnCalendar /\ zone \in Zones /\ ValidDate(anchor) /\ ValidDate(date)
      /\ months \in Nat \ {0} /\ months \in Nat
      /\ anchor \in DateType /\ date \in DateType
      /\ date.month <= anchor.month + Days
  BY DEF ColumnsInv, OnCalendar, ValidDate
<1>3. anchor' = anchor /\ months' = months
  BY DEF Seed, OpenPeriod, CarryForward, calendar
<1>4. \A k \in 0 .. MaxPeriods : S[k] \in DateType
  BY <1>1, <1>2, StartsFit
<1>5. SUFFICES \E i \in 0 .. Days : newest' = [start |-> S[i], end |-> S[i + 1]]
  BY <1>1, <1>3 DEF OnePeriod
<1>6. CASE Seed
  BY <1>1, <1>2, <1>6, CurrentPeriod DEF Seed
<1>7. CASE OpenPeriod
  <2>1. PICK i \in 0 .. Days :
          /\ Current = [start |-> S[i], end |-> S[i + 1]]
          /\ i \in 0 .. MaxPeriods - 1
    BY <1>1, <1>2, CurrentPeriod
  <2>2. i \in 0 .. MaxPeriods /\ i + 1 \in 0 .. MaxPeriods
    BY <2>1, PeriodsAssumption
  <2>3. Current \in [start : DateType, end : DateType]
    BY <1>4, <2>1, <2>2
  <2>4. newest' = Current
    BY <1>2, <1>7, <2>3, KeyOfDay DEF OpenPeriod, Current
  <2>5. QED
    BY <2>1, <2>4
<1>8. CASE CarryForward
  <2>1. PICK i \in 0 .. Days : newest = [start |-> S[i], end |-> S[i + 1]]
    BY <1>1, <1>8 DEF ColumnsInv, OnePeriod, CarryForward
  <2>2. PICK j : j = i + 1
    OBVIOUS
  <2>3. /\ j \in 0 .. MaxPeriods - 1 /\ j \in 0 .. MaxPeriods
        /\ j + 1 \in 0 .. MaxPeriods
    BY <2>2, CalendarAssumption, PeriodsAssumption
  <2>4. /\ newest.end = S[j] /\ ~Before(date, S[j])
        /\ newest' = RowOf([start |-> S[j], end |-> AddMonths(S[j], months)])
    BY <1>8, <2>1, <2>2 DEF CarryForward, FromColumn
  <2>5. S[j + 1] = AddMonths(S[j], months)
    BY <1>1, <1>2, <2>3, StartsLoop
  <2>6. newest' = [start |-> S[j], end |-> S[j + 1]]
    BY <1>2, <1>4, <2>3, <2>4, <2>5, RowOfPeriod
  <2>7. j \in 0 .. Days
    <3>1. S[j].month >= anchor.month + j
      BY <1>1, <1>2, <2>3, StartsGrow
    <3>2. /\ S[j].month \in Int /\ anchor.month \in Int /\ date.month \in Int
      BY <1>2, <1>4, <2>3 DEF DateType
    <3>3. S[j].month <= date.month
      BY <2>4, <3>2 DEF Before
    <3>4. QED
      BY <1>2, <2>3, <3>1, <3>2, <3>3, CalendarAssumption
  <2>8. QED
    BY <2>6, <2>7
<1>9. QED
  BY <1>6, <1>7, <1>8

LEMMA ColumnsStep ==
  ColumnsInv /\ [ColumnsNext]_<<calendar, columns>> => ColumnsInv'
<1> SUFFICES ASSUME ColumnsInv, [ColumnsNext]_<<calendar, columns>>
             PROVE  ColumnsInv'
  OBVIOUS
<1>1. OnCalendar /\ zone \in Zones
  BY DEF ColumnsInv
<1>2. CASE Seed \/ OpenPeriod \/ CarryForward
  <2>1. UNCHANGED <<calendar, zone>>
    BY <1>2 DEF Seed, OpenPeriod, CarryForward
  <2>2. OnCalendar' /\ zone' \in Zones
    BY <1>1, <2>1 DEF OnCalendar, calendar
  <2>3. EastOrGreenwich => OnePeriod'
    BY <1>2, PeriodsOpened
  <2>4. QED
    BY <2>2, <2>3 DEF ColumnsInv, EastOrGreenwich
<1>3. CASE Midnight
  <2>1. NextDay /\ zone' = zone /\ newest' = newest
    BY <1>3 DEF Midnight, columns
  <2>2. OnCalendar'
    BY <1>1, <2>1, NextDayStays
  <2>3. anchor' = anchor /\ months' = months
    BY <2>1 DEF NextDay
  <2>4. EastOrGreenwich => OnePeriod'
    BY <2>1, <2>3 DEF ColumnsInv, OnePeriod
  <2>5. QED
    BY <1>1, <2>1, <2>2, <2>4 DEF ColumnsInv, EastOrGreenwich
<1>4. CASE UNCHANGED <<calendar, columns>>
  BY <1>4 DEF ColumnsInv, OnCalendar, OnePeriod, EastOrGreenwich, calendar, columns
<1>5. QED
  BY <1>2, <1>3, <1>4 DEF ColumnsNext

LEMMA ColumnsInvariant == ColumnsSpec => []ColumnsInv
BY ColumnsStart, ColumnsStep, PTL DEF ColumnsSpec

(* Whatever the hire date and the length of the periods, no day falls      *)
(* between two periods of accrual.ts or into both.                         *)
THEOREM PeriodsMeet == ColumnsSpec => PeriodsTile
<1>1. ColumnsInv /\ ColumnsInv' /\ [ColumnsNext]_<<calendar, columns>>
        => [Current' = Current
             \/ (Current'.start = Current.end /\ date' = Current.end)]_calendar
  <2> SUFFICES ASSUME ColumnsInv, ColumnsInv', [ColumnsNext]_<<calendar, columns>>,
                      ~UNCHANGED calendar
               PROVE  Current' = Current
                        \/ (Current'.start = Current.end /\ date' = Current.end)
    OBVIOUS
  <2>1. NextDay
    BY DEF ColumnsNext, Seed, OpenPeriod, CarryForward, Midnight, calendar, columns
  <2>2. QED
    BY <2>1, NextDayTiles DEF ColumnsInv
<1>2. QED
  BY <1>1, ColumnsInvariant, PTL DEF ColumnsSpec, PeriodsTile

(* The period carryForward opens is the one a request of its days resolves *)
(* to, for any hire date and any length of the periods.                    *)
THEOREM CarriedPeriodAgrees == ColumnsSpec => []NextPeriodAgrees
BY ColumnsInvariant, CarriedPeriod, PTL DEF ColumnsInv

(* Every day of the calendar has its period, and however many months ends  *)
(* are clamped, no start drifts further back than the 28th.                *)
THEOREM DriftIsBounded == ColumnsSpec => []DriftBounded
BY ColumnsInvariant, BoundedDrift, PTL DEF ColumnsInv

(* At Greenwich or east of it a day within a balance row finds that row,   *)
(* whoever wrote it and whether the day was stored in between.             *)
THEOREM RowsAreFound ==
  EastOrGreenwich => (ColumnsSpec => []RequestsFindRow)
<1> SUFFICES ASSUME EastOrGreenwich PROVE ColumnsSpec => []RequestsFindRow
  OBVIOUS
<1>1. ColumnsInv => RequestsFindRow
  <2> SUFFICES ASSUME ColumnsInv, newest # NoRow, Within(newest, date)
               PROVE  /\ KeyOf(date) = newest
                      /\ \A hour \in Hours : hour + zone \in 0 .. 23 =>
                           KeyOf(StoredDay(date, hour)) = newest
    BY DEF RequestsFindRow
  <2>1. PICK S : S = Starts(anchor, months)
    OBVIOUS
  <2>2. PICK i \in 0 .. Days : newest = [start |-> S[i], end |-> S[i + 1]]
    BY <2>1 DEF ColumnsInv, OnePeriod
  <2>3. /\ OnCalendar /\ zone \in Zones /\ ValidDate(anchor)
        /\ months \in Nat \ {0} /\ date \in DateType
    BY DEF ColumnsInv, OnCalendar, ValidDate
  <2>4. /\ i \in 0 .. MaxPeriods - 1 /\ i \in 0 .. MaxPeriods
        /\ i + 1 \in 0 .. MaxPeriods
    BY CalendarAssumption, PeriodsAssumption
  <2>5. ~Before(date, S[i]) /\ Before(date, S[i + 1])
    BY <2>2 DEF Within
  <2>6. PeriodContaining(anchor, months, date) = newest
    BY <2>1, <2>2, <2>3, <2>4, <2>5, FoundPeriod
  <2>7. newest \in [start : DateType, end : DateType]
    BY <2>1, <2>2, <2>3, <2>4, StartsFit
  <2>8. KeyOf(date) = newest
    BY <2>3, <2>6, <2>7, KeyOfDay
  <2>9. ASSUME NEW hour \in Hours, hour + zone \in 0 .. 23
        PROVE  StoredDay(date, hour) = date
    <3>1. hour + zone \in Int /\ ~(hour + zone < 0) /\ ~(hour + zone >= 24)
      BY <2>9
    <3>2. QED
      BY <3>1 DEF StoredDay, FromColumn, ToColumn
  <2>10. QED
    BY <2>8, <2>9
<1>2. QED
  BY <1>1, ColumnsInvariant, PTL
=============================================================================
