------------------------- MODULE ReferenceDataProofs -------------------------
(***************************************************************************)
(* Proofs about ReferenceData, for any number of calls, employees, leave   *)
(* types and policies: the look-ups cover the unique keys, so that only a  *)
(* race is refused by the database; and the dashboard shows the balance of *)
(* the latest policy in force, whatever the order of the rows.             *)
(***************************************************************************)
EXTENDS ReferenceData, FiniteSetTheorems, TLAPS

-----------------------------------------------------------------------------
(* Induction up to a bound, on a set of numbers.  A number that is missing *)
(* would have a smaller one missing before it, so the missing ones would   *)
(* be as many as those among them that are below the bound.                *)

LEMMA Reached ==
  ASSUME NEW N \in Nat, NEW S, 0 \in S,
         \A i \in 0 .. N - 1 : i \in S => i + 1 \in S
  PROVE  \A n \in 0 .. N : n \in S
<1> SUFFICES ASSUME NEW n \in 0 .. N, n \notin S PROVE FALSE
  OBVIOUS
<1>1. PICK T : T = {i \in 0 .. n : i \notin S}
  OBVIOUS
<1>2. T \in SUBSET (0 .. n) /\ n \in T
  BY <1>1
<1>3. ASSUME NEW i \in T PROVE i \in Nat /\ i - 1 \in T \ {n}
  <2>1. i \in 0 .. n /\ i # 0 /\ i \notin S
    BY <1>1, <1>3
  <2>2. i - 1 \in 0 .. N - 1 /\ (i - 1) + 1 = i
    BY <2>1
  <2>3. i - 1 \notin S
    BY <2>1, <2>2
  <2>4. QED
    BY <1>1, <2>1, <2>3
<1>4. IsFiniteSet(T)
  <2>1. 0 \in Int /\ n \in Int
    OBVIOUS
  <2>2. IsFiniteSet(0 .. n)
    BY <2>1, FS_Interval
  <2>3. QED
    BY <1>2, <2>2, FS_Subset
<1>5. /\ IsFiniteSet(T \ {n})
      /\ Cardinality(T \ {n}) = Cardinality(T) - 1
      /\ Cardinality(T) \in Nat
  BY <1>2, <1>4, FS_RemoveElement, FS_CardinalityType
<1>6. PICK f : f = [i \in T |-> i - 1]
  OBVIOUS
<1>7. f \in [T -> T \ {n}]
  BY <1>3, <1>6
<1>8. Cardinality(T \ {n}) < Cardinality(T)
  BY <1>5
<1>9. \E i, j \in T : i # j /\ f[i] = f[j]
  BY <1>4, <1>5, <1>7, <1>8, FS_PigeonHole
<1>10. QED
  BY <1>3, <1>6, <1>9

(* The loop of getCurrentBalances, as a function of the rows it has read.  *)
LEMMA LoopExists ==
  ASSUME NEW k, NEW day, NEW rows, NEW N \in Nat
  PROVE  \E best : best = [n \in 0 .. N |->
           IF n = 0 THEN None ELSE Take(k, day, best[n - 1], rows[n])]
<1>1. PICK S : S = {m \in 0 .. N : \E best : best = [n \in 0 .. m |->
                IF n = 0 THEN None ELSE Take(k, day, best[n - 1], rows[n])]}
  OBVIOUS
<1>2. 0 \in S
  <2>1. PICK best : best = [n \in 0 .. 0 |-> None]
    OBVIOUS
  <2>2. best = [n \in 0 .. 0 |->
                  IF n = 0 THEN None ELSE Take(k, day, best[n - 1], rows[n])]
    BY <2>1
  <2>3. QED
    BY <1>1, <2>2
<1>3. ASSUME NEW m \in 0 .. N - 1, m \in S PROVE m + 1 \in S
  <2>1. PICK g : g = [n \in 0 .. m |->
                  IF n = 0 THEN None ELSE Take(k, day, g[n - 1], rows[n])]
    BY <1>1, <1>3
  <2>2. PICK last : last = Take(k, day, g[m], rows[m + 1])
    OBVIOUS
  <2>3. PICK best : best = [n \in 0 .. m + 1 |-> IF n <= m THEN g[n] ELSE last]
    OBVIOUS
  <2>4. ASSUME NEW n \in 0 .. m + 1
        PROVE  best[n] = IF n = 0 THEN None ELSE Take(k, day, best[n - 1], rows[n])
    <3>1. CASE n = 0
      <4>1. best[0] = g[0] /\ g[0] = None
        BY <2>1, <2>3
      <4>2. QED
        BY <3>1, <4>1
    <3>2. CASE n \in 1 .. m
      <4>1. best[n] = g[n] /\ best[n - 1] = g[n - 1]
        BY <2>3, <3>2
      <4>2. g[n] = Take(k, day, g[n - 1], rows[n])
        BY <2>1, <3>2
      <4>3. QED
        BY <3>2, <4>1, <4>2
    <3>3. CASE n = m + 1
      <4>1. best[n] = last /\ best[n - 1] = g[m]
        BY <2>3, <3>3
      <4>2. QED
        BY <2>2, <3>3, <4>1
    <3>4. QED
      BY <3>1, <3>2, <3>3
  <2>5. best = [n \in 0 .. m + 1 |->
                  IF n = 0 THEN None ELSE Take(k, day, best[n - 1], rows[n])]
    BY <2>3, <2>4
  <2>6. QED
    BY <1>1, <1>3, <2>5
<1>4. N \in S
  BY <1>2, <1>3, Reached
<1>5. QED
  BY <1>1, <1>4

LEMMA EffectiveLoop ==
  ASSUME NEW k, NEW day, NEW rows, Len(rows) \in Nat
  PROVE  \E best :
           /\ best[0] = None
           /\ \A n \in 1 .. Len(rows) :
                best[n] = Take(k, day, best[n - 1], rows[n])
           /\ Effective(k, day, rows) = best[Len(rows)]
<1>1. PICK best : best = CHOOSE f : f = [n \in 0 .. Len(rows) |->
          IF n = 0 THEN None ELSE Take(k, day, f[n - 1], rows[n])]
  OBVIOUS
<1>2. best = [n \in 0 .. Len(rows) |->
          IF n = 0 THEN None ELSE Take(k, day, best[n - 1], rows[n])]
  BY <1>1, LoopExists
<1>3. Effective(k, day, rows) = best[Len(rows)]
  BY <1>1 DEF Effective
<1>4. QED
  BY <1>2, <1>3

(* Latest(p, rows, k, day): the choice the loop is to make among rows.     *)
Candidates(S, k, day) == {q \in S : q.code = k /\ InForce(q, day)}

Latest(p, S, k, day) ==
  /\ p = None <=> Candidates(S, k, day) = {}
  /\ p # None => /\ p \in Candidates(S, k, day)
                 /\ \A q \in Candidates(S, k, day) : q.from <= p.from

LEMMA TakeLatest ==
  ASSUME NEW S \in SUBSET Policy, NEW q \in Policy, NEW k, NEW day, NEW p,
         Latest(p, S, k, day)
  PROVE  Latest(Take(k, day, p, q), S \cup {q}, k, day)
<1>1. \A r \in Policy : r # None /\ r.from \in Nat
  BY ReferenceAssumption DEF Policy
<1>2. CASE ~(q.code = k /\ InForce(q, day))
  <2>1. Take(k, day, p, q) = p
    BY <1>2 DEF Take
  <2>2. Candidates(S \cup {q}, k, day) = Candidates(S, k, day)
    BY <1>2 DEF Candidates
  <2>3. QED
    BY <2>1, <2>2 DEF Latest
<1>3. CASE q.code = k /\ InForce(q, day)
  <2>1. /\ Candidates(S \cup {q}, k, day) = Candidates(S, k, day) \cup {q}
        /\ Candidates(S, k, day) \subseteq Policy
    BY <1>3 DEF Candidates
  <2>2. CASE p = None
    <3>1. Take(k, day, p, q) = q /\ Candidates(S, k, day) = {}
      BY <1>3, <2>2 DEF Take, Latest
    <3>2. Candidates(S \cup {q}, k, day) = {q}
      BY <2>1, <3>1
    <3>3. q # None /\ q.from <= q.from
      BY <1>1
    <3>4. QED
      BY <3>1, <3>2, <3>3 DEF Latest
  <2>3. CASE p # None /\ q.from > p.from
    <3>1. Take(k, day, p, q) = q
      BY <1>3, <2>3 DEF Take
    <3>2. /\ p \in Policy
          /\ \A r \in Candidates(S, k, day) : r \in Policy /\ r.from <= p.from
      BY <2>1, <2>3 DEF Latest
    <3>3. \A r \in Candidates(S, k, day) \cup {q} : r.from <= q.from
      BY <1>1, <2>3, <3>2
    <3>4. QED
      BY <1>1, <2>1, <3>1, <3>3 DEF Latest
  <2>4. CASE p # None /\ ~(q.from > p.from)
    <3>1. Take(k, day, p, q) = p
      BY <2>4 DEF Take
    <3>2. /\ p \in Candidates(S, k, day) /\ p \in Policy
          /\ \A r \in Candidates(S, k, day) : r.from <= p.from
      BY <2>1, <2>4 DEF Latest
    <3>3. q.from <= p.from
      BY <1>1, <2>4, <3>2
    <3>4. QED
      BY <2>1, <2>4, <3>1, <3>2, <3>3 DEF Latest
  <2>5. QED
    BY <2>2, <2>3, <2>4
<1>4. QED
  BY <1>2, <1>3

(* findAll returns every row once, in some order.                          *)
LEMMA RowsAreAll ==
  ASSUME NEW S, IsFiniteSet(S), NEW rows \in SetToSeqs(S)
  PROVE  /\ Len(rows) = Cardinality(S) /\ Len(rows) \in Nat
         /\ rows \in [1 .. Len(rows) -> S]
         /\ {rows[i] : i \in 1 .. Len(rows)} = S
<1>1. PICK N : N = Cardinality(S)
  OBVIOUS
<1>2. N \in Nat
  BY <1>1, FS_CardinalityType
<1>3. rows \in [1 .. N -> S] /\ \A i, j \in 1 .. N : i # j => rows[i] # rows[j]
  BY <1>1 DEF SetToSeqs
<1>4. Len(rows) = N
  BY <1>2, <1>3
<1>5. 1 \in Int /\ N \in Int
  BY <1>2
<1>6. IsFiniteSet(1 .. N) /\ Cardinality(1 .. N) = N
  BY <1>2, <1>5, FS_Interval
<1>7. rows \in Injection(1 .. N, S)
  BY <1>3 DEF Injection, IsInjective
<1>8. rows \in Surjection(1 .. N, S)
  BY <1>1, <1>6, <1>7, FS_Injection
<1>9. {rows[i] : i \in 1 .. N} = S
  BY <1>3, <1>8 DEF Surjection
<1>10. QED
  BY <1>1, <1>2, <1>3, <1>4, <1>9

LEMMA EffectiveLatest ==
  ASSUME NEW S \in SUBSET Policy, IsFiniteSet(S), NEW rows \in SetToSeqs(S),
         NEW k, NEW day
  PROVE  Latest(Effective(k, day, rows), S, k, day)
<1>1. /\ Len(rows) \in Nat /\ rows \in [1 .. Len(rows) -> S]
      /\ {rows[i] : i \in 1 .. Len(rows)} = S
  BY RowsAreAll
<1>2. PICK N \in Nat : N = Len(rows)
  BY <1>1
<1>3. PICK best : /\ best[0] = None
                  /\ \A n \in 1 .. N :
                       best[n] = Take(k, day, best[n - 1], rows[n])
                  /\ Effective(k, day, rows) = best[N]
  BY <1>2, EffectiveLoop
<1>4. PICK first : first = [n \in 0 .. N |-> {rows[i] : i \in 1 .. n}]
  OBVIOUS
<1>5. PICK T : T = {n \in 0 .. N : Latest(best[n], first[n], k, day)}
  OBVIOUS
<1>6. 0 \in T
  <2>1. first[0] = {}
    BY <1>4
  <2>2. Candidates({}, k, day) = {}
    BY DEF Candidates
  <2>3. Latest(best[0], first[0], k, day)
    BY <1>3, <2>1, <2>2 DEF Latest
  <2>4. QED
    BY <1>5, <2>3
<1>7. ASSUME NEW n \in 0 .. N - 1, n \in T PROVE n + 1 \in T
  <2>1. first[n] \in SUBSET Policy /\ rows[n + 1] \in Policy
    BY <1>1, <1>2, <1>4
  <2>2. first[n + 1] = first[n] \cup {rows[n + 1]}
    BY <1>4
  <2>3. Latest(best[n], first[n], k, day)
    BY <1>5, <1>7
  <2>4. best[n + 1] = Take(k, day, best[n], rows[n + 1])
    BY <1>3
  <2>5. Latest(best[n + 1], first[n + 1], k, day)
    BY <2>1, <2>2, <2>3, <2>4, TakeLatest
  <2>6. n + 1 \in 0 .. N
    BY <1>7
  <2>7. QED
    BY <1>5, <2>5, <2>6
<1>8. N \in T
  BY <1>6, <1>7, Reached
<1>9. QED
  BY <1>1, <1>2, <1>3, <1>4, <1>5, <1>8

-----------------------------------------------------------------------------
(* The inductive invariant                                                 *)

(* A call at a look-up or at its INSERT has passed the look-ups before it, *)
(* and what they found free is free, or another call has taken it since.   *)
LookedUp(c) ==
  /\ call[c].pc \in {"number", "email"} => call[c].kind = "employee"
  /\ call[c].pc = "code" => call[c].kind \in {"leaveType", "policy"}
  /\ call[c].pc = "insert" => call[c].kind \in {"employee", "leaveType", "policy"}
  /\ c \notin overtaken =>
       /\ call[c].pc = "email" => <<"number", call[c].input.number>> \notin Taken
       /\ call[c].pc = "insert" => Free(c)
  /\ call[c].pc = "insert" /\ call[c].kind = "policy" =>
       call[c].input.code \in leaveTypes

(* The policies a dashboard goes on with are rows, each of its own type.   *)
Chosen(c) ==
  \A k \in Codes : call[c].inForce[k] # None => call[c].inForce[k] \in PoliciesOf(k)

(* Rows are never removed, so what was shown can still be booked.          *)
ShownIsBooked ==
  /\ shown = [k \in Codes |-> shown[k]]
  /\ \A k \in Codes : shown[k] # None =>
       shown[k].period \in BookingPeriods(k, shown[k].day) \cap balances

ReferenceInv ==
  /\ IsFiniteSet(policies) /\ policies \subseteq Proposals
  /\ today \in Nat /\ call \in [Calls -> Call]
  /\ \A c \in Calls :
       call[c].pc # "idle" /\ call[c].kind = "policy" => call[c].input \in Proposals
  /\ \A c \in Calls : LookedUp(c) /\ Chosen(c)
  /\ RefusalsAreRaces
  /\ ShownIsBooked

(* A step of one call leaves what the others have found as it was, but for *)
(* the keys it takes.                                                      *)
LEMMA OthersKeep ==
  ASSUME ReferenceInv, NEW x \in Calls, call'[x] = call[x], NEW K,
         Taken' \subseteq Taken \cup K,
         x \notin overtaken' =>
           x \notin overtaken /\ Keys(call[x].kind, call[x].input) \cap K = {},
         leaveTypes \subseteq leaveTypes', policies \subseteq policies'
  PROVE  LookedUp(x)' /\ Chosen(x)'
<1>1. LookedUp(x) /\ Chosen(x)
  BY DEF ReferenceInv
<1>2. Chosen(x)'
  BY <1>1 DEF Chosen, PoliciesOf
<1>3. x \notin overtaken' /\ call[x].pc = "email" =>
        <<"number", call[x].input.number>> \notin Taken'
  <2>1. call[x].kind = "employee" =>
          <<"number", call[x].input.number>> \in Keys(call[x].kind, call[x].input)
    BY DEF Keys
  <2>2. QED
    BY <1>1, <2>1 DEF LookedUp
<1>4. x \notin overtaken' /\ call[x].pc = "insert" => Free(x)'
  <2>1. x \notin overtaken' /\ call[x].pc = "insert" =>
          Keys(call[x].kind, call[x].input) \cap Taken' = {}
    BY <1>1 DEF LookedUp, Free
  <2>2. QED
    BY <2>1 DEF Free
<1>5. QED
  BY <1>1, <1>2, <1>3, <1>4 DEF LookedUp

(* A step that leaves the tables alone, with d in place of the call.       *)
LEMMA QuietStep ==
  ASSUME ReferenceInv, NEW c \in Calls, NEW d \in Call,
         call' = [call EXCEPT ![c] = d],
         d.pc # "idle" /\ d.kind = "policy" => d.input \in Proposals,
         UNCHANGED <<tables, balances, today>>,
         \A x \in Calls \ {c} : x \in overtaken' <=> x \in overtaken,
         LookedUp(c)', Chosen(c)', RefusalsAreRaces', ShownIsBooked'
  PROVE  ReferenceInv'
<1>1. /\ call \in [Calls -> Call]
      /\ call' \in [Calls -> Call] /\ call'[c] = d
      /\ \A x \in Calls \ {c} : call'[x] = call[x]
  BY DEF ReferenceInv
<1>2. UNCHANGED <<employees, leaveTypes, policies>>
  BY DEF tables
<1>3. Taken' = Taken
  BY <1>2 DEF Taken
<1>4. ASSUME NEW x \in Calls \ {c} PROVE LookedUp(x)' /\ Chosen(x)'
  <2>1. PICK K : K = {}
    OBVIOUS
  <2>2. QED
    BY <1>1, <1>2, <1>3, <2>1, OthersKeep
<1>5. \A x \in Calls : call'[x].pc # "idle" /\ call'[x].kind = "policy" =>
                           call'[x].input \in Proposals
  BY <1>1 DEF ReferenceInv
<1>6. QED
  BY <1>1, <1>2, <1>4, <1>5 DEF ReferenceInv

LEMMA IdleFits ==
  ASSUME NEW c \in Calls, call'[c] = Idle
  PROVE  LookedUp(c)' /\ Chosen(c)'
BY DEF Idle, LookedUp, Chosen

LEMMA IdleCall == Idle \in Call /\ Idle.pc = "idle"
BY DEF Idle, Call

LEMMA ShownStays ==
  ASSUME ReferenceInv, UNCHANGED shown, policies \subseteq policies',
         balances \subseteq balances'
  PROVE  ShownIsBooked'
<1>1. ShownIsBooked
  BY DEF ReferenceInv
<1>2. ASSUME NEW k \in Codes, shown'[k] # None
      PROVE  shown'[k].period \in BookingPeriods(k, shown[k].day)' \cap balances'
  <2>1. shown[k].period \in BookingPeriods(k, shown[k].day) \cap balances
    BY <1>1, <1>2 DEF ShownIsBooked
  <2>2. PoliciesOf(k) \subseteq PoliciesOf(k)'
    BY DEF PoliciesOf
  <2>3. PICK p \in PoliciesOf(k) : shown[k].period = PeriodOf(p, shown[k].day)
    BY <2>1 DEF BookingPeriods
  <2>4. shown[k].period \in BookingPeriods(k, shown[k].day)'
    BY <2>2, <2>3 DEF BookingPeriods
  <2>5. QED
    BY <2>1, <2>4
<1>3. QED
  BY <1>1, <1>2 DEF ShownIsBooked

(* A call that ends or fails without a row.                                *)
LEMMA EndStep ==
  ASSUME ReferenceInv, NEW c \in Calls,
         call' = [call EXCEPT ![c] = Idle],
         UNCHANGED <<tables, balances, today, shown, overtaken>>,
         RefusalsAreRaces'
  PROVE  ReferenceInv'
<1>1. call'[c] = Idle
  BY DEF ReferenceInv
<1>2. LookedUp(c)' /\ Chosen(c)'
  BY <1>1, IdleFits
<1>3. ShownIsBooked'
  BY ShownStays DEF tables
<1>4. QED
  BY <1>2, <1>3, IdleCall, QuietStep

LEMMA BeginStep ==
  ASSUME ReferenceInv, NEW c \in Calls, NEW kind, NEW input, NEW step,
         Begin(c, kind, input, step),
         \/ kind = "employee" /\ step = "number" /\ input \in Hires
         \/ kind = "leaveType" /\ step = "code" /\ input \in Codes
         \/ kind = "policy" /\ step = "code" /\ input \in Proposals
         \/ kind = "dashboard" /\ step = "policies" /\ input = None
  PROVE  ReferenceInv'
<1>1. PICK d : d = [Idle EXCEPT !.pc = step, !.kind = kind, !.input = input]
  OBVIOUS
<1>2. /\ d.pc = step /\ d.kind = kind /\ d.input = input
      /\ d.inForce = [k \in Codes |-> None] /\ d \in Call
  BY <1>1 DEF Idle, Call, Kinds
<1>3. /\ call' = [call EXCEPT ![c] = d]
      /\ overtaken' = overtaken \ {c} /\ failed' = failed \ {c}
      /\ UNCHANGED <<tables, balances, today, shown>>
  BY <1>1 DEF Begin
<1>4. call'[c] = d
  BY <1>3 DEF ReferenceInv
<1>5. LookedUp(c)' /\ Chosen(c)'
  BY <1>2, <1>4 DEF LookedUp, Chosen
<1>6. RefusalsAreRaces'
  BY <1>3 DEF ReferenceInv, RefusalsAreRaces
<1>7. ShownIsBooked'
  BY <1>3, ShownStays DEF tables
<1>8. QED
  BY <1>2, <1>3, <1>5, <1>6, <1>7, QuietStep

LEMMA LookUpStep ==
  ASSUME ReferenceInv, NEW c \in Calls, NEW found \in BOOLEAN, NEW pc, NEW next,
         LookUp(c, pc, found, next),
         \/ /\ pc = "number" /\ next = "email"
            /\ found => <<"number", call[c].input.number>> \notin Taken
         \/ /\ pc = "email" /\ next = "insert"
            /\ found => <<"email", call[c].input.email>> \notin Taken
         \/ /\ pc = "code" /\ next = "insert" /\ call[c].kind = "leaveType"
            /\ found => call[c].input \notin leaveTypes
         \/ /\ pc = "code" /\ next = "insert" /\ call[c].kind = "policy"
            /\ found => call[c].input.code \in leaveTypes
  PROVE  ReferenceInv'
<1>1. PICK d : d = [call[c] EXCEPT !.pc = next]
  OBVIOUS
<1>2. /\ call[c].pc = pc
      /\ call' = [call EXCEPT ![c] = IF found THEN d ELSE Idle]
      /\ UNCHANGED <<tables, balances, today, shown, history>>
  BY <1>1 DEF LookUp
<1>3. UNCHANGED <<employees, leaveTypes, policies, overtaken, failed>>
  BY <1>2 DEF tables, history
<1>4. RefusalsAreRaces'
  BY <1>3 DEF ReferenceInv, RefusalsAreRaces
<1>5. CASE ~found
  BY <1>2, <1>3, <1>4, <1>5, EndStep
<1>6. CASE found
  <2>1. call[c] \in Call /\ LookedUp(c) /\ Chosen(c)
    BY DEF ReferenceInv
  <2>2. /\ d.pc = next /\ d.kind = call[c].kind /\ d.input = call[c].input
        /\ d.inForce = call[c].inForce /\ d \in Call
    BY <1>1, <2>1 DEF Call
  <2>3. call' = [call EXCEPT ![c] = d] /\ call'[c] = d
    BY <1>2, <1>6 DEF ReferenceInv
  <2>4. Chosen(c)'
    BY <1>3, <2>1, <2>2, <2>3 DEF Chosen, PoliciesOf
  <2>5. Taken' = Taken
    BY <1>3 DEF Taken
  <2>6. next = "insert" => Free(c)' \/ c \in overtaken
    <3>1. CASE pc = "email" /\ c \notin overtaken
      <4>1. /\ call[c].kind = "employee"
            /\ <<"number", call[c].input.number>> \notin Taken
        BY <1>2, <2>1, <3>1 DEF LookedUp
      <4>2. <<"email", call[c].input.email>> \notin Taken
        BY <1>6, <3>1
      <4>3. Keys(d.kind, d.input) \cap Taken = {}
        BY <2>2, <4>1, <4>2 DEF Keys
      <4>4. QED
        BY <2>3, <2>5, <4>3 DEF Free
    <3>2. CASE pc = "code" /\ call[c].kind = "leaveType"
      <4>1. <<"code", call[c].input>> \notin Taken
        <5>1. /\ \A e : Keys("employee", e)
                           = {<<"number", e.number>>, <<"email", e.email>>}
              /\ \A k : Keys("leaveType", k) = {<<"code", k>>}
          BY DEF Keys
        <5>2. \A e : <<"code", call[c].input>> \notin Keys("employee", e)
          <6>1. \A x, y : <<"code", x>> # <<"number", y>> /\ <<"code", x>> # <<"email", y>>
            OBVIOUS
          <6>2. QED
            BY <5>1, <6>1
        <5>3. \A k \in leaveTypes : <<"code", call[c].input>> \notin Keys("leaveType", k)
          BY <1>6, <3>2, <5>1
        <5>4. QED
          BY <5>2, <5>3 DEF Taken
      <4>2. Keys(d.kind, d.input) \cap Taken = {}
        BY <2>2, <3>2, <4>1 DEF Keys
      <4>3. QED
        BY <2>3, <2>5, <4>2 DEF Free
    <3>3. CASE pc = "code" /\ call[c].kind = "policy"
      <4>1. Keys(d.kind, d.input) = {}
        BY <2>2, <3>3 DEF Keys
      <4>2. QED
        BY <2>3, <4>1 DEF Free
    <3>4. QED
      BY <3>1, <3>2, <3>3
  <2>7. LookedUp(c)'
    BY <1>2, <1>3, <1>6, <2>1, <2>2, <2>3, <2>5, <2>6 DEF LookedUp
  <2>8. ShownIsBooked'
    BY <1>2, <1>3, ShownStays
  <2>9. d.kind = "policy" => d.input \in Proposals
    <3>1. call[c].pc # "idle"
      BY <1>2
    <3>2. QED
      BY <2>2, <3>1 DEF ReferenceInv
  <2>10. QED
    BY <1>2, <1>3, <1>4, <2>2, <2>3, <2>4, <2>7, <2>8, <2>9, QuietStep
<1>7. QED
  BY <1>5, <1>6

(* A row that is inserted takes its keys, and overtakes those who look for *)
(* them.                                                                   *)
LEMMA InsertStep ==
  ASSUME ReferenceInv, NEW c \in Calls,
         call' = [call EXCEPT ![c] = Idle], Inserted(c),
         Taken' = Taken \cup Keys(call[c].kind, call[c].input),
         leaveTypes \subseteq leaveTypes', policies \subseteq policies',
         policies' \subseteq Proposals, IsFiniteSet(policies'),
         UNCHANGED <<balances, today, shown>>
  PROVE  ReferenceInv'
<1>1. /\ call \in [Calls -> Call] /\ call' \in [Calls -> Call]
      /\ call'[c] = Idle /\ \A x \in Calls \ {c} : call'[x] = call[x]
  BY IdleCall DEF ReferenceInv
<1>2. /\ overtaken \subseteq overtaken' /\ failed' = failed
      /\ \A x \in Calls \ {c} : x \notin overtaken' =>
           Keys(call[x].kind, call[x].input) \cap Keys(call[c].kind, call[c].input) = {}
  BY DEF Inserted
<1>3. ASSUME NEW x \in Calls PROVE LookedUp(x)' /\ Chosen(x)'
  <2>1. CASE x = c
    BY <1>1, <2>1, IdleFits
  <2>2. CASE x # c
    <3>1. PICK K : K = Keys(call[c].kind, call[c].input)
      OBVIOUS
    <3>2. x \notin overtaken' =>
            x \notin overtaken /\ Keys(call[x].kind, call[x].input) \cap K = {}
      BY <1>2, <2>2, <3>1
    <3>3. QED
      BY <1>1, <2>2, <3>1, <3>2, OthersKeep
  <2>3. QED
    BY <2>1, <2>2
<1>4. \A x \in Calls : call'[x].pc # "idle" /\ call'[x].kind = "policy" =>
                         call'[x].input \in Proposals
  BY <1>1, IdleCall DEF ReferenceInv
<1>5. RefusalsAreRaces'
  BY <1>2 DEF ReferenceInv, RefusalsAreRaces
<1>6. ShownIsBooked'
  BY ShownStays
<1>7. today' \in Nat
  BY DEF ReferenceInv
<1>8. QED
  BY <1>1, <1>3, <1>4, <1>5, <1>6, <1>7 DEF ReferenceInv

(* An INSERT of a key that is taken: the look-ups had found it free.       *)
LEMMA RefusedStep ==
  ASSUME ReferenceInv, NEW c \in Calls, call[c].pc = "insert", ~Free(c),
         call' = [call EXCEPT ![c] = Idle], Refused(c),
         UNCHANGED <<tables, balances, today, shown>>
  PROVE  ReferenceInv'
<1>1. c \in overtaken
  BY DEF ReferenceInv, LookedUp
<1>2. overtaken' = overtaken /\ RefusalsAreRaces'
  BY <1>1 DEF ReferenceInv, RefusalsAreRaces, Refused
<1>3. QED
  BY <1>2, EndStep

LEMMA InsertEmployeeStep ==
  ASSUME ReferenceInv, NEW c \in Calls, InsertEmployee(c)
  PROVE  ReferenceInv'
<1>1. /\ call[c].pc = "insert" /\ call[c].kind = "employee"
      /\ call' = [call EXCEPT ![c] = Idle]
      /\ UNCHANGED <<leaveTypes, policies, balances, today, shown>>
  BY DEF InsertEmployee, Inserts
<1>2. CASE employees' = employees \cup {call[c].input} /\ Inserted(c)
  <2>1. Taken' = Taken \cup Keys("employee", call[c].input)
    BY <1>1, <1>2 DEF Taken
  <2>2. IsFiniteSet(policies) /\ policies \subseteq Proposals
    BY DEF ReferenceInv
  <2>3. QED
    BY <1>1, <1>2, <2>1, <2>2, InsertStep
<1>3. CASE ~Free(c) /\ UNCHANGED employees /\ Refused(c)
  BY <1>1, <1>3, RefusedStep DEF tables
<1>4. CASE UNCHANGED <<employees, history>>
  <2>1. RefusalsAreRaces'
    BY <1>4 DEF history, ReferenceInv, RefusalsAreRaces
  <2>2. UNCHANGED <<tables, balances, today, shown, overtaken>>
    BY <1>1, <1>4 DEF tables, history
  <2>3. QED
    BY <1>1, <2>1, <2>2, EndStep
<1>5. QED
  BY <1>2, <1>3, <1>4 DEF InsertEmployee

LEMMA InsertLeaveTypeStep ==
  ASSUME ReferenceInv, NEW c \in Calls, InsertLeaveType(c)
  PROVE  ReferenceInv'
<1>1. /\ call[c].pc = "insert" /\ call[c].kind = "leaveType"
      /\ call' = [call EXCEPT ![c] = Idle]
      /\ UNCHANGED <<employees, policies, balances, today, shown>>
  BY DEF InsertLeaveType, Inserts
<1>2. CASE leaveTypes' = leaveTypes \cup {call[c].input} /\ Inserted(c)
  <2>1. Taken' = Taken \cup Keys("leaveType", call[c].input)
    BY <1>1, <1>2 DEF Taken
  <2>2. IsFiniteSet(policies) /\ policies \subseteq Proposals
    BY DEF ReferenceInv
  <2>3. QED
    BY <1>1, <1>2, <2>1, <2>2, InsertStep
<1>3. CASE ~Free(c) /\ UNCHANGED leaveTypes /\ Refused(c)
  BY <1>1, <1>3, RefusedStep DEF tables
<1>4. QED
  BY <1>2, <1>3 DEF InsertLeaveType

(* The leave type that GetLeaveTypeByCode found is still there.            *)
LEMMA InsertPolicyStep ==
  ASSUME ReferenceInv, NEW c \in Calls, InsertPolicy(c)
  PROVE  ReferenceInv'
<1>1. /\ call[c].pc = "insert" /\ call[c].kind = "policy"
      /\ call' = [call EXCEPT ![c] = Idle]
      /\ UNCHANGED <<employees, leaveTypes, balances, today, shown>>
  BY DEF InsertPolicy, Inserts
<1>2. call[c].input \in Proposals /\ call[c].input.code \in leaveTypes
  BY <1>1 DEF ReferenceInv, LookedUp
<1>3. policies' = policies \cup {call[c].input} /\ Inserted(c)
  BY <1>2 DEF InsertPolicy
<1>4. Taken' = Taken \cup Keys(call[c].kind, call[c].input)
  <2>1. Taken' = Taken
    BY <1>1 DEF Taken
  <2>2. Keys(call[c].kind, call[c].input) = {}
    BY <1>1 DEF Keys
  <2>3. QED
    BY <2>1, <2>2
<1>5. policies' \subseteq Proposals /\ IsFiniteSet(policies')
  BY <1>2, <1>3, FS_AddElement DEF ReferenceInv
<1>6. QED
  BY <1>1, <1>3, <1>4, <1>5, InsertStep

-----------------------------------------------------------------------------

LEMMA GetAllPoliciesStep ==
  ASSUME ReferenceInv, NEW c \in Calls, GetAllPolicies(c)
  PROVE  ReferenceInv'
<1>1. PICK rows \in SetToSeqs(policies) :
        call' = [call EXCEPT ![c].pc = "balances", ![c].asOf = today,
                   ![c].inForce = [k \in Codes |-> Effective(k, today, rows)]]
  BY DEF GetAllPolicies
<1>2. PICK chosen : chosen = [k \in Codes |-> Effective(k, today, rows)]
  OBVIOUS
<1>3. PICK d : d = [call[c] EXCEPT !.pc = "balances", !.asOf = today,
                                   !.inForce = chosen]
  OBVIOUS
<1>4. /\ call \in [Calls -> Call] /\ today \in Nat /\ LookedUp(c)
      /\ IsFiniteSet(policies) /\ policies \in SUBSET Proposals
      /\ policies \in SUBSET Policy
  BY ReferenceAssumption DEF ReferenceInv
<1>5. call[c].pc = "policies" /\ UNCHANGED <<tables, balances, today, shown, history>>
  BY DEF GetAllPolicies
<1>6. UNCHANGED <<employees, leaveTypes, policies, overtaken, failed>>
  BY <1>5 DEF tables, history
<1>7. call' = [call EXCEPT ![c] = d] /\ call'[c] = d
  BY <1>1, <1>2, <1>3, <1>4
<1>8. ASSUME NEW k \in Codes
      PROVE  chosen[k] = None \/ chosen[k] \in PoliciesOf(k)
  <2>1. Latest(chosen[k], policies, k, today)
    BY <1>2, <1>4, EffectiveLatest
  <2>2. QED
    BY <2>1 DEF Latest, Candidates, PoliciesOf
<1>9. chosen \in [Codes -> Proposals \cup {None}]
  BY <1>2, <1>4, <1>8 DEF PoliciesOf
<1>10. /\ d.pc = "balances" /\ d.inForce = chosen /\ d.kind = call[c].kind
       /\ d.input = call[c].input /\ d \in Call
  BY <1>3, <1>4, <1>9 DEF Call
<1>11. Chosen(c)'
  BY <1>6, <1>7, <1>8, <1>10 DEF Chosen, PoliciesOf
<1>12. LookedUp(c)'
  BY <1>7, <1>10 DEF LookedUp
<1>13. d.kind = "policy" => d.input \in Proposals
  BY <1>5, <1>10 DEF ReferenceInv
<1>14. RefusalsAreRaces' /\ ShownIsBooked'
  BY <1>5, <1>6, ShownStays DEF ReferenceInv, RefusalsAreRaces
<1>15. QED
  BY <1>5, <1>6, <1>7, <1>10, <1>11, <1>12, <1>13, <1>14, QuietStep

(* What is shown is of the policy taken, which is still a row.             *)
LEMMA FindBalanceStep ==
  ASSUME ReferenceInv, NEW c \in Calls, NEW k \in Codes, FindBalance(c, k)
  PROVE  ReferenceInv'
<1>1. PICK p : p = call[c].inForce[k]
  OBVIOUS
<1>2. PICK asOf : asOf = call[c].asOf
  OBVIOUS
<1>3. PICK found : found = IF PeriodOf(p, asOf) \in balances
                           THEN [period |-> PeriodOf(p, asOf), day |-> asOf]
                           ELSE None
  OBVIOUS
<1>4. /\ call[c].pc = "balances" /\ p # None
      /\ shown' = [shown EXCEPT ![k] = found]
      /\ call' = [call EXCEPT ![c].inForce[k] = None]
      /\ UNCHANGED <<tables, balances, today, history>>
  BY <1>1, <1>2, <1>3 DEF FindBalance
<1>5. UNCHANGED <<employees, leaveTypes, policies, overtaken, failed>>
  BY <1>4 DEF tables, history
<1>6. PICK chosen : chosen = [call[c].inForce EXCEPT ![k] = None]
  OBVIOUS
<1>7. PICK d : d = [call[c] EXCEPT !.inForce = chosen]
  OBVIOUS
<1>8. /\ call \in [Calls -> Call] /\ LookedUp(c) /\ Chosen(c)
      /\ call[c].inForce \in [Codes -> Proposals \cup {None}]
      /\ ShownIsBooked
  BY DEF ReferenceInv, Call
<1>9. call' = [call EXCEPT ![c] = d] /\ call'[c] = d
  BY <1>4, <1>6, <1>7, <1>8
<1>10. /\ chosen \in [Codes -> Proposals \cup {None}]
       /\ \A j \in Codes : chosen[j] = None \/ chosen[j] = call[c].inForce[j]
  BY <1>6, <1>8
<1>11. /\ d.pc = "balances" /\ d.inForce = chosen /\ d.kind = call[c].kind
       /\ d.input = call[c].input /\ d \in Call
  BY <1>4, <1>7, <1>8, <1>10 DEF Call
<1>12. Chosen(c)'
  BY <1>5, <1>8, <1>9, <1>10, <1>11 DEF Chosen, PoliciesOf
<1>13. LookedUp(c)'
  BY <1>9, <1>11 DEF LookedUp
<1>14. d.kind = "policy" => d.input \in Proposals
  BY <1>4, <1>11 DEF ReferenceInv
<1>15. RefusalsAreRaces'
  BY <1>5 DEF ReferenceInv, RefusalsAreRaces
<1>16. p \in PoliciesOf(k)
  BY <1>1, <1>4, <1>8 DEF Chosen
<1>17. found # None => found.period \in BookingPeriods(k, found.day) \cap balances
  <2>1. PeriodOf(p, asOf) \in BookingPeriods(k, asOf)
    BY <1>16 DEF BookingPeriods
  <2>2. CASE PeriodOf(p, asOf) \in balances
    <3>1. found.period = PeriodOf(p, asOf) /\ found.day = asOf
      BY <1>3, <2>2
    <3>2. QED
      BY <2>1, <2>2, <3>1
  <2>3. CASE PeriodOf(p, asOf) \notin balances
    BY <1>3, <2>3
  <2>4. QED
    BY <2>2, <2>3
<1>18. ShownIsBooked'
  <2>1. /\ shown' = [j \in Codes |-> shown'[j]] /\ shown'[k] = found
        /\ \A j \in Codes \ {k} : shown'[j] = shown[j]
    BY <1>4, <1>8 DEF ShownIsBooked
  <2>2. ASSUME NEW j \in Codes, shown'[j] # None
        PROVE  shown'[j].period \in BookingPeriods(j, shown'[j].day) \cap balances
    <3>1. CASE j = k
      BY <1>17, <2>1, <2>2, <3>1
    <3>2. CASE j # k
      BY <1>8, <2>1, <2>2, <3>2 DEF ShownIsBooked
    <3>3. QED
      BY <3>1, <3>2
  <2>3. QED
    BY <1>4, <1>5, <2>1, <2>2 DEF ShownIsBooked, BookingPeriods, PoliciesOf
<1>19. QED
  BY <1>4, <1>5, <1>9, <1>11, <1>12, <1>13, <1>14, <1>15, <1>18, QuietStep

-----------------------------------------------------------------------------

LEMMA ReferenceInit == Init => ReferenceInv
<1> SUFFICES ASSUME Init PROVE ReferenceInv
  OBVIOUS
<1>1. /\ policies = {} /\ today = 0 /\ call = [c \in Calls |-> Idle]
      /\ shown = [k \in Codes |-> None] /\ overtaken = {} /\ failed = {}
  BY DEF Init
<1>2. IsFiniteSet(policies)
  BY <1>1, FS_EmptySet
<1>3. \A c \in Calls : call[c] = Idle /\ call[c] \in Call
  BY <1>1, IdleCall
<1>4. \A c \in Calls : LookedUp(c) /\ Chosen(c)
  BY <1>3 DEF LookedUp, Chosen, Idle
<1>5. RefusalsAreRaces /\ ShownIsBooked
  BY <1>1 DEF RefusalsAreRaces, ShownIsBooked
<1>6. \A c \in Calls : call[c].pc = "idle"
  BY <1>3, IdleCall
<1>7. QED
  BY <1>1, <1>2, <1>3, <1>4, <1>5, <1>6 DEF ReferenceInv

LEMMA ReferenceStep == ReferenceInv /\ [Next]_vars => ReferenceInv'
<1> SUFFICES ASSUME ReferenceInv, [Next]_vars PROVE ReferenceInv'
  OBVIOUS
<1>1. ASSUME NEW c \in Calls,
             \/ \E e \in Hires : CreateEmployee(c, e)
             \/ \E k \in Codes : CreateLeaveType(c, k)
             \/ \E p \in Proposals : CreateLeavePolicy(c, p)
             \/ GetCurrentBalances(c)
      PROVE  ReferenceInv'
  BY <1>1, BeginStep DEF CreateEmployee, CreateLeaveType, CreateLeavePolicy,
                         GetCurrentBalances
<1>2. ASSUME NEW c \in Calls, FindByEmployeeNumber(c) PROVE ReferenceInv'
  <2>1. PICK found \in BOOLEAN :
          found <=> <<"number", call[c].input.number>> \notin Taken
    OBVIOUS
  <2>2. LookUp(c, "number", found, "email")
    BY <1>2, <2>1 DEF FindByEmployeeNumber, LookUp
  <2>3. QED
    BY <2>1, <2>2, LookUpStep
<1>3. ASSUME NEW c \in Calls, FindByEmail(c) PROVE ReferenceInv'
  <2>1. PICK found \in BOOLEAN :
          found <=> <<"email", call[c].input.email>> \notin Taken
    OBVIOUS
  <2>2. LookUp(c, "email", found, "insert")
    BY <1>3, <2>1 DEF FindByEmail, LookUp
  <2>3. QED
    BY <2>1, <2>2, LookUpStep
<1>4. ASSUME NEW c \in Calls, FindByCode(c) PROVE ReferenceInv'
  <2>1. PICK found \in BOOLEAN : found <=> call[c].input \notin leaveTypes
    OBVIOUS
  <2>2. call[c].kind = "leaveType" /\ LookUp(c, "code", found, "insert")
    BY <1>4, <2>1 DEF FindByCode, LookUp
  <2>3. QED
    BY <2>1, <2>2, LookUpStep
<1>5. ASSUME NEW c \in Calls, GetLeaveTypeByCode(c) PROVE ReferenceInv'
  <2>1. PICK found \in BOOLEAN : found <=> call[c].input.code \in leaveTypes
    OBVIOUS
  <2>2. call[c].kind = "policy" /\ LookUp(c, "code", found, "insert")
    BY <1>5, <2>1 DEF GetLeaveTypeByCode, LookUp
  <2>3. QED
    BY <2>1, <2>2, LookUpStep
<1>6. ASSUME NEW c \in Calls, Create(c) PROVE ReferenceInv'
  BY <1>1, <1>2, <1>3, <1>4, <1>5, <1>6, InsertEmployeeStep, InsertLeaveTypeStep,
     InsertPolicyStep DEF Create
<1>7. ASSUME NEW c \in Calls, Fail(c) \/ AnswerDashboard(c) PROVE ReferenceInv'
  <2>1. /\ call' = [call EXCEPT ![c] = Idle]
        /\ UNCHANGED <<tables, balances, today, shown, history>>
    BY <1>7 DEF Fail, AnswerDashboard
  <2>2. RefusalsAreRaces' /\ UNCHANGED overtaken
    BY <2>1 DEF history, ReferenceInv, RefusalsAreRaces
  <2>3. QED
    BY <2>1, <2>2, EndStep
<1>8. ASSUME NEW c \in Calls, Read(c) PROVE ReferenceInv'
  BY <1>1, <1>7, <1>8, GetAllPoliciesStep, FindBalanceStep DEF Read
<1>9. ASSUME UNCHANGED <<tables, call, shown, history>>, balances \subseteq balances',
             today' \in Nat
      PROVE  ReferenceInv'
  <2>1. UNCHANGED <<employees, leaveTypes, policies, overtaken, failed>>
    BY <1>9 DEF tables, history
  <2>2. Taken' = Taken
    BY <2>1 DEF Taken
  <2>3. ASSUME NEW c \in Calls PROVE LookedUp(c)' /\ Chosen(c)'
    <3>1. PICK K : K = {}
      OBVIOUS
    <3>2. QED
      BY <1>9, <2>1, <2>2, <3>1, OthersKeep
  <2>4. ShownIsBooked'
    BY <1>9, <2>1, ShownStays
  <2>5. QED
    BY <1>9, <2>1, <2>3, <2>4 DEF ReferenceInv, RefusalsAreRaces
<1>10. CASE (\E k \in Codes : OpenPeriod(k)) \/ NextDay \/ UNCHANGED vars
  <2>1. today \in Nat
    BY DEF ReferenceInv
  <2>2. QED
    BY <1>9, <1>10, <2>1 DEF OpenPeriod, NextDay, vars
<1>11. QED
  BY <1>6, <1>7, <1>8, <1>10 DEF Next

(* createEmployee, createLeaveType and createLeavePolicy look a key up and *)
(* then insert, with no transaction around the two: an INSERT is refused   *)
(* by a unique key or for an unknown leave type only if another creation   *)
(* of the same key came in between.                                        *)
THEOREM OnlyRacesRefused == Spec => []RefusalsAreRaces
<1>1. ReferenceInv => RefusalsAreRaces
  BY DEF ReferenceInv
<1>2. QED
  BY <1>1, ReferenceInit, ReferenceStep, PTL DEF Spec

(* The loop of getCurrentBalances ends with the latest policy in force of  *)
(* each type, in whatever order findAll returns any number of rows, and    *)
(* the balance shown is one that bookings of that day use.                 *)
THEOREM DashboardCorrect == Spec => []DashboardIsCurrent
<1>1. ASSUME ReferenceInv PROVE DashboardIsCurrent
  <2>1. /\ IsFiniteSet(policies) /\ policies \in SUBSET Policy
        /\ ShownIsBooked
    BY <1>1, ReferenceAssumption DEF ReferenceInv
  <2>2. ASSUME NEW k \in Codes, NEW rows \in SetToSeqs(policies)
        PROVE  EffectiveIsLatest(k, rows)
    <3>1. Latest(Effective(k, today, rows), policies, k, today)
      BY <2>1, EffectiveLatest
    <3>2. Candidates(policies, k, today)
            = {q \in PoliciesOf(k) : InForce(q, today)}
      BY DEF Candidates, PoliciesOf
    <3>3. QED
      BY <3>1, <3>2 DEF Latest, EffectiveIsLatest
  <2>3. QED
    BY <2>1, <2>2 DEF DashboardIsCurrent, ShownIsBooked
<1>2. QED
  BY <1>1, ReferenceInit, ReferenceStep, PTL DEF Spec
=============================================================================
