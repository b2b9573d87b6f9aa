-------------------------- MODULE LeaveLedgerProofs --------------------------
(***************************************************************************)
(* Proofs about LeaveLedger: its counters always equal the days of its     *)
(* requests, for every set of employees, accounts, requests and day        *)
(* counts.  Sums are cardinalities of sets of day units, so that adding a  *)
(* request to a sum is the union of two disjoint finite sets.              *)
(***************************************************************************)
EXTENDS LeaveLedger, FiniteSetTheorems, TLAPS

Table == [Requests -> Row \cup {None}]

(* The fields of a stored row have their types.                            *)
LEMMA RowFields ==
  ASSUME NEW rows \in Table, NEW r \in StoredIn(rows)
  PROVE  /\ r \in Requests
         /\ rows[r] \in Row
         /\ rows[r].days \in Nat
         /\ rows[r].account \in Accounts
BY RecordsAssumption DEF Table, StoredIn, Row

(* The day units of one request are as many as its days.                   *)
LEMMA UnitsOfOne ==
  ASSUME NEW r, NEW n \in Nat
  PROVE  /\ IsFiniteSet({r} \X (1 .. n))
         /\ Cardinality({r} \X (1 .. n)) = n
<1>1. IsFiniteSet({r}) /\ Cardinality({r}) = 1
  BY FS_Singleton
<1>2. IsFiniteSet(1 .. n) /\ Cardinality(1 .. n) = n
  BY FS_Interval
<1>3. /\ IsFiniteSet({r} \X (1 .. n))
      /\ Cardinality({r} \X (1 .. n)) = Cardinality({r}) * Cardinality(1 .. n)
  BY <1>1, <1>2, FS_Product
<1>4. QED
  BY <1>1, <1>2, <1>3

(* Finitely many requests have finitely many day units.                    *)
LEMMA UnitsFinite ==
  ASSUME NEW rows \in Table, NEW S \in SUBSET StoredIn(rows)
  PROVE  /\ IsFiniteSet(DayUnits(rows, S))
         /\ DaysOf(rows, S) \in Nat
<1> DEFINE units == [r \in S |-> {r} \X (1 .. rows[r].days)]
           sets  == {units[r] : r \in S}
<1>1. IsFiniteSet(S)
  <2>1. S \in SUBSET Requests
    BY DEF StoredIn
  <2>2. QED
    BY <2>1, FS_Subset, RecordsAssumption
<1>2. IsFiniteSet(sets)
  <2>1. units \in Surjection(S, sets)
    BY DEF Surjection
  <2>2. QED
    BY <1>1, <2>1, FS_Surjection
<1>3. \A T \in sets : IsFiniteSet(T)
  <2>1. ASSUME NEW r \in S PROVE IsFiniteSet(units[r])
    BY RowFields, UnitsOfOne
  <2>2. QED
    BY <2>1
<1>4. DayUnits(rows, S) = UNION sets
  BY DEF DayUnits
<1>5. IsFiniteSet(DayUnits(rows, S))
  BY <1>2, <1>3, <1>4, FS_UNION
<1>6. QED
  BY <1>5, FS_CardinalityType DEF DaysOf

(* A request that joins a sum adds its days.                               *)
LEMMA DaysAdd ==
  ASSUME NEW rows \in Table, NEW S \in SUBSET StoredIn(rows),
         NEW r \in StoredIn(rows), r \notin S
  PROVE  DaysOf(rows, S \cup {r}) = DaysOf(rows, S) + rows[r].days
<1> DEFINE one == {r} \X (1 .. rows[r].days)
<1>1. /\ IsFiniteSet(DayUnits(rows, S))
      /\ DaysOf(rows, S) \in Nat
  BY UnitsFinite
<1>2. /\ IsFiniteSet(one)
      /\ Cardinality(one) = rows[r].days
      /\ rows[r].days \in Nat
  BY RowFields, UnitsOfOne
<1>3. DayUnits(rows, S \cup {r}) = DayUnits(rows, S) \cup one
  BY DEF DayUnits
<1>4. DayUnits(rows, S) \cap one = {}
  BY DEF DayUnits
<1>5. Cardinality(DayUnits(rows, S) \cup one)
        = Cardinality(DayUnits(rows, S)) + Cardinality(one)
            - Cardinality(DayUnits(rows, S) \cap one)
  BY <1>1, <1>2, FS_Union
<1>6. Cardinality(DayUnits(rows, S) \cap one) = 0
  BY <1>4, FS_EmptySet
<1>7. DaysOf(rows, S \cup {r}) = Cardinality(DayUnits(rows, S) \cup one)
  BY <1>3 DEF DaysOf
<1>8. DaysOf(rows, S) = Cardinality(DayUnits(rows, S))
  BY DEF DaysOf
<1> HIDE DEF one
<1>9. QED
  BY <1>1, <1>2, <1>5, <1>6, <1>7, <1>8

(* A sum does not depend on the rows outside it, nor on their statuses.    *)
LEMMA DaysSame ==
  ASSUME NEW rows \in Table, NEW rows2 \in Table, NEW S,
         \A r \in S : rows2[r].days = rows[r].days
  PROVE  DaysOf(rows2, S) = DaysOf(rows, S)
BY DEF DaysOf, DayUnits

(* A request that leaves a sum takes its days away.                        *)
LEMMA DaysRemove ==
  ASSUME NEW rows \in Table, NEW S \in SUBSET StoredIn(rows), NEW r \in S
  PROVE  DaysOf(rows, S \ {r}) = DaysOf(rows, S) - rows[r].days
<1>1. DaysOf(rows, (S \ {r}) \cup {r})
        = DaysOf(rows, S \ {r}) + rows[r].days
  BY DaysAdd
<1>2. (S \ {r}) \cup {r} = S
  OBVIOUS
<1>3. DaysOf(rows, S \ {r}) \in Nat /\ rows[r].days \in Nat
  BY UnitsFinite, RowFields
<1>4. DaysOf(rows, S) = DaysOf(rows, S \ {r}) + rows[r].days
  BY <1>1, <1>2
<1>5. \A x, y, z : y \in Nat /\ z \in Nat /\ x = y + z => y = x - z
  OBVIOUS
<1>6. QED
  BY <1>3, <1>4, <1>5

-----------------------------------------------------------------------------

(* Booking days on the account of a stored row keeps the balances typed.   *)
LEMMA BookType ==
  ASSUME TypeOK, NEW r \in StoredIn(request), NEW u \in {-1, 0, 1},
         NEW p \in {-1, 0, 1}, Book(r, u, p)
  PROVE  balance' \in [Accounts -> Balance]
<1>1. request[r].days \in Nat /\ request[r].account \in Accounts
  BY RowFields DEF TypeOK, Table
<1> DEFINE a == request[r].account
           b == [used    |-> balance[a].used + u * request[r].days,
                 pending |-> balance[a].pending + p * request[r].days]
<1>2. u * request[r].days \in Int /\ p * request[r].days \in Int
  BY <1>1
<1>3. balance[a] \in Balance
  BY <1>1 DEF TypeOK
<1>4. b \in Balance
  BY <1>2, <1>3 DEF Balance
<1>5. balance' = [balance EXCEPT ![a] = b]
  BY DEF Book
<1> HIDE DEF b
<1>6. QED
  BY <1>4, <1>5 DEF TypeOK

(* Every step of the ledger keeps the types.                               *)
LEMMA TypeStep == TypeOK /\ [Next]_vars => TypeOK'
<1> SUFFICES ASSUME TypeOK, [Next]_vars PROVE TypeOK'
  OBVIOUS
<1> USE RecordsAssumption, ActorsAssumption
<1>1. ASSUME NEW r \in Requests, NEW a \in Accounts, NEW n \in DayCounts,
             NEW d \in StartDays, Create(r, a, n, d)
      PROVE  TypeOK'
  BY <1>1 DEF TypeOK, Create, Draft, Row, Statuses
<1>2. ASSUME NEW r \in Requests, Submit(r)
      PROVE  TypeOK'
  <2>1. balance' \in [Accounts -> Balance]
    BY <1>2, BookType DEF Submit, Is, StoredIn
  <2>2. QED
    BY <1>2, <2>1 DEF TypeOK, Submit, Is, Row, Statuses
<1>3. ASSUME NEW r \in Requests, NEW actor \in Employees, Approve(r, actor)
      PROVE  TypeOK'
  <2>1. balance' \in [Accounts -> Balance]
    BY <1>3, BookType DEF Approve, Is, StoredIn
  <2>2. QED
    BY <1>3, <2>1 DEF TypeOK, Approve, Is, Row, Statuses
<1>4. ASSUME NEW r \in Requests, NEW actor \in Employees, Reject(r, actor)
      PROVE  TypeOK'
  <2>1. balance' \in [Accounts -> Balance]
    BY <1>4, BookType DEF Reject, Is, StoredIn
  <2>2. QED
    BY <1>4, <2>1 DEF TypeOK, Reject, Is, Row, Statuses
<1>5. ASSUME NEW r \in Requests, NEW actor \in Employees,
             CancelDraft(r, actor)
      PROVE  TypeOK'
  BY <1>5 DEF TypeOK, CancelDraft, Is, Row, Statuses
<1>6. ASSUME NEW r \in Requests, NEW actor \in Employees,
             CancelSubmitted(r, actor)
      PROVE  TypeOK'
  <2>1. balance' \in [Accounts -> Balance]
    BY <1>6, BookType DEF CancelSubmitted, Is, StoredIn
  <2>2. QED
    BY <1>6, <2>1 DEF TypeOK, CancelSubmitted, Is, Row, Statuses
<1>7. ASSUME NEW r \in Requests, NEW s \in Requests, NEW actor \in Employees,
             Reverse(r, s, actor)
      PROVE  TypeOK'
  <2>1. balance' \in [Accounts -> Balance]
    BY <1>7, BookType DEF Reverse, Is, StoredIn
  <2>2. ReversalOf(r, request[r], actor) \in Row
    BY <1>7 DEF TypeOK, Reverse, Is, ReversalOf, Draft, Row, Statuses
  <2>3. QED
    BY <1>7, <2>1, <2>2 DEF TypeOK, Reverse
<1>8. CASE UNCHANGED vars
  BY <1>8 DEF TypeOK, vars
<1>9. QED
  BY <1>1, <1>2, <1>3, <1>4, <1>5, <1>6, <1>7, <1>8 DEF Next

(* The table and the counters have their types in every reachable state:   *)
(* a reversal in particular is a well-formed row.                          *)
THEOREM TypeCorrect == Spec => []TypeOK
<1>1. Init => TypeOK
  BY DEF Init, TypeOK, Balance
<1>2. QED
  BY <1>1, TypeStep, PTL DEF Spec

-----------------------------------------------------------------------------
(* The counters.  A row that carries a decision or that is reversed is     *)
(* never moved: ReversalsMatch is what keeps an approval that was released *)
(* from being released again, so the counters need it to be inductive.     *)

LEMMA CountersStep ==
  ASSUME TypeOK, CountersAgree, NEW r \in StoredIn(request), NEW u \in Int,
         NEW p \in Int, Book(r, u, p),
         \A b \in Accounts :
           /\ DaysOf(request', SubmittedIn(request', b))
                = DaysOf(request, SubmittedIn(request, b))
                    + (IF b = request[r].account THEN p * request[r].days
                                                 ELSE 0)
           /\ DaysOf(request', TakenIn(request', b))
                = DaysOf(request, TakenIn(request, b))
                    + (IF b = request[r].account THEN u * request[r].days
                                                 ELSE 0)
  PROVE  CountersAgree'
<1> DEFINE a == request[r].account
<1>1. a \in Accounts /\ request[r].days \in Nat
  BY RowFields DEF TypeOK, Table
<1>2. \A b \in Accounts : balance[b].used \in Int /\ balance[b].pending \in Int
  BY DEF TypeOK, Balance
<1>3. u * request[r].days \in Int /\ p * request[r].days \in Int
  BY <1>1
<1>4. SUFFICES ASSUME NEW b \in Accounts
               PROVE  /\ balance'[b].pending
                           = DaysOf(request', SubmittedIn(request', b))
                      /\ balance'[b].used
                           = DaysOf(request', TakenIn(request', b))
  BY DEF CountersAgree
<1>5. CASE b = a
  <2>1. /\ balance'[b].pending = balance[b].pending + p * request[r].days
        /\ balance'[b].used = balance[b].used + u * request[r].days
    BY <1>1, <1>5 DEF Book, TypeOK
  <2>2. QED
    BY <1>5, <2>1 DEF CountersAgree
<1>6. CASE b # a
  <2>1. balance'[b] = balance[b]
    BY <1>6 DEF Book, TypeOK
  <2>2. /\ DaysOf(request', SubmittedIn(request', b)) = balance[b].pending + 0
        /\ DaysOf(request', TakenIn(request', b)) = balance[b].used + 0
    BY <1>6 DEF CountersAgree
  <2>3. QED
    BY <1>2, <2>1, <2>2
<1>7. QED
  BY <1>5, <1>6

(* A DRAFT or SUBMITTED row that changes its status keeps the sums exact.  *)
LEMMA StatusMove ==
  ASSUME TypeOK, ReversalsMatch, CountersAgree,
         NEW r \in StoredIn(request), NEW row \in Row,
         request[r].status \in {"DRAFT", "SUBMITTED"},
         row.account = request[r].account, row.days = request[r].days,
         row.reverses = request[r].reverses,
         request' = [request EXCEPT ![r] = row],
         NEW u \in Int, NEW p \in Int, Book(r, u, p),
         u = IF row.status = "APPROVED" THEN 1 ELSE 0,
         p = (IF row.status = "SUBMITTED" THEN 1 ELSE 0)
               - (IF request[r].status = "SUBMITTED" THEN 1 ELSE 0)
  PROVE  ReversalsMatch' /\ CountersAgree'
<1> DEFINE a == request[r].account
           n == request[r].days
<1>1. /\ r \in Requests /\ request \in Table /\ row # None
      /\ n \in Nat /\ a \in Accounts
  BY RowFields, RecordsAssumption DEF TypeOK, Table
<1>2. request' \in Table
  BY <1>1 DEF Table
<1>3. /\ request'[r] = row
      /\ \A s \in Requests : s # r => request'[s] = request[s]
  BY <1>1 DEF Table
<1>4. StoredIn(request') = StoredIn(request)
  BY <1>1, <1>3 DEF StoredIn
<1>5. row.reverses = None
  BY <1>1 DEF ReversalsMatch, Row, Table, StoredIn
<1>6. \A s \in StoredIn(request) : request'[s].reverses = request[s].reverses
  BY <1>3 DEF StoredIn
<1>7. \A s : ReversedIn(request', s) <=> ReversedIn(request, s)
  BY <1>4, <1>6 DEF ReversedIn
<1>8. ~ReversedIn(request, r)
  BY <1>1, RecordsAssumption DEF ReversedIn, ReversalsMatch
<1>9. ReversalsMatch'
  <2>1. \A s \in StoredIn(request'), t \in Requests :
          request'[s].reverses = t =>
            /\ request'[s].status = "CANCELLED"
            /\ t \in StoredIn(request')
            /\ request'[t].status = "APPROVED" /\ request'[t].reverses = None
            /\ request'[s].account = request'[t].account
            /\ request'[s].days = request'[t].days
            /\ \A v \in StoredIn(request') :
                 request'[v].reverses = t => v = s
    <3> TAKE s \in StoredIn(request'), t \in Requests
    <3> HAVE request'[s].reverses = t
    <3>1. s # r /\ s \in StoredIn(request) /\ request[s].reverses = t
      BY <1>3, <1>4, <1>5, <1>6, RecordsAssumption
    <3>2. t \in StoredIn(request) /\ request[t].status = "APPROVED"
      BY <3>1 DEF ReversalsMatch
    <3>3. t # r
      BY <3>2
    <3>4. request'[s] = request[s] /\ request'[t] = request[t]
      BY <1>3, <3>1, <3>2, <3>3 DEF StoredIn
    <3>5. /\ request[s].status = "CANCELLED" /\ request[t].reverses = None
          /\ request[s].account = request[t].account
          /\ request[s].days = request[t].days
      BY <3>1 DEF ReversalsMatch
    <3>6. ASSUME NEW v \in StoredIn(request), request[v].reverses = t
          PROVE  v = s
      BY <3>1, <3>6 DEF ReversalsMatch
    <3>7. QED
      BY <1>4, <1>6, <3>2, <3>4, <3>5, <3>6
  <2>2. QED
    BY <2>1 DEF ReversalsMatch
<1>10. \A S \in SUBSET StoredIn(request) :
         DaysOf(request', S) = DaysOf(request, S)
  <2>1. \A s \in StoredIn(request) : request'[s].days = request[s].days
    BY <1>3 DEF StoredIn
  <2>2. QED
    BY <1>1, <1>2, <2>1, DaysSame
<1>11. \A b \in Accounts :
         DaysOf(request', SubmittedIn(request', b))
           = DaysOf(request, SubmittedIn(request, b))
               + (IF b = a THEN p * n ELSE 0)
  <2> SUFFICES ASSUME NEW b \in Accounts
               PROVE  DaysOf(request', SubmittedIn(request', b))
                        = DaysOf(request, SubmittedIn(request, b))
                            + (IF b = a THEN p * n ELSE 0)
    OBVIOUS
  <2> DEFINE S == SubmittedIn(request, b)
  <2>1. S \in SUBSET StoredIn(request)
    BY DEF SubmittedIn
  <2>2. DaysOf(request, S) \in Nat
    BY <1>1, <2>1, UnitsFinite
  <2>3. SubmittedIn(request', b) =
          IF b = a /\ row.status = "SUBMITTED" THEN S \cup {r} ELSE S \ {r}
    BY <1>3, <1>4 DEF SubmittedIn, StoredIn
  <2>4. r \in S <=> b = a /\ request[r].status = "SUBMITTED"
    BY DEF SubmittedIn
  <2>5. r \notin S => /\ S \ {r} = S
                      /\ DaysOf(request, S \cup {r}) = DaysOf(request, S) + n
    BY <1>1, <2>1, DaysAdd
  <2>6. r \in S => /\ S \cup {r} = S
                   /\ DaysOf(request, S \ {r}) = DaysOf(request, S) - n
    BY <1>1, <2>1, DaysRemove
  <2>7. DaysOf(request', SubmittedIn(request', b))
          = DaysOf(request, SubmittedIn(request', b))
    BY <1>4, <1>10 DEF SubmittedIn
  <2> HIDE DEF S
  <2>8. CASE b = a
    <3>1. CASE r \in S /\ row.status = "SUBMITTED"
      <4>1. p * n = 0
        BY <1>1, <2>4, <3>1
      <4>2. SubmittedIn(request', b) = S
        BY <2>3, <2>6, <2>8, <3>1
      <4>3. QED
        BY <2>2, <2>7, <2>8, <4>1, <4>2 DEF S
    <3>2. CASE r \in S /\ row.status # "SUBMITTED"
      <4>1. p * n = -n
        BY <1>1, <2>4, <3>2
      <4>2. QED
        BY <1>1, <2>2, <2>3, <2>6, <2>7, <2>8, <3>2, <4>1 DEF S
    <3>3. CASE r \notin S /\ row.status = "SUBMITTED"
      <4>1. p * n = n
        BY <1>1, <2>4, <2>8, <3>3
      <4>2. QED
        BY <1>1, <2>2, <2>3, <2>5, <2>7, <2>8, <3>3, <4>1 DEF S
    <3>4. CASE r \notin S /\ row.status # "SUBMITTED"
      <4>1. p * n = 0
        BY <1>1, <2>4, <2>8, <3>4
      <4>2. SubmittedIn(request', b) = S
        BY <2>3, <2>5, <2>8, <3>4
      <4>3. QED
        BY <2>2, <2>7, <2>8, <4>1, <4>2 DEF S
    <3>5. QED
      BY <3>1, <3>2, <3>3, <3>4
  <2>9. CASE b # a
    <3>1. SubmittedIn(request', b) = S
      BY <2>3, <2>4, <2>5, <2>9
    <3>2. QED
      BY <2>2, <2>7, <2>9, <3>1 DEF S
  <2>10. QED
    BY <2>8, <2>9
<1>12. \A b \in Accounts :
         DaysOf(request', TakenIn(request', b))
           = DaysOf(request, TakenIn(request, b))
               + (IF b = a THEN u * n ELSE 0)
  <2> SUFFICES ASSUME NEW b \in Accounts
               PROVE  DaysOf(request', TakenIn(request', b))
                        = DaysOf(request, TakenIn(request, b))
                            + (IF b = a THEN u * n ELSE 0)
    OBVIOUS
  <2> DEFINE S == TakenIn(request, b)
  <2>1. S \in SUBSET StoredIn(request) /\ r \notin S
    BY DEF TakenIn
  <2>2. DaysOf(request, S) \in Nat
    BY <1>1, <2>1, UnitsFinite
  <2>3. TakenIn(request', b) =
          IF b = a /\ row.status = "APPROVED" THEN S \cup {r} ELSE S
    BY <1>3, <1>4, <1>7, <1>8 DEF TakenIn, StoredIn
  <2>4. DaysOf(request, S \cup {r}) = DaysOf(request, S) + n
    BY <1>1, <2>1, DaysAdd
  <2>5. DaysOf(request', TakenIn(request', b))
          = DaysOf(request, TakenIn(request', b))
    BY <1>4, <1>10 DEF TakenIn
  <2> HIDE DEF S
  <2>6. CASE b = a /\ row.status = "APPROVED"
    <3>1. u * n = n
      BY <1>1, <2>6
    <3>2. QED
      BY <2>3, <2>4, <2>5, <2>6, <3>1 DEF S
  <2>7. CASE ~(b = a /\ row.status = "APPROVED")
    <3>1. b = a => u * n = 0
      BY <1>1, <2>7
    <3>2. QED
      BY <2>2, <2>3, <2>5, <2>7, <3>1 DEF S
  <2>8. QED
    BY <2>6, <2>7
<1>13. \A b \in Accounts :
         /\ DaysOf(request', SubmittedIn(request', b))
              = DaysOf(request, SubmittedIn(request, b))
                  + (IF b = request[r].account THEN p * request[r].days
                                               ELSE 0)
         /\ DaysOf(request', TakenIn(request', b))
              = DaysOf(request, TakenIn(request, b))
                  + (IF b = request[r].account THEN u * request[r].days
                                               ELSE 0)
  BY <1>11, <1>12
<1>14. CountersAgree'
  BY <1>13, CountersStep
<1>15. QED
  BY <1>9, <1>14

(* A new DRAFT adds no days.                                               *)
LEMMA CreateStep ==
  ASSUME TypeOK, ReversalsMatch, CountersAgree, NEW r \in Requests,
         NEW a \in Accounts, NEW n \in DayCounts, NEW d \in StartDays,
         Create(r, a, n, d)
  PROVE  ReversalsMatch' /\ CountersAgree'
<1> DEFINE row == Draft(a, n, d)
<1>1. row \in Row /\ row # None
  BY RecordsAssumption DEF Draft, Row, Statuses
<1>2. /\ row.reverses = None
      /\ row.status = "DRAFT"
  BY DEF Draft
<1> HIDE DEF row
<1>3. /\ request \in Table /\ request' \in Table
      /\ request'[r] = row
      /\ r \notin StoredIn(request)
      /\ \A s \in StoredIn(request) : request'[s] = request[s]
      /\ balance' = balance
  BY <1>1 DEF TypeOK, Table, Create, StoredIn, row
<1>4. StoredIn(request') = StoredIn(request) \cup {r}
  BY <1>1 DEF TypeOK, Create, StoredIn, row
<1>5. \A s \in StoredIn(request) :
        ReversedIn(request', s) <=> ReversedIn(request, s)
  <2>1. \A s \in StoredIn(request) : s # None
    BY RecordsAssumption DEF StoredIn
  <2>2. QED
    BY <1>2, <1>3, <1>4, <2>1 DEF ReversedIn
<1>6. ReversalsMatch'
  <2>1. \A s \in StoredIn(request'), t \in Requests :
          request'[s].reverses = t =>
            /\ request'[s].status = "CANCELLED"
            /\ t \in StoredIn(request')
            /\ request'[t].status = "APPROVED" /\ request'[t].reverses = None
            /\ request'[s].account = request'[t].account
            /\ request'[s].days = request'[t].days
            /\ \A v \in StoredIn(request') :
                 request'[v].reverses = t => v = s
    <3> TAKE s \in StoredIn(request'), t \in Requests
    <3> HAVE request'[s].reverses = t
    <3>1. s \in StoredIn(request) /\ request[s].reverses = t
      BY <1>2, <1>3, <1>4, RecordsAssumption
    <3>2. /\ t \in StoredIn(request)
          /\ request[s].status = "CANCELLED" /\ request[t].status = "APPROVED"
          /\ request[t].reverses = None
          /\ request[s].account = request[t].account
          /\ request[s].days = request[t].days
      BY <3>1 DEF ReversalsMatch
    <3>3. ASSUME NEW v \in StoredIn(request'), request'[v].reverses = t
          PROVE  v = s
      <4>1. v \in StoredIn(request) /\ request[v].reverses = t
        BY <1>2, <1>3, <1>4, <3>3, RecordsAssumption
      <4>2. QED
        BY <3>1, <4>1 DEF ReversalsMatch
    <3>4. QED
      BY <1>3, <1>4, <3>1, <3>2, <3>3
  <2>2. QED
    BY <2>1 DEF ReversalsMatch
<1>7. CountersAgree'
  <2>1. \A b \in Accounts :
          /\ SubmittedIn(request', b) = SubmittedIn(request, b)
          /\ TakenIn(request', b) = TakenIn(request, b)
    BY <1>2, <1>3, <1>4, <1>5 DEF SubmittedIn, TakenIn
  <2>2. \A S \in SUBSET StoredIn(request) :
          DaysOf(request', S) = DaysOf(request, S)
    BY <1>3, DaysSame
  <2>3. \A b \in Accounts :
          /\ SubmittedIn(request, b) \in SUBSET StoredIn(request)
          /\ TakenIn(request, b) \in SUBSET StoredIn(request)
    BY DEF SubmittedIn, TakenIn
  <2>4. QED
    BY <1>3, <2>1, <2>2, <2>3 DEF CountersAgree
<1>8. QED
  BY <1>6, <1>7

(* A reversal takes the days of its original out of usedDays, once.        *)
LEMMA ReverseStep ==
  ASSUME TypeOK, ReversalsMatch, CountersAgree, NEW r \in Requests,
         NEW s \in Requests, NEW actor \in Employees, Reverse(r, s, actor)
  PROVE  ReversalsMatch' /\ CountersAgree'
<1> DEFINE row == ReversalOf(r, request[r], actor)
           n   == request[r].days
<1>1. /\ r \in StoredIn(request) /\ request[r].status = "APPROVED"
      /\ ~ReversedIn(request, r)
      /\ request \in Table
  BY DEF Reverse, Is, StoredIn, TypeOK, Table
<1>2. n \in Nat /\ request[r].account \in Accounts /\ request[r] \in Row
  BY <1>1, RowFields
<1>3. row \in Row /\ row # None
  BY <1>2, RecordsAssumption DEF ReversalOf, Draft, Row, Statuses
<1>4. /\ row.reverses = r /\ row.status = "CANCELLED"
      /\ row.account = request[r].account /\ row.days = request[r].days
  BY DEF ReversalOf, Draft
<1>5. request[r].reverses = None
  BY <1>1, <1>2 DEF ReversalsMatch, Row
<1> HIDE DEF row
<1>6. /\ request' \in Table
      /\ request'[s] = row
      /\ s \notin StoredIn(request)
      /\ \A t \in StoredIn(request) : request'[t] = request[t]
      /\ Book(r, -1, 0)
  BY <1>1, <1>3 DEF Table, Reverse, StoredIn, row
<1>7. StoredIn(request') = StoredIn(request) \cup {s}
  BY <1>1, <1>3 DEF Reverse, StoredIn, Table, row
<1>8. \A t \in StoredIn(request) :
        ReversedIn(request', t) <=> ReversedIn(request, t) \/ t = r
  BY <1>4, <1>6, <1>7 DEF ReversedIn
<1>9. ReversalsMatch'
  <2>1. \A x \in StoredIn(request'), t \in Requests :
          request'[x].reverses = t =>
            /\ request'[x].status = "CANCELLED"
            /\ t \in StoredIn(request')
            /\ request'[t].status = "APPROVED" /\ request'[t].reverses = None
            /\ request'[x].account = request'[t].account
            /\ request'[x].days = request'[t].days
            /\ \A v \in StoredIn(request') :
                 request'[v].reverses = t => v = x
    <3> TAKE x \in StoredIn(request'), t \in Requests
    <3> HAVE request'[x].reverses = t
    <3>1. CASE x = s
      <4>1. t = r
        BY <1>4, <1>6, <3>1
      <4>2. ASSUME NEW v \in StoredIn(request'), request'[v].reverses = r
            PROVE  v = s
        BY <1>1, <1>6, <1>7, <4>2 DEF ReversedIn
      <4>3. QED
        BY <1>1, <1>4, <1>5, <1>6, <1>7, <3>1, <4>1, <4>2
    <3>2. CASE x # s
      <4>1. x \in StoredIn(request) /\ request[x].reverses = t
        BY <1>6, <1>7, <3>2
      <4>2. /\ t \in StoredIn(request)
            /\ request[x].status = "CANCELLED"
            /\ request[t].status = "APPROVED"
            /\ request[t].reverses = None
            /\ request[x].account = request[t].account
            /\ request[x].days = request[t].days
        BY <4>1 DEF ReversalsMatch
      <4>3. t # r
        BY <1>1, <4>1 DEF ReversedIn
      <4>4. ASSUME NEW v \in StoredIn(request'), request'[v].reverses = t
            PROVE  v = x
        <5>1. v \in StoredIn(request) /\ request[v].reverses = t
          BY <1>4, <1>6, <1>7, <4>3, <4>4
        <5>2. QED
          BY <4>1, <5>1 DEF ReversalsMatch
      <4>5. QED
        BY <1>6, <1>7, <4>1, <4>2, <4>4
    <3>3. QED
      BY <3>1, <3>2
  <2>2. QED
    BY <2>1 DEF ReversalsMatch
<1>10. \A S \in SUBSET StoredIn(request) :
         DaysOf(request', S) = DaysOf(request, S)
  BY <1>1, <1>6, DaysSame
<1>11. ASSUME NEW b \in Accounts
       PROVE  /\ DaysOf(request', SubmittedIn(request', b))
                   = DaysOf(request, SubmittedIn(request, b))
                       + (IF b = request[r].account THEN 0 * request[r].days
                                                    ELSE 0)
              /\ DaysOf(request', TakenIn(request', b))
                   = DaysOf(request, TakenIn(request, b))
                       + (IF b = request[r].account
                          THEN (-1) * request[r].days ELSE 0)
  <2> DEFINE S == SubmittedIn(request, b)
             T == TakenIn(request, b)
  <2>1. S \in SUBSET StoredIn(request) /\ T \in SUBSET StoredIn(request)
    BY DEF SubmittedIn, TakenIn
  <2>2. DaysOf(request, S) \in Nat /\ DaysOf(request, T) \in Nat
    BY <1>1, <2>1, UnitsFinite
  <2>3. SubmittedIn(request', b) = S
    BY <1>4, <1>6, <1>7 DEF SubmittedIn
  <2>4. TakenIn(request', b) = T \ {r}
    BY <1>4, <1>6, <1>7, <1>8 DEF TakenIn
  <2>5. r \in T <=> b = request[r].account
    BY <1>1 DEF TakenIn
  <2>6. DaysOf(request', S) = DaysOf(request, S)
    BY <1>10, <2>1
  <2>7. DaysOf(request', T \ {r}) = DaysOf(request, T \ {r})
    BY <1>10, <2>1
  <2>8. 0 * n = 0 /\ (-1) * n = 0 - n
    BY <1>2
  <2> HIDE DEF S, T
  <2>9. CASE b = request[r].account
    <3>1. DaysOf(request, T \ {r}) = DaysOf(request, T) - n
      BY <1>1, <2>1, <2>5, <2>9, DaysRemove
    <3>2. QED
      BY <1>2, <2>2, <2>3, <2>4, <2>6, <2>7, <2>8, <2>9, <3>1 DEF S, T
  <2>10. CASE b # request[r].account
    <3>1. T \ {r} = T
      BY <2>5, <2>10
    <3>2. QED
      BY <2>2, <2>3, <2>4, <2>6, <2>7, <2>10, <3>1 DEF S, T
  <2>11. QED
    BY <2>9, <2>10
<1>12. CountersAgree'
  BY <1>1, <1>6, <1>11, CountersStep
<1>13. QED
  BY <1>9, <1>12

Counted == TypeOK /\ ReversalsMatch /\ CountersAgree

LEMMA CountedInit == Init => Counted
<1> SUFFICES ASSUME Init PROVE Counted
  OBVIOUS
<1>1. TypeOK
  BY DEF Init, TypeOK, Balance
<1>2. StoredIn(request) = {}
  BY DEF Init, StoredIn
<1>3. ReversalsMatch
  BY <1>2 DEF ReversalsMatch
<1>4. CountersAgree
  <2>1. \A a \in Accounts :
          SubmittedIn(request, a) = {} /\ TakenIn(request, a) = {}
    BY <1>2 DEF SubmittedIn, TakenIn
  <2>2. DaysOf(request, {}) = 0
    BY FS_EmptySet DEF DaysOf, DayUnits
  <2>3. QED
    BY <2>1, <2>2 DEF Init, CountersAgree
<1>5. QED
  BY <1>1, <1>3, <1>4 DEF Counted

(* Every operation of the ledger keeps the counters exact.                 *)
LEMMA CountedStep == Counted /\ [Next]_vars => Counted'
<1> SUFFICES ASSUME Counted, [Next]_vars PROVE Counted'
  OBVIOUS
<1>1. TypeOK /\ ReversalsMatch /\ CountersAgree
  BY DEF Counted
<1>2. TypeOK'
  BY <1>1, TypeStep
<1>3. \A r \in Requests, status \in Statuses :
        Is(r, status) => /\ r \in StoredIn(request)
                         /\ request[r] \in Row
                         /\ request[r].status = status
  BY <1>1 DEF Is, StoredIn, TypeOK
<1> USE <1>1
<1>4. ASSUME NEW r \in Requests, NEW a \in Accounts, NEW n \in DayCounts,
             NEW d \in StartDays, Create(r, a, n, d)
      PROVE  ReversalsMatch' /\ CountersAgree'
  BY <1>4, CreateStep
<1>5. ASSUME NEW r \in Requests, Submit(r)
      PROVE  ReversalsMatch' /\ CountersAgree'
  <2> DEFINE row == [request[r] EXCEPT !.status = "SUBMITTED"]
  <2>1. r \in StoredIn(request) /\ request[r] \in Row
        /\ request[r].status = "DRAFT"
    BY <1>3, <1>5 DEF Submit, Statuses
  <2>2. /\ row \in Row /\ row.status = "SUBMITTED"
        /\ row.account = request[r].account /\ row.days = request[r].days
        /\ row.reverses = request[r].reverses
    BY <2>1 DEF Row, Statuses
  <2>3. request' = [request EXCEPT ![r] = row] /\ Book(r, 0, 1)
    BY <1>5 DEF Submit
  <2>4. /\ 0 \in Int /\ 1 \in Int
        /\ 0 = IF row.status = "APPROVED" THEN 1 ELSE 0
        /\ 1 = (IF row.status = "SUBMITTED" THEN 1 ELSE 0)
                 - (IF request[r].status = "SUBMITTED" THEN 1 ELSE 0)
    BY <2>1, <2>2
  <2> HIDE DEF row
  <2>5. QED
    BY <2>1, <2>2, <2>3, <2>4, StatusMove
<1>6. ASSUME NEW r \in Requests, NEW actor \in Employees, Approve(r, actor)
      PROVE  ReversalsMatch' /\ CountersAgree'
  <2> DEFINE row == [request[r] EXCEPT !.status = "APPROVED",
                                       !.approver = actor]
  <2>1. r \in StoredIn(request) /\ request[r] \in Row
        /\ request[r].status = "SUBMITTED"
    BY <1>3, <1>6 DEF Approve, Statuses
  <2>2. /\ row \in Row /\ row.status = "APPROVED"
        /\ row.account = request[r].account /\ row.days = request[r].days
        /\ row.reverses = request[r].reverses
    BY <2>1 DEF Row, Statuses
  <2>3. request' = [request EXCEPT ![r] = row] /\ Book(r, 1, -1)
    BY <1>6 DEF Approve
  <2>4. /\ 1 \in Int /\ -1 \in Int
        /\ 1 = IF row.status = "APPROVED" THEN 1 ELSE 0
        /\ -1 = (IF row.status = "SUBMITTED" THEN 1 ELSE 0)
                 - (IF request[r].status = "SUBMITTED" THEN 1 ELSE 0)
    BY <2>1, <2>2
  <2> HIDE DEF row
  <2>5. QED
    BY <2>1, <2>2, <2>3, <2>4, StatusMove
<1>7. ASSUME NEW r \in Requests, NEW actor \in Employees, Reject(r, actor)
      PROVE  ReversalsMatch' /\ CountersAgree'
  <2> DEFINE row == [request[r] EXCEPT !.status = "REJECTED",
                                       !.approver = actor]
  <2>1. r \in StoredIn(request) /\ request[r] \in Row
        /\ request[r].status = "SUBMITTED"
    BY <1>3, <1>7 DEF Reject, Statuses
  <2>2. /\ row \in Row /\ row.status = "REJECTED"
        /\ row.account = request[r].account /\ row.days = request[r].days
        /\ row.reverses = request[r].reverses
    BY <2>1 DEF Row, Statuses
  <2>3. request' = [request EXCEPT ![r] = row] /\ Book(r, 0, -1)
    BY <1>7 DEF Reject
  <2>4. /\ 0 \in Int /\ -1 \in Int
        /\ 0 = IF row.status = "APPROVED" THEN 1 ELSE 0
        /\ -1 = (IF row.status = "SUBMITTED" THEN 1 ELSE 0)
                 - (IF request[r].status = "SUBMITTED" THEN 1 ELSE 0)
    BY <2>1, <2>2
  <2> HIDE DEF row
  <2>5. QED
    BY <2>1, <2>2, <2>3, <2>4, StatusMove
<1>8. ASSUME NEW r \in Requests, NEW actor \in Employees,
             CancelDraft(r, actor)
      PROVE  ReversalsMatch' /\ CountersAgree'
  <2> DEFINE row == [request[r] EXCEPT !.status = "CANCELLED",
                                       !.cancelledBy = actor]
  <2>1. r \in StoredIn(request) /\ request[r] \in Row
        /\ request[r].status = "DRAFT"
    BY <1>3, <1>8 DEF CancelDraft, Statuses
  <2>2. /\ row \in Row /\ row.status = "CANCELLED"
        /\ row.account = request[r].account /\ row.days = request[r].days
        /\ row.reverses = request[r].reverses
    BY <2>1 DEF Row, Statuses
  <2>3. request' = [request EXCEPT ![r] = row] /\ balance' = balance
    BY <1>8 DEF CancelDraft
  <2>4. Book(r, 0, 0)
    <3> DEFINE a == request[r].account
    <3>1. a \in Accounts /\ request[r].days \in Nat
      BY <2>1, RowFields DEF TypeOK, Table
    <3>2. balance[a] \in [used : Int, pending : Int]
      BY <3>1 DEF TypeOK, Balance
    <3>3. [used    |-> balance[a].used + 0 * request[r].days,
           pending |-> balance[a].pending + 0 * request[r].days] = balance[a]
      BY <3>1, <3>2
    <3>4. QED
      BY <2>3, <3>1, <3>3 DEF Book, TypeOK
  <2>5. /\ 0 \in Int /\ 0 \in Int
        /\ 0 = IF row.status = "APPROVED" THEN 1 ELSE 0
        /\ 0 = (IF row.status = "SUBMITTED" THEN 1 ELSE 0)
                 - (IF request[r].status = "SUBMITTED" THEN 1 ELSE 0)
    BY <2>1, <2>2
  <2> HIDE DEF row
  <2>6. QED
    BY <2>1, <2>2, <2>3, <2>4, <2>5, StatusMove
<1>9. ASSUME NEW r \in Requests, NEW actor \in Employees,
             CancelSubmitted(r, actor)
      PROVE  ReversalsMatch' /\ CountersAgree'
  <2> DEFINE row == [request[r] EXCEPT !.status = "CANCELLED",
                                       !.cancelledBy = actor]
  <2>1. r \in StoredIn(request) /\ request[r] \in Row
        /\ request[r].status = "SUBMITTED"
    BY <1>3, <1>9 DEF CancelSubmitted, Statuses
  <2>2. /\ row \in Row /\ row.status = "CANCELLED"
        /\ row.account = request[r].account /\ row.days = request[r].days
        /\ row.reverses = request[r].reverses
    BY <2>1 DEF Row, Statuses
  <2>3. request' = [request EXCEPT ![r] = row] /\ Book(r, 0, -1)
    BY <1>9 DEF CancelSubmitted
  <2>4. /\ 0 \in Int /\ -1 \in Int
        /\ 0 = IF row.status = "APPROVED" THEN 1 ELSE 0
        /\ -1 = (IF row.status = "SUBMITTED" THEN 1 ELSE 0)
                 - (IF request[r].status = "SUBMITTED" THEN 1 ELSE 0)
    BY <2>1, <2>2
  <2> HIDE DEF row
  <2>5. QED
    BY <2>1, <2>2, <2>3, <2>4, StatusMove
<1>10. ASSUME NEW r \in Requests, NEW s \in Requests,
              NEW actor \in Employees, Reverse(r, s, actor)
       PROVE  ReversalsMatch' /\ CountersAgree'
  BY <1>10, ReverseStep
<1>11. CASE UNCHANGED vars
  <2>1. ReversalsMatch'
    BY <1>11 DEF vars, ReversalsMatch
  <2>2. CountersAgree'
    BY <1>11 DEF vars, CountersAgree
  <2>3. QED
    BY <1>2, <2>1, <2>2 DEF Counted
<1>12. QED
  BY <1>2, <1>4, <1>5, <1>6, <1>7, <1>8, <1>9, <1>10, <1>11
     DEF Next, Counted

(* usedDays and pendingDays of an account always equal the days of its     *)
(* unreversed APPROVED and of its SUBMITTED requests.                      *)
THEOREM CountersCorrect == Spec => []CountersAgree
<1>1. Counted => CountersAgree
  BY DEF Counted
<1>2. QED
  BY <1>1, CountedInit, CountedStep, PTL DEF Spec

(* Every reversal row matches one APPROVED original, and no original has   *)
(* two: cancelling an approval twice cannot release its days twice.        *)
THEOREM ReversalsCorrect == Spec => []ReversalsMatch
<1>1. Counted => ReversalsMatch
  BY DEF Counted
<1>2. QED
  BY <1>1, CountedInit, CountedStep, PTL DEF Spec

-----------------------------------------------------------------------------
(* The ledger implements the lifecycle of a request.                       *)

(* A row that can still change, or be reversed, is an original.            *)
LEMMA OpenIsOriginal ==
  ASSUME TypeOK, ReversalsMatch, NEW r \in StoredIn(request),
         request[r].status # "CANCELLED"
  PROVE  /\ r \in Requests
         /\ request[r] \in Row
         /\ request[r].reverses = None
         /\ ReversedIn(request, r) => request[r].status = "APPROVED"
<1>1. r \in Requests /\ request[r] \in Row
  BY DEF TypeOK, StoredIn
<1>2. request[r].reverses \in Requests \cup {None}
  BY <1>1 DEF Row
<1>3. request[r].reverses = None
  BY <1>2 DEF ReversalsMatch
<1>4. ReversedIn(request, r) => request[r].status = "APPROVED"
  BY <1>1 DEF ReversedIn, ReversalsMatch
<1>5. QED
  BY <1>1, <1>3, <1>4

(* A change of status, and of nothing else the phases depend on, moves its *)
(* request to the phase of the new status.                                 *)
LEMMA StatusPhase ==
  ASSUME TypeOK, ReversalsMatch, NEW r \in StoredIn(request),
         request[r].status \in {"DRAFT", "SUBMITTED"},
         NEW row \in Row, row.reverses = request[r].reverses,
         request' = [request EXCEPT ![r] = row],
         PhaseOf(row.status) \in Lifecycle!After[PhaseOf(request[r].status)],
         PhaseOf(row.status) \in Lifecycle!Phases
  PROVE  Lifecycle!Next
<1> DEFINE next == PhaseOf(row.status)
<1>1. /\ r \in Requests
      /\ request[r] \in Row
      /\ request[r].reverses = None
      /\ ~ReversedIn(request, r)
  BY OpenIsOriginal
<1>2. row # None
  BY RecordsAssumption
<1>3. /\ request \in [Requests -> Row \cup {None}]
      /\ request'[r] = row
      /\ \A x \in Requests : x # r => request'[x] = request[x]
  BY <1>1 DEF TypeOK
<1>4. StoredIn(request') = StoredIn(request)
  BY <1>2, <1>3 DEF StoredIn
<1>5. \A x \in StoredIn(request) : request'[x].reverses = request[x].reverses
  BY <1>3 DEF StoredIn
<1>6. \A x \in Requests : ReversedIn(request', x) <=> ReversedIn(request, x)
  BY <1>4, <1>5 DEF ReversedIn
<1>7. \A x \in Requests : Original(x)' <=> Original(x)
  BY <1>4, <1>5 DEF Original
<1>8. Phase(r) = PhaseOf(request[r].status) /\ Phase(r)' = next
  <2>1. Original(r)
    BY <1>1 DEF Original
  <2>2. QED
    BY <1>1, <1>3, <1>6, <1>7, <2>1 DEF Phase, PhaseOf
<1>9. ASSUME NEW x \in Requests, x # r PROVE Phase(x)' = Phase(x)
  <2>1. request'[x] = request[x]
    BY <1>3, <1>9
  <2>2. Original(x)' <=> Original(x)
    BY <1>7
  <2>3. ReversedIn(request, x)' <=> ReversedIn(request, x)
    BY <1>6
  <2>4. QED
    BY ONLY <2>1, <2>2, <2>3, Zenon DEF Phase
<1> HIDE DEF next
<1>10. [x \in Requests |-> Phase(x)]'
         = [[x \in Requests |-> Phase(x)] EXCEPT ![r] = next]
  BY <1>1, <1>8, <1>9
<1>11. Lifecycle!Move(r, next)
  BY <1>1, <1>8, <1>10 DEF Lifecycle!Move, next
<1>12. QED
  BY <1>1, <1>11 DEF Lifecycle!Next, next

(* A new draft starts the life of its id.                                  *)
LEMMA CreatePhase ==
  ASSUME TypeOK, ReversalsMatch, NEW r \in Requests, NEW a \in Accounts,
         NEW n \in DayCounts, NEW d \in StartDays, Create(r, a, n, d)
  PROVE  Lifecycle!Next
<1> DEFINE row == Draft(a, n, d)
<1>1. /\ row \in Row /\ row # None
      /\ row.status = "DRAFT" /\ row.reverses = None
  BY RecordsAssumption DEF Draft, Row, Statuses
<1> HIDE DEF row
<1>2. /\ request \in [Requests -> Row \cup {None}]
      /\ request[r] = None
      /\ request'[r] = row
      /\ \A x \in Requests : x # r => request'[x] = request[x]
  BY DEF TypeOK, Create, row
<1>3. r \notin StoredIn(request) /\ StoredIn(request') = StoredIn(request) \cup {r}
  BY <1>1, <1>2 DEF StoredIn
<1>4. None \notin Requests
  BY RecordsAssumption
<1>5. \A x \in Requests : ReversedIn(request', x) <=> ReversedIn(request, x)
  BY <1>1, <1>2, <1>3, <1>4 DEF ReversedIn, StoredIn
<1>6. ~ReversedIn(request, r)
  BY <1>3 DEF ReversedIn, ReversalsMatch
<1>7. \A x \in Requests : x # r => (Original(x)' <=> Original(x))
  BY <1>2, <1>3 DEF Original
<1>8. Phase(r) = "none" /\ Phase(r)' = "draft"
  <2>1. ~Original(r) /\ Original(r)'
    BY <1>1, <1>2, <1>3 DEF Original
  <2>2. QED
    BY <1>1, <1>2, <1>5, <1>6, <2>1 DEF Phase, PhaseOf
<1>9. ASSUME NEW x \in Requests, x # r PROVE Phase(x)' = Phase(x)
  <2>1. request'[x] = request[x]
    BY <1>2, <1>9
  <2>2. Original(x)' <=> Original(x)
    BY <1>7, <1>9
  <2>3. ReversedIn(request, x)' <=> ReversedIn(request, x)
    BY <1>5
  <2>4. QED
    BY <2>1, <2>2, <2>3, Zenon DEF Phase
<1>10. [x \in Requests |-> Phase(x)]'
         = [[x \in Requests |-> Phase(x)] EXCEPT ![r] = "draft"]
  BY <1>8, <1>9
<1>11. Lifecycle!Move(r, "draft")
  BY <1>8, <1>10 DEF Lifecycle!Move, Lifecycle!After
<1>12. QED
  BY <1>11 DEF Lifecycle!Next, Lifecycle!Phases

(* A reversal row releases the approval it names and lives no life itself. *)
LEMMA ReversePhase ==
  ASSUME TypeOK, ReversalsMatch, NEW r \in Requests, NEW s \in Requests,
         NEW actor \in Employees, Reverse(r, s, actor)
  PROVE  Lifecycle!Next
<1> DEFINE row == ReversalOf(r, request[r], actor)
<1>1. /\ r \in StoredIn(request) /\ request[r].status = "APPROVED"
      /\ ~ReversedIn(request, r) /\ request[s] = None
  BY DEF Reverse, Is, StoredIn
<1>2. request[r] \in Row /\ request[r].reverses = None
  BY <1>1, OpenIsOriginal
<1>3. row \in Row /\ row # None /\ row.reverses = r
  BY <1>2, RecordsAssumption DEF ReversalOf, Draft, Row, Statuses
<1> HIDE DEF row
<1>4. /\ request \in [Requests -> Row \cup {None}]
      /\ request'[s] = row
      /\ \A x \in Requests : x # s => request'[x] = request[x]
  BY DEF TypeOK, Reverse, row
<1>5. /\ s # r /\ s \notin StoredIn(request)
      /\ StoredIn(request') = StoredIn(request) \cup {s}
  BY <1>1, <1>3, <1>4 DEF StoredIn
<1>6. None # r
  BY RecordsAssumption
<1>7. \A x \in Requests :
        ReversedIn(request', x) <=> (ReversedIn(request, x) \/ x = r)
  BY <1>3, <1>4, <1>5 DEF ReversedIn, StoredIn
<1>8. \A x \in Requests : Original(x)' <=> Original(x)
  BY <1>3, <1>4, <1>5, <1>6 DEF Original
<1>9. Phase(r) = "approved" /\ Phase(r)' = "released"
  BY <1>1, <1>2, <1>7, <1>8 DEF Phase, PhaseOf, Original
<1>10. ASSUME NEW x \in Requests, x # r PROVE Phase(x)' = Phase(x)
  <2>1. CASE x = s
    BY <1>5, <1>8, <2>1 DEF Phase, Original
  <2>2. CASE x # s
    <3>1. request'[x] = request[x]
      BY <1>4, <2>2
    <3>2. Original(x)' <=> Original(x)
      BY <1>8
    <3>3. ReversedIn(request, x)' <=> ReversedIn(request, x)
      BY <1>7, <1>10
    <3>4. QED
      BY <3>1, <3>2, <3>3, Zenon DEF Phase
  <2>3. QED
    BY <2>1, <2>2
<1>11. [x \in Requests |-> Phase(x)]'
         = [[x \in Requests |-> Phase(x)] EXCEPT ![r] = "released"]
  BY <1>9, <1>10
<1>12. Lifecycle!Move(r, "released")
  BY <1>9, <1>11 DEF Lifecycle!Move, Lifecycle!After
<1>13. QED
  BY <1>12 DEF Lifecycle!Next, Lifecycle!Phases

LEMMA LifecycleInit == Init => Lifecycle!Init
<1> SUFFICES ASSUME Init PROVE Lifecycle!Init
  OBVIOUS
<1>1. \A r \in Requests : ~Original(r)
  BY DEF Init, Original, StoredIn
<1>2. \A r \in Requests : Phase(r) = "none"
  BY <1>1 DEF Phase
<1>3. QED
  BY <1>2 DEF Lifecycle!Init

LEMMA LifecycleStep ==
  Counted /\ [Next]_vars
    => [Lifecycle!Next]_([r \in Requests |-> Phase(r)])
<1> SUFFICES ASSUME Counted, [Next]_vars
             PROVE  [Lifecycle!Next]_([r \in Requests |-> Phase(r)])
  OBVIOUS
<1>1. TypeOK /\ ReversalsMatch
  BY DEF Counted
<1>2. ASSUME NEW r \in Requests, NEW status \in Statuses, Is(r, status)
      PROVE  /\ r \in StoredIn(request)
             /\ request[r] \in Row
             /\ request[r].status = status
  BY <1>1, <1>2 DEF Is, StoredIn, TypeOK
<1> USE <1>1
<1>3. ASSUME NEW r \in Requests, NEW a \in Accounts, NEW n \in DayCounts,
             NEW d \in StartDays, Create(r, a, n, d)
      PROVE  Lifecycle!Next
  BY <1>3, CreatePhase
<1>4. ASSUME NEW r \in Requests, Submit(r)
      PROVE  Lifecycle!Next
  <2> DEFINE row == [request[r] EXCEPT !.status = "SUBMITTED"]
  <2>1. r \in StoredIn(request) /\ request[r] \in Row
        /\ request[r].status = "DRAFT"
    BY <1>2, <1>4 DEF Submit, Statuses
  <2>2. /\ row \in Row /\ row.status = "SUBMITTED"
        /\ row.reverses = request[r].reverses
    BY <2>1 DEF Row, Statuses
  <2>3. request' = [request EXCEPT ![r] = row]
    BY <1>4 DEF Submit
  <2> HIDE DEF row
  <2>4. QED
    BY <2>1, <2>2, <2>3, StatusPhase
       DEF PhaseOf, Lifecycle!After, Lifecycle!Phases
<1>5. ASSUME NEW r \in Requests, NEW actor \in Employees, Approve(r, actor)
      PROVE  Lifecycle!Next
  <2> DEFINE row == [request[r] EXCEPT !.status = "APPROVED",
                                       !.approver = actor]
  <2>1. r \in StoredIn(request) /\ request[r] \in Row
        /\ request[r].status = "SUBMITTED"
    BY <1>2, <1>5 DEF Approve, Statuses
  <2>2. /\ row \in Row /\ row.status = "APPROVED"
        /\ row.reverses = request[r].reverses
    BY <2>1 DEF Row, Statuses
  <2>3. request' = [request EXCEPT ![r] = row]
    BY <1>5 DEF Approve
  <2> HIDE DEF row
  <2>4. QED
    BY <2>1, <2>2, <2>3, StatusPhase
       DEF PhaseOf, Lifecycle!After, Lifecycle!Phases
<1>6. ASSUME NEW r \in Requests, NEW actor \in Employees, Reject(r, actor)
      PROVE  Lifecycle!Next
  <2> DEFINE row == [request[r] EXCEPT !.status = "REJECTED",
                                       !.approver = actor]
  <2>1. r \in StoredIn(request) /\ request[r] \in Row
        /\ request[r].status = "SUBMITTED"
    BY <1>2, <1>6 DEF Reject, Statuses
  <2>2. /\ row \in Row /\ row.status = "REJECTED"
        /\ row.reverses = request[r].reverses
    BY <2>1 DEF Row, Statuses
  <2>3. request' = [request EXCEPT ![r] = row]
    BY <1>6 DEF Reject
  <2> HIDE DEF row
  <2>4. QED
    BY <2>1, <2>2, <2>3, StatusPhase
       DEF PhaseOf, Lifecycle!After, Lifecycle!Phases
<1>7. ASSUME NEW r \in Requests, NEW actor \in Employees,
             CancelDraft(r, actor) \/ CancelSubmitted(r, actor)
      PROVE  Lifecycle!Next
  <2> DEFINE row == [request[r] EXCEPT !.status = "CANCELLED",
                                       !.cancelledBy = actor]
  <2>1. r \in StoredIn(request) /\ request[r] \in Row
        /\ request[r].status \in {"DRAFT", "SUBMITTED"}
    BY <1>2, <1>7 DEF CancelDraft, CancelSubmitted, Statuses
  <2>2. /\ row \in Row /\ row.status = "CANCELLED"
        /\ row.reverses = request[r].reverses
    BY <2>1 DEF Row, Statuses
  <2>3. request' = [request EXCEPT ![r] = row]
    BY <1>7 DEF CancelDraft, CancelSubmitted
  <2> HIDE DEF row
  <2>4. QED
    BY <2>1, <2>2, <2>3, StatusPhase
       DEF PhaseOf, Lifecycle!After, Lifecycle!Phases
<1>8. ASSUME NEW r \in Requests, NEW s \in Requests, NEW actor \in Employees,
             Reverse(r, s, actor)
      PROVE  Lifecycle!Next
  BY <1>8, ReversePhase
<1>9. CASE UNCHANGED vars
  <2>1. request' = request
    BY <1>9 DEF vars
  <2>2. [r \in Requests |-> Phase(r)]' = [r \in Requests |-> Phase(r)]
    BY <2>1 DEF Phase, Original
  <2>3. QED
    BY <2>2
<1>10. CASE Next
  BY <1>3, <1>4, <1>5, <1>6, <1>7, <1>8, <1>10 DEF Next
<1>11. QED
  BY <1>9, <1>10

(* The ledger implements the lifecycle: for any number of requests, every  *)
(* operation moves one of them one phase on, an approval is never undone   *)
(* and is released at most once.                                           *)
THEOREM RefinesLifecycle == Spec => ImplementsLifecycle
<1>1. QED
  BY LifecycleInit, LifecycleStep, CountedInit, CountedStep, PTL
     DEF Spec, ImplementsLifecycle, Lifecycle!Spec
=============================================================================
