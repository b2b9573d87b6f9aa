-------------------------- MODULE LeaveServiceProofs --------------------------
(***************************************************************************)
(* Proofs about LeaveService, for every set of employees, accounts,        *)
(* requests and handlers, with and without overlapping calls: the types,   *)
(* that FOR UPDATE lets no update of a balance be lost, the order of the   *)
(* row locks, that balances, notifications and reversals are what the      *)
(* audit trail says, that serial calls on a request implement LeaveLedger, *)
(* and that overlapping ones implement LeaveCommits.                       *)
(***************************************************************************)
EXTENDS LeaveService, FiniteSetTheorems, TLAPS

(* A call that is past its guards names a stored request, whose row it has *)
(* read; a call to create carries the row it will insert; and a call that  *)
(* has written knows what it wrote.                                        *)
Informed(c) ==
  c.pc # "idle" =>
    /\ c.op \in Ops /\ c.actor \in Employees
    /\ c.op = "create" => c.out \in Row
    /\ c.op # "create" => /\ c.id \in Requests
                          /\ request[c.id] # None
                          /\ c.seen \in Row
    /\ c.pc = "written" => c.target \in Requests /\ c.out \in Row

(* What a call of h holds under FOR UPDATE is locked and current.          *)
Guarded(h, c) ==
  c.pc \in {"locked", "written"} /\ TouchesBalance(c) =>
    /\ balanceLock[c.seen.account] = h
    /\ c.held = balance[c.seen.account]

Safe ==
  /\ TypeOK
  /\ \A h \in Handlers : Informed(call[h]) /\ Guarded(h, call[h])

LocksTyped ==
  /\ balanceLock \in [Accounts -> Handlers \cup {None}]
  /\ rowLock \in [Requests -> Handlers \cup {None}]

LEMMA IdleCall == Idle \in Call /\ ZeroBalance \in Balance
BY DEF Idle, Call, Steps, Balance, ZeroBalance

(* A step of h that commits nothing and takes or gives back only its own   *)
(* locks disturbs no other call.                                           *)
LEMMA OneCall ==
  ASSUME Safe, NEW h \in Handlers, NEW c \in Call,
         call' = [call EXCEPT ![h] = c], UNCHANGED <<db, today>>,
         LocksTyped',
         Informed(c), Guarded(h, c)',
         \A a \in Accounts : balanceLock'[a] = balanceLock[a]
                               \/ balanceLock[a] \in {None, h}
  PROVE  Safe'
<1>1. /\ TypeOK
      /\ \A g \in Handlers : Informed(call[g]) /\ Guarded(g, call[g])
  BY DEF Safe
<1>2. TypeOK'
  BY <1>1 DEF TypeOK, LocksTyped, db
<1>3. call'[h] = c /\ \A g \in Handlers : g # h => call'[g] = call[g]
  BY <1>1 DEF TypeOK
<1>4. ASSUME NEW g \in Handlers PROVE Informed(call[g])'
  <2>1. Informed(call'[g])
    BY <1>1, <1>3
  <2>2. QED
    BY <2>1 DEF Informed, db
<1>5. ASSUME NEW g \in Handlers PROVE Guarded(g, call[g])'
  <2>1. CASE g = h
    BY <1>3, <2>1 DEF Guarded, TouchesBalance, Cancels
  <2>2. CASE g # h
    <3>1. call'[g] = call[g]
      BY <1>3, <2>2
    <3>2. SUFFICES ASSUME call[g].pc \in {"locked", "written"},
                          TouchesBalance(call[g])
                   PROVE  /\ balanceLock'[call[g].seen.account] = g
                          /\ call[g].held = balance'[call[g].seen.account]
      BY <3>1 DEF Guarded, TouchesBalance, Cancels
    <3>3. /\ balanceLock[call[g].seen.account] = g
          /\ call[g].held = balance[call[g].seen.account]
      BY <1>1, <3>2 DEF Guarded
    <3>4. call[g].seen.account \in Accounts
      <4>1. call[g].seen \in Row
        BY <1>1, <3>2 DEF Informed, TouchesBalance, Cancels
      <4>2. QED
        BY <4>1 DEF Row
    <3>5. g # None
      BY ServiceAssumption
    <3>6. QED
      BY <2>2, <3>3, <3>4, <3>5 DEF db
  <2>3. QED
    BY <2>1, <2>2
<1>6. QED
  BY <1>2, <1>4, <1>5 DEF Safe

(* The end of a transaction that commits nothing.                          *)
LEMMA ReleaseStep ==
  ASSUME Safe, NEW h \in Handlers, Release(h), UNCHANGED <<db, today>>
  PROVE  Safe'
<1>1. call' = [call EXCEPT ![h] = Idle]
  BY DEF Release
<1>2. LocksTyped'
  BY DEF Safe, TypeOK, Release, LocksTyped
<1>3. Informed(Idle) /\ Guarded(h, Idle)'
  BY DEF Informed, Guarded, Idle
<1>4. \A a \in Accounts : balanceLock'[a] = balanceLock[a]
                            \/ balanceLock[a] \in {None, h}
  BY DEF Release
<1>5. QED
  BY <1>1, <1>2, <1>3, <1>4, IdleCall, OneCall

(* A write of a call that holds what it needs stages a well-formed row.    *)
LEMMA StageStep ==
  ASSUME Safe, NEW h \in Handlers, NEW r \in Requests, NEW row \in Row,
         NEW booked \in Balance, call[h].pc # "idle",
         call[h].pc = "locked" \/ ~TouchesBalance(call[h]),
         Stage(h, r, row, booked)
  PROVE  Safe'
<1>1. call[h] \in Call /\ Informed(call[h]) /\ Guarded(h, call[h])
  BY DEF Safe, TypeOK
<1>2. PICK c \in Call : c = [call[h] EXCEPT !.pc = "written", !.target = r,
                                          !.out = row, !.booked = booked]
  BY <1>1 DEF Call, Steps
<1>3. call' = [call EXCEPT ![h] = c]
  BY <1>2 DEF Stage, Safe, TypeOK
<1>4. /\ c.pc = "written" /\ c.target = r /\ c.out = row
      /\ c.op = call[h].op /\ c.actor = call[h].actor /\ c.id = call[h].id
      /\ c.seen = call[h].seen /\ c.held = call[h].held
  BY <1>1, <1>2 DEF Call
<1>5. Informed(c)
  BY <1>1, <1>4 DEF Informed
<1>6. balance' = balance /\ balanceLock' = balanceLock /\ UNCHANGED <<db, today>>
  BY DEF Stage, db
<1>7. Guarded(h, c)'
  <2>1. TouchesBalance(c) <=> TouchesBalance(call[h])
    BY <1>4 DEF TouchesBalance, Cancels
  <2>2. TouchesBalance(c) => /\ balanceLock[c.seen.account] = h
                             /\ c.held = balance[c.seen.account]
    BY <1>1, <1>4, <2>1 DEF Guarded
  <2>3. QED
    BY <1>6, <2>2 DEF Guarded, TouchesBalance, Cancels
<1>8. LocksTyped'
  BY DEF Safe, TypeOK, Stage, LocksTyped
<1>9. QED
  BY <1>2, <1>3, <1>5, <1>6, <1>7, <1>8, OneCall

(* The guards before the transaction.                                      *)
LEMMA AcceptStep ==
  ASSUME Safe, NEW h \in Handlers, NEW op \in Ops, NEW actor \in Employees,
         NEW r \in Requests, op # "create", request[r] # None,
         Accept(h, op, actor, r)
  PROVE  Safe'
<1>1. request[r] \in Row
  BY DEF Safe, TypeOK
<1>2. PICK c \in Call : c = [Idle EXCEPT !.pc = "checked", !.op = op,
                !.actor = actor, !.id = r, !.seen = request[r]]
  BY <1>1, IdleCall DEF Call, Steps
<1>3. /\ c.pc = "checked" /\ c.op = op /\ c.actor = actor
      /\ c.id = r /\ c.seen = request[r]
  BY <1>2 DEF Idle
<1>4. Informed(c) /\ Guarded(h, c)'
  BY <1>1, <1>3 DEF Informed, Guarded
<1>5. LocksTyped'
  BY DEF Accept, Safe, TypeOK, LocksTyped, locks
<1>6. call' = [call EXCEPT ![h] = c] /\ UNCHANGED <<db, balanceLock, today>>
  BY <1>2 DEF Accept, locks
<1>7. QED
  BY <1>4, <1>5, <1>6, OneCall

LEMMA ReceiveStep ==
  ASSUME Safe, NEW h \in Handlers, Receive(h)
  PROVE  Safe'
<1>1. ASSUME NEW actor \in Employees, NEW a \in Accounts, NEW n \in DayCounts,
             NEW d \in StartDays, CheckCreate(h, actor, a, n, d)
      PROVE  Safe'
  <2>1. Draft(a, n, d) \in Row
    BY DEF Draft, Row, Statuses
  <2>2. PICK c \in Call : c = [Idle EXCEPT !.pc = "checked", !.op = "create",
                !.actor = actor, !.out = Draft(a, n, d)]
    BY <2>1, IdleCall DEF Call, Steps, Ops
  <2>3. /\ c.pc = "checked" /\ c.op = "create" /\ c.actor = actor
        /\ c.out = Draft(a, n, d)
    BY <2>2 DEF Idle
  <2>4. Informed(c) /\ Guarded(h, c)'
    BY <2>1, <2>3 DEF Informed, Guarded, Ops
  <2>5. LocksTyped'
    BY <1>1 DEF CheckCreate, Safe, TypeOK, LocksTyped, locks
  <2>6. call' = [call EXCEPT ![h] = c] /\ UNCHANGED <<db, balanceLock, today>>
    BY <1>1, <2>2 DEF CheckCreate, locks
  <2>7. QED
    BY <2>4, <2>5, <2>6, OneCall
<1>2. ASSUME NEW actor \in Employees, NEW r \in Requests,
             CheckSubmit(h, actor, r)
      PROVE  Safe'
  BY <1>2, AcceptStep DEF CheckSubmit, Stored, StoredIn, Ops
<1>3. ASSUME NEW actor \in Employees, NEW r \in Requests,
             NEW op \in {"approve", "reject"}, CheckDecide(h, op, actor, r)
      PROVE  Safe'
  BY <1>3, AcceptStep DEF CheckDecide, Stored, StoredIn, Ops
<1>4. ASSUME NEW actor \in Employees, NEW r \in Requests,
             CheckCancel(h, actor, r)
      PROVE  Safe'
  BY <1>4, AcceptStep DEF CheckCancel, Stored, StoredIn, Ops
<1>5. QED
  BY <1>1, <1>2, <1>3, <1>4 DEF Receive

LEMMA FindReversalStep ==
  ASSUME Safe, NEW h \in Handlers, FindReversal(h)
  PROVE  Safe'
<1>1. call[h] \in Call /\ Informed(call[h])
  BY DEF Safe, TypeOK
<1>2. PICK c \in Call : c = [call[h] EXCEPT !.pc = "searched"]
  BY <1>1 DEF Call, Steps
<1>3. /\ c.pc = "searched" /\ c.op = call[h].op /\ c.actor = call[h].actor
      /\ c.id = call[h].id /\ c.seen = call[h].seen /\ c.out = call[h].out
      /\ call[h].pc = "checked"
  BY <1>1, <1>2 DEF Call, FindReversal
<1>4. Informed(c) /\ Guarded(h, c)'
  BY <1>1, <1>3 DEF Informed, Guarded
<1>5. LocksTyped'
  BY DEF FindReversal, Safe, TypeOK, LocksTyped, locks
<1>6. call' = [call EXCEPT ![h] = c] /\ UNCHANGED <<db, balanceLock, today>>
  BY <1>2 DEF FindReversal, locks, Safe, TypeOK
<1>7. QED
  BY <1>4, <1>5, <1>6, OneCall

(* The balance is read by the statement that locks it.                     *)
LEMMA LockBalanceStep ==
  ASSUME Safe, NEW h \in Handlers, LockBalance(h)
  PROVE  Safe'
<1> DEFINE a == call[h].seen.account
<1>1. call[h] \in Call /\ Informed(call[h])
  BY DEF Safe, TypeOK
<1>2. call[h].pc \in {"checked", "searched"} /\ TouchesBalance(call[h])
  BY DEF LockBalance, WantsBalance
<1>3. call[h].seen \in Row
  BY <1>1, <1>2 DEF Informed, TouchesBalance, Cancels
<1>4. a \in Accounts /\ balance[a] \in Balance /\ balanceLock[a] = None
  BY <1>3 DEF Row, Safe, TypeOK, LockBalance
<1>5. PICK c \in Call : c = [call[h] EXCEPT !.pc = "locked",
                                          !.held = balance[a]]
  BY <1>1, <1>4 DEF Call, Steps
<1>6. /\ c.pc = "locked" /\ c.held = balance[a]
      /\ c.op = call[h].op /\ c.actor = call[h].actor
      /\ c.id = call[h].id /\ c.seen = call[h].seen /\ c.out = call[h].out
  BY <1>1, <1>5 DEF Call
<1>7. balanceLock' = [balanceLock EXCEPT ![a] = h] /\ UNCHANGED <<db, today>>
  BY DEF LockBalance
<1>8. Informed(c)
  BY <1>1, <1>2, <1>6 DEF Informed
<1>9. Guarded(h, c)'
  <2>1. balanceLock'[a] = h /\ balance' = balance
    BY <1>4, <1>7 DEF Safe, TypeOK, db
  <2>2. QED
    BY <1>6, <2>1 DEF Guarded
<1>10. LocksTyped'
  BY <1>4, <1>7 DEF LockBalance, Safe, TypeOK, LocksTyped
<1>11. call' = [call EXCEPT ![h] = c]
  BY <1>5 DEF LockBalance, Safe, TypeOK
<1>12. \A b \in Accounts : balanceLock'[b] = balanceLock[b]
                              \/ balanceLock[b] \in {None, h}
  BY <1>4, <1>7 DEF Safe, TypeOK
<1>13. QED
  BY <1>7, <1>8, <1>9, <1>10, <1>11, <1>12, OneCall

(* The counters a call computes are integers.                              *)
LEMMA MovesType ==
  ASSUME NEW c \in Call, c.seen \in Row, NEW u \in {-1, 0, 1},
         NEW p \in {-1, 0, 1}
  PROVE  Moves(c, u, p) \in Balance
<1>1. c.seen.days \in Nat /\ c.held.used \in Int /\ c.held.pending \in Int
  BY RecordsAssumption DEF Row, Call, Balance
<1>2. u * c.seen.days \in Int /\ p * c.seen.days \in Int
  BY <1>1
<1>3. QED
  BY <1>1, <1>2 DEF Moves, Balance

LEMMA WriteStep ==
  ASSUME Safe, NEW h \in Handlers,
         \/ WriteSubmit(h) \/ WriteApprove(h) \/ WriteReject(h)
         \/ WriteCancelSubmitted(h) \/ WriteCancelDraft(h)
         \/ \E r \in Requests : InsertDraft(h, r) \/ InsertReversal(h, r)
  PROVE  Safe'
<1> DEFINE c == call[h]
<1>1. call[h] \in Call /\ Informed(call[h])
  BY DEF Safe, TypeOK
<1>2. call[h].booked \in Balance
  BY <1>1 DEF Call
<1>3. call[h].pc # "idle" /\ call[h].op # "create" =>
        /\ call[h].id \in Requests /\ request[call[h].id] \in Row
        /\ call[h].seen \in Row /\ call[h].actor \in Employees
  BY <1>1 DEF Informed, Safe, TypeOK
<1>4. CASE WriteSubmit(h)
  <2>1. [request[call[h].id] EXCEPT !.status = "SUBMITTED"] \in Row
    BY <1>3, <1>4 DEF WriteSubmit, Row, Statuses
  <2>2. Moves(call[h], 0, 1) \in Balance
    BY <1>1, <1>3, <1>4, MovesType DEF WriteSubmit
  <2>3. QED
    BY <1>3, <1>4, <2>1, <2>2, StageStep DEF WriteSubmit
<1>5. CASE WriteApprove(h)
  <2>1. [request[call[h].id] EXCEPT !.status = "APPROVED",
                                    !.approver = call[h].actor] \in Row
    BY <1>3, <1>5 DEF WriteApprove, Row, Statuses
  <2>2. Moves(call[h], 1, -1) \in Balance
    BY <1>1, <1>3, <1>5, MovesType DEF WriteApprove
  <2>3. QED
    BY <1>3, <1>5, <2>1, <2>2, StageStep DEF WriteApprove
<1>6. CASE WriteReject(h)
  <2>1. [request[call[h].id] EXCEPT !.status = "REJECTED",
                                    !.approver = call[h].actor] \in Row
    BY <1>3, <1>6 DEF WriteReject, Row, Statuses
  <2>2. Moves(call[h], 0, -1) \in Balance
    BY <1>1, <1>3, <1>6, MovesType DEF WriteReject
  <2>3. QED
    BY <1>3, <1>6, <2>1, <2>2, StageStep DEF WriteReject
<1>7. ASSUME call[h].pc # "idle", call[h].op = "cancel"
      PROVE  Cancelled(call[h]) \in Row
  BY <1>3, <1>7 DEF Cancelled, Row, Statuses
<1>8. CASE WriteCancelSubmitted(h)
  <2>1. call[h].pc = "locked" /\ call[h].op = "cancel"
    BY <1>8 DEF WriteCancelSubmitted, Cancels
  <2>2. Moves(call[h], 0, -1) \in Balance
    BY <1>1, <1>3, <2>1, MovesType
  <2>3. QED
    BY <1>3, <1>7, <1>8, <2>1, <2>2, StageStep DEF WriteCancelSubmitted
<1>9. CASE WriteCancelDraft(h)
  <2>1. /\ call[h].pc = "checked" /\ call[h].op = "cancel"
        /\ ~TouchesBalance(call[h])
    BY <1>9 DEF WriteCancelDraft, Cancels, TouchesBalance
  <2>2. QED
    BY <1>2, <1>3, <1>7, <1>9, <2>1, StageStep DEF WriteCancelDraft
<1>10. ASSUME NEW r \in Requests, InsertDraft(h, r)
       PROVE  Safe'
  <2>1. /\ call[h].pc = "checked" /\ call[h].out \in Row
        /\ ~TouchesBalance(call[h])
    BY <1>1, <1>10 DEF InsertDraft, Informed, Cancels, TouchesBalance
  <2>2. QED
    BY <1>2, <1>10, <2>1, StageStep DEF InsertDraft
<1>11. ASSUME NEW r \in Requests, InsertReversal(h, r)
       PROVE  Safe'
  <2>1. call[h].pc = "locked" /\ call[h].op = "cancel"
    BY <1>11 DEF InsertReversal, Cancels
  <2>2. ReversalOf(call[h].id, call[h].seen, call[h].actor) \in Row
    BY <1>3, <2>1 DEF ReversalOf, Draft, Row, Statuses
  <2>3. Moves(call[h], -1, 0) \in Balance
    BY <1>1, <1>3, <2>1, MovesType
  <2>4. QED
    BY <1>11, <2>1, <2>2, <2>3, StageStep DEF InsertReversal
<1>12. QED
  BY <1>4, <1>5, <1>6, <1>8, <1>9, <1>10, <1>11

(* A commit publishes what was booked on the account it has locked, which  *)
(* no other call has read.                                                 *)
LEMMA CommitStep ==
  ASSUME Safe, NEW h \in Handlers, Commit(h)
  PROVE  Safe'
<1>1. /\ call[h] \in Call /\ Informed(call[h]) /\ call[h].pc = "written"
      /\ TypeOK /\ Guarded(h, call[h])
  BY DEF Safe, TypeOK, Commit
<1>2. /\ call[h].target \in Requests /\ call[h].out \in Row
      /\ call[h].op \in Ops /\ call[h].actor \in Employees
      /\ Subject(call[h]) \in Requests
      /\ call[h].op # "create" => call[h].seen \in Row
  BY <1>1 DEF Informed, Subject
<1>3. call' = [call EXCEPT ![h] = Idle] /\ Release(h)
  BY DEF Commit, Release
<1>4. /\ request' = [request EXCEPT ![call[h].target] = call[h].out]
      /\ request' \in [Requests -> Row \cup {None}]
  BY <1>1, <1>2 DEF Commit, TypeOK
<1>5. balance' \in [Accounts -> Balance]
  <2>1. TouchesBalance(call[h]) => call[h].seen.account \in Accounts
    BY <1>2 DEF TouchesBalance, Cancels, Row
  <2>2. call[h].booked \in Balance
    BY <1>1 DEF Call
  <2>3. QED
    BY <1>1, <2>1, <2>2 DEF Commit, TypeOK
<1>6. audit' \in [Requests -> Seq(Entry)]
  <2>1. Recorded(call[h]) \in Entry
    <3>1. call[h].op # "create" => call[h].seen.status \in Statuses
      BY <1>2 DEF Row
    <3>2. call[h].out.status \in Statuses
      BY <1>2 DEF Row
    <3>3. QED
      BY <1>2, <3>1, <3>2 DEF Recorded, Entry
  <2>2. audit[Subject(call[h])] \in Seq(Entry)
    BY <1>1, <1>2 DEF TypeOK
  <2>3. Append(audit[Subject(call[h])], Recorded(call[h])) \in Seq(Entry)
    BY <2>1, <2>2
  <2>4. audit' = [audit EXCEPT ![Subject(call[h])]
                    = Append(audit[Subject(call[h])], Recorded(call[h]))]
    BY DEF Commit
  <2>5. QED
    BY <1>1, <2>3, <2>4 DEF TypeOK
<1>7. notified' \in [Requests -> Nat]
  BY <1>1, <1>2 DEF Commit, TypeOK
<1>8. LocksTyped' /\ today' \in Nat /\ call' \in [Handlers -> Call]
  BY <1>1, <1>3, IdleCall DEF Commit, Release, TypeOK, LocksTyped
<1>9. TypeOK'
  BY <1>4, <1>5, <1>6, <1>7, <1>8 DEF TypeOK, LocksTyped
<1>10. call'[h] = Idle /\ \A g \in Handlers : g # h => call'[g] = call[g]
  BY <1>1, <1>3 DEF TypeOK
<1>11. \A r \in Requests : request[r] # None => request'[r] # None
  BY <1>1, <1>2, <1>4, RecordsAssumption DEF TypeOK
<1>12. ASSUME NEW g \in Handlers PROVE Informed(call[g])'
  <2>1. CASE g = h
    BY <1>10, <2>1 DEF Informed, Idle
  <2>2. CASE g # h
    <3>1. Informed(call[g]) /\ call'[g] = call[g]
      BY <1>10, <2>2 DEF Safe
    <3>2. QED
      BY <1>11, <3>1 DEF Informed
  <2>3. QED
    BY <2>1, <2>2
<1>13. ASSUME NEW g \in Handlers PROVE Guarded(g, call[g])'
  <2>1. CASE g = h
    BY <1>10, <2>1 DEF Guarded, Idle
  <2>2. CASE g # h
    <3>1. call'[g] = call[g] /\ Guarded(g, call[g]) /\ Informed(call[g])
      BY <1>10, <2>2 DEF Safe
    <3>2. SUFFICES ASSUME call[g].pc \in {"locked", "written"},
                          TouchesBalance(call[g])
                   PROVE  /\ balanceLock'[call[g].seen.account] = g
                          /\ call[g].held = balance'[call[g].seen.account]
      BY <3>1 DEF Guarded, TouchesBalance, Cancels
    <3>3. /\ balanceLock[call[g].seen.account] = g
          /\ call[g].held = balance[call[g].seen.account]
      BY <3>1, <3>2 DEF Guarded
    <3>4. call[g].seen.account \in Accounts
      <4>1. call[g].seen \in Row
        BY <3>1, <3>2 DEF Informed, TouchesBalance, Cancels
      <4>2. QED
        BY <4>1 DEF Row
    <3>5. balanceLock'[call[g].seen.account] = g
      BY <1>3, <2>2, <3>3, <3>4 DEF Release
    <3>6. balance'[call[g].seen.account] = balance[call[g].seen.account]
      <4>1. TouchesBalance(call[h]) =>
              call[h].seen.account # call[g].seen.account
        BY <1>1, <2>2, <3>3 DEF Guarded
      <4>2. QED
        BY <1>1, <3>4, <4>1 DEF Commit, TypeOK
    <3>7. QED
      BY <3>3, <3>5, <3>6
  <2>3. QED
    BY <2>1, <2>2
<1>14. QED
  BY <1>9, <1>12, <1>13 DEF Safe

-----------------------------------------------------------------------------

LEMMA SafeInit == Init => Safe
<1> SUFFICES ASSUME Init PROVE Safe
  OBVIOUS
<1>1. TypeOK
  BY IdleCall DEF Init, TypeOK
<1>2. \A h \in Handlers : Informed(call[h]) /\ Guarded(h, call[h])
  BY DEF Init, Informed, Guarded, Idle
<1>3. QED
  BY <1>1, <1>2 DEF Safe

LEMMA SafeStep == Safe /\ [Next]_vars => Safe'
<1> SUFFICES ASSUME Safe, [Next]_vars PROVE Safe'
  OBVIOUS
<1>1. ASSUME NEW h \in Handlers, Receive(h) PROVE Safe'
  BY <1>1, ReceiveStep
<1>2. ASSUME NEW h \in Handlers, Proceed(h) PROVE Safe'
  <2>1. CASE FindReversal(h)
    BY <2>1, FindReversalStep
  <2>2. CASE LockBalance(h)
    BY <2>2, LockBalanceStep
  <2>3. CASE Commit(h)
    BY <2>3, CommitStep
  <2>4. CASE Refuse(h)
    BY <2>4, ReleaseStep DEF Refuse
  <2>5. QED
    BY <1>2, <2>1, <2>2, <2>3, <2>4, WriteStep DEF Proceed
<1>3. ASSUME NEW h \in Handlers, Abort(h) PROVE Safe'
  BY <1>3, ReleaseStep DEF Abort
<1>4. CASE NextDay
  <2>1. TypeOK'
    BY <1>4 DEF NextDay, Safe, TypeOK, db, locks
  <2>2. QED
    BY <1>4, <2>1 DEF NextDay, Safe, Informed, Guarded, TouchesBalance,
                      Cancels, db, locks
<1>5. CASE UNCHANGED vars
  <2>1. TypeOK'
    BY <1>5 DEF vars, Safe, TypeOK, db, locks
  <2>2. QED
    BY <1>5, <2>1 DEF vars, Safe, Informed, Guarded, TouchesBalance,
                      Cancels, db, locks
<1>6. QED
  BY <1>1, <1>2, <1>3, <1>4, <1>5 DEF Next

(* The tables, the locks and the local state of every handler have their   *)
(* types whatever calls overlap.                                           *)
THEOREM TypeCorrect == Spec => []TypeOK
<1>1. Safe => TypeOK
  BY DEF Safe
<1>2. QED
  BY <1>1, SafeInit, SafeStep, PTL DEF Spec

(* SELECT ... FOR UPDATE in resolveBalance prevents lost updates: what a   *)
(* call read of the balance is still current when it writes.               *)
THEOREM NoUpdateLost == Spec => []NoLostUpdate
<1>1. Safe => NoLostUpdate
  BY DEF Safe, Guarded, NoLostUpdate
<1>2. QED
  BY <1>1, SafeInit, SafeStep, PTL DEF Spec

-----------------------------------------------------------------------------
(* The order of row locks: calls never wait for each other in a circle, so *)
(* PostgreSQL has no deadlock to break, whichever of them overlap.         *)

(* Row locks belong to transactions: a balance row to one that has read it *)
(* FOR UPDATE, a leave row to one that has written it.  A call to create   *)
(* reads none.                                                             *)
LocksHeld ==
  /\ \A a \in Accounts : balanceLock[a] # None =>
       call[balanceLock[a]].pc \in {"locked", "written"}
  /\ \A r \in Requests : rowLock[r] # None => call[rowLock[r]].pc = "written"
  /\ \A h \in Handlers : call[h].pc = "locked" => call[h].op # "create"

Owned ==
  /\ TypeOK
  /\ LocksHeld

(* A step of h leaves the locks of the others alone.                       *)
LEMMA OneCallsLocks ==
  ASSUME Owned, NEW h \in Handlers, NEW c,
         call' = [call EXCEPT ![h] = c], LocksTyped',
         \A a \in Accounts :
           \/ balanceLock'[a] = balanceLock[a]
           \/ balanceLock'[a] \in {None, h},
         \A r \in Requests :
           rowLock'[r] = rowLock[r] \/ rowLock'[r] \in {None, h},
         \A a \in Accounts : balanceLock'[a] = h => c.pc \in {"locked", "written"},
         \A r \in Requests : rowLock'[r] = h => c.pc = "written",
         c.pc = "locked" => c.op # "create"
  PROVE  LocksHeld'
<1>1. call'[h] = c /\ \A g \in Handlers : g # h => call'[g] = call[g]
  BY DEF Owned, TypeOK
<1>2. ASSUME NEW a \in Accounts, balanceLock'[a] # None
      PROVE  call'[balanceLock'[a]].pc \in {"locked", "written"}
  <2>1. CASE balanceLock'[a] = h
    BY <1>1, <2>1
  <2>2. CASE balanceLock'[a] # h
    <3>1. balanceLock'[a] = balanceLock[a] /\ balanceLock'[a] \in Handlers
      BY <1>2, <2>2 DEF LocksTyped
    <3>2. QED
      BY <1>1, <1>2, <2>2, <3>1 DEF Owned, LocksHeld
  <2>3. QED
    BY <2>1, <2>2
<1>3. ASSUME NEW r \in Requests, rowLock'[r] # None
      PROVE  call'[rowLock'[r]].pc = "written"
  <2>1. CASE rowLock'[r] = h
    BY <1>1, <2>1
  <2>2. CASE rowLock'[r] # h
    <3>1. rowLock'[r] = rowLock[r] /\ rowLock'[r] \in Handlers
      BY <1>3, <2>2 DEF LocksTyped
    <3>2. QED
      BY <1>1, <1>3, <2>2, <3>1 DEF Owned, LocksHeld
  <2>3. QED
    BY <2>1, <2>2
<1>4. ASSUME NEW g \in Handlers, call'[g].pc = "locked"
      PROVE  call'[g].op # "create"
  BY <1>1, <1>4 DEF Owned, LocksHeld
<1>5. QED
  BY <1>2, <1>3, <1>4 DEF LocksHeld

(* A call that has not reached its SELECT ... FOR UPDATE has no lock.      *)
LEMMA NoLockYet ==
  ASSUME Owned, NEW h \in Handlers
  PROVE  /\ call[h].pc \in {"idle", "checked", "searched"} =>
              \A a \in Accounts : balanceLock[a] # h
         /\ call[h].pc # "written" => \A r \in Requests : rowLock[r] # h
BY ServiceAssumption DEF Owned, LocksHeld

LEMMA ReleaseLocks ==
  ASSUME Owned, NEW h \in Handlers, Release(h)
  PROVE  LocksHeld'
<1>1. call' = [call EXCEPT ![h] = Idle] /\ LocksTyped'
  BY DEF Release, Owned, TypeOK, LocksTyped
<1>2. /\ \A a \in Accounts : balanceLock'[a] = balanceLock[a]
                               \/ balanceLock'[a] \in {None, h}
      /\ \A r \in Requests : rowLock'[r] = rowLock[r] \/ rowLock'[r] \in {None, h}
  BY DEF Release
<1>3. /\ \A a \in Accounts : balanceLock'[a] # h
      /\ \A r \in Requests : rowLock'[r] # h
  BY ServiceAssumption DEF Release
<1>4. Idle.pc # "locked"
  BY DEF Idle
<1>5. QED
  BY <1>1, <1>2, <1>3, <1>4, OneCallsLocks

LEMMA StageLocks ==
  ASSUME Owned, NEW h \in Handlers, NEW r \in Requests, NEW row, NEW booked,
         Stage(h, r, row, booked)
  PROVE  LocksHeld'
<1> DEFINE c == [call[h] EXCEPT !.pc = "written", !.target = r,
                                !.out = row, !.booked = booked]
<1>1. c.pc = "written"
  BY DEF Owned, TypeOK, Call
<1>2. call' = [call EXCEPT ![h] = c]
  BY DEF Stage, Owned, TypeOK
<1>3. /\ balanceLock' = balanceLock
      /\ \A s \in Requests : rowLock'[s] = rowLock[s] \/ rowLock'[s] = h
      /\ LocksTyped'
  BY DEF Stage, Owned, TypeOK, LocksTyped
<1> HIDE DEF c
<1>4. QED
  BY <1>1, <1>2, <1>3, OneCallsLocks

LEMMA LocklessStep ==
  ASSUME Owned, NEW h \in Handlers, NEW c, c.pc # "locked",
         call[h].pc \in {"idle", "checked"},
         call' = [call EXCEPT ![h] = c], UNCHANGED locks
  PROVE  LocksHeld'
<1>1. LocksTyped'
  BY DEF locks, Owned, TypeOK, LocksTyped
<1>2. /\ \A a \in Accounts : balanceLock'[a] = balanceLock[a] /\ balanceLock[a] # h
      /\ \A r \in Requests : rowLock'[r] = rowLock[r] /\ rowLock[r] # h
  BY NoLockYet DEF locks
<1>3. QED
  BY <1>1, <1>2, OneCallsLocks

LEMMA LocksHeldStep == Owned /\ Safe /\ [Next]_vars => LocksHeld'
<1> SUFFICES ASSUME Owned, Safe, [Next]_vars PROVE LocksHeld'
  OBVIOUS
<1>1. ASSUME NEW h \in Handlers, Receive(h) PROVE LocksHeld'
  <2>1. call[h] = Idle /\ call[h].pc = "idle"
    <3>1. call[h] = Idle
      BY <1>1 DEF Receive, CheckCreate, CheckSubmit, CheckDecide, CheckCancel
    <3>2. QED
      BY <3>1 DEF Idle
  <2>2. ASSUME NEW actor \in Employees, NEW a \in Accounts, NEW n \in DayCounts,
               NEW d \in StartDays, CheckCreate(h, actor, a, n, d)
        PROVE  LocksHeld'
    <3> DEFINE c == [Idle EXCEPT !.pc = "checked", !.op = "create",
                         !.actor = actor, !.out = Draft(a, n, d)]
    <3>1. call' = [call EXCEPT ![h] = c] /\ UNCHANGED locks
      BY <2>2 DEF CheckCreate
    <3>2. c.pc # "locked"
      BY DEF Idle
    <3> HIDE DEF c
    <3>3. QED
      BY <2>1, <3>1, <3>2, LocklessStep
  <2>3. ASSUME NEW op, NEW actor, NEW r, Accept(h, op, actor, r)
        PROVE  LocksHeld'
    <3> DEFINE c == [Idle EXCEPT !.pc = "checked", !.op = op,
                         !.actor = actor, !.id = r, !.seen = request[r]]
    <3>1. call' = [call EXCEPT ![h] = c] /\ UNCHANGED locks
      BY <2>3 DEF Accept
    <3>2. c.pc # "locked"
      BY DEF Idle
    <3> HIDE DEF c
    <3>3. QED
      BY <2>1, <3>1, <3>2, LocklessStep
  <2>4. QED
    BY <1>1, <2>2, <2>3 DEF Receive, CheckSubmit, CheckDecide, CheckCancel
<1>2. ASSUME NEW h \in Handlers, FindReversal(h) PROVE LocksHeld'
  <2> DEFINE c == [call[h] EXCEPT !.pc = "searched"]
  <2>1. /\ call' = [call EXCEPT ![h] = c] /\ UNCHANGED locks
        /\ call[h].pc = "checked"
    BY <1>2 DEF FindReversal, Owned, TypeOK
  <2>2. c.pc # "locked"
    BY DEF Owned, TypeOK, Call
  <2> HIDE DEF c
  <2>3. QED
    BY <2>1, <2>2, LocklessStep
<1>3. ASSUME NEW h \in Handlers, LockBalance(h) PROVE LocksHeld'
  <2> DEFINE a == call[h].seen.account
             c == [call[h] EXCEPT !.pc = "locked", !.held = balance[a]]
  <2>1. call[h].pc \in {"checked", "searched"}
    BY <1>3 DEF LockBalance, WantsBalance
  <2>2. /\ c.pc = "locked" /\ c.op # "create"
        /\ call' = [call EXCEPT ![h] = c]
    BY <1>3 DEF LockBalance, WantsBalance, TouchesBalance, Cancels, Owned,
                TypeOK, Call
  <2>3. /\ rowLock' = rowLock
        /\ \A b \in Accounts : balanceLock'[b] = balanceLock[b] \/ balanceLock'[b] = h
        /\ LocksTyped'
    BY <1>3 DEF LockBalance, Owned, TypeOK, LocksTyped
  <2>4. \A r \in Requests : rowLock'[r] # h
    BY <2>1, <2>3, NoLockYet
  <2> HIDE DEF c
  <2>5. QED
    BY <2>2, <2>3, <2>4, OneCallsLocks
<1>4. ASSUME NEW h \in Handlers,
             \/ WriteSubmit(h) \/ WriteApprove(h) \/ WriteReject(h)
             \/ WriteCancelSubmitted(h) \/ WriteCancelDraft(h)
             \/ \E r \in Requests : InsertDraft(h, r) \/ InsertReversal(h, r)
      PROVE  LocksHeld'
  <2>1. call[h].pc # "idle" /\ call[h].op # "create" => call[h].id \in Requests
    BY DEF Safe, Informed
  <2>2. ASSUME call[h].pc # "idle", call[h].op # "create",
               NEW row, NEW booked, Stage(h, call[h].id, row, booked)
        PROVE  LocksHeld'
    BY <2>1, <2>2, StageLocks
  <2>3. ASSUME NEW r \in Requests, InsertDraft(h, r) \/ InsertReversal(h, r)
        PROVE  LocksHeld'
    BY <2>3, StageLocks DEF InsertDraft, InsertReversal
  <2>4. QED
    BY <1>4, <2>2, <2>3 DEF WriteSubmit, WriteApprove, WriteReject,
                            WriteCancelSubmitted, WriteCancelDraft, Cancels
<1>5. ASSUME NEW h \in Handlers, Commit(h) \/ Refuse(h) \/ Abort(h)
      PROVE  LocksHeld'
  BY <1>5, ReleaseLocks DEF Commit, Refuse, Abort
<1>6. CASE NextDay \/ UNCHANGED vars
  BY <1>6 DEF NextDay, vars, locks, Owned, LocksHeld
<1>7. QED
  BY <1>1, <1>2, <1>3, <1>4, <1>5, <1>6 DEF Next, Proceed

(* The balance row comes before the leave row in every transaction, so no  *)
(* call of the leave workflow waits for a lock of one that is not ahead of *)
(* it: submit, approve, reject and cancel never deadlock on row locks.     *)
THEOREM LocksOrdered == Spec => []WaitsOrdered
<1>1. Init => LocksHeld
  BY DEF Init, LocksHeld, Idle
<1>2. Safe /\ LocksHeld /\ [Next]_vars => LocksHeld'
  BY LocksHeldStep DEF Safe, Owned
<1>3. ASSUME Safe, LocksHeld PROVE WaitsOrdered
  <2>1. SUFFICES ASSUME NEW h \in Handlers, NEW g \in Blockers(h)
                 PROVE  Ahead(g, h)
    BY DEF WaitsOrdered
  <2>2. CASE WantsBalance(call[h])
    <3>1. /\ g = balanceLock[call[h].seen.account] /\ g # None
          /\ call[h].pc \in {"checked", "searched"}
      BY <2>2 DEF Blockers, WantsBalance, TouchesBalance, Cancels
    <3>2. call[h].seen.account \in Accounts
      <4>1. call[h].op # "create"
        BY <2>2 DEF WantsBalance, TouchesBalance, Cancels
      <4>2. call[h].seen \in Row
        BY <1>3, <3>1, <4>1 DEF Safe, Informed
      <4>3. QED
        BY <4>2 DEF Row
    <3>3. call[g].pc \in {"locked", "written"}
      BY <1>3, <3>1, <3>2 DEF LocksHeld
    <3>4. QED
      BY <3>1, <3>3 DEF Ahead
  <2>3. CASE /\ ~WantsBalance(call[h])
             /\ call[h].pc = "locked" /\ Cancels(call[h], "APPROVED")
    BY <2>3 DEF Blockers, Ahead
  <2>4. CASE /\ ~WantsBalance(call[h])
             /\ ~(call[h].pc = "locked" /\ Cancels(call[h], "APPROVED"))
    <3>1. /\ \/ call[h].pc = "locked"
             \/ call[h].pc = "checked" /\ Cancels(call[h], "DRAFT")
          /\ g = rowLock[call[h].id] /\ g # None
      BY <2>4 DEF Blockers
    <3>2. call[h].id \in Requests
      <4>1. call[h].op # "create" /\ call[h].pc # "idle"
        BY <1>3, <3>1 DEF Cancels, LocksHeld
      <4>2. QED
        BY <1>3, <4>1 DEF Safe, Informed
    <3>3. QED
      BY <1>3, <3>1, <3>2 DEF LocksHeld, Ahead
  <2>5. QED
    BY <2>2, <2>3, <2>4
<1>4. QED
  BY <1>1, <1>2, <1>3, SafeInit, SafeStep, PTL DEF Spec
-----------------------------------------------------------------------------
(* The audit trail of every interleaving.                                  *)

Approved(r) == \E i \in DOMAIN audit[r] : audit[r][i].after = "APPROVED"

(* The leave a row stands for, which no update changes.                    *)
SameLeave(row, seen) ==
  /\ row.account = seen.account
  /\ row.days = seen.days
  /\ row.reverses = seen.reverses

Inserts(c) == c.op = "create" \/ Cancels(c, "APPROVED")

(* What a call has written: a row of the status its operation is for, and  *)
(* counters moved by the days of the row it read.                          *)
Outcome(c) ==
  /\ c.op = "submit" => c.out.status = "SUBMITTED" /\ c.booked = Moves(c, 0, 1)
  /\ c.op = "approve" => c.out.status = "APPROVED" /\ c.booked = Moves(c, 1, -1)
  /\ c.op = "reject" => c.out.status = "REJECTED" /\ c.booked = Moves(c, 0, -1)
  /\ c.op = "cancel" => c.out.status = "CANCELLED"
  /\ Cancels(c, "SUBMITTED") => c.booked = Moves(c, 0, -1)
  /\ Cancels(c, "APPROVED") => /\ c.out = ReversalOf(c.id, c.seen, c.actor)
                               /\ c.booked = Moves(c, -1, 0)
  /\ ~Inserts(c) => c.target = c.id /\ SameLeave(c.out, c.seen)

(* The guards a call has passed, applied to the row it read, of which only *)
(* the leave and the fact of an approval are still true when it writes.    *)
Faithful(c) ==
  /\ c.pc = "idle" \/ c.op = "create" => c.seen = None
  /\ c.pc # "idle" /\ c.op = "create" =>
       c.out.status = "DRAFT" /\ c.out.reverses = None
  /\ c.pc # "idle" /\ c.op # "create" =>
       /\ SameLeave(request[c.id], c.seen) /\ c.seen.reverses = None
       /\ c.op = "submit" => c.seen.status = "DRAFT"
       /\ c.op \in {"approve", "reject"} => c.seen.status = "SUBMITTED"
       /\ c.op = "cancel" => c.seen.status \in {"DRAFT", "SUBMITTED", "APPROVED"}
       /\ c.seen.status = "APPROVED" => Approved(c.id)
  /\ c.pc = "written" => Outcome(c)

(* What a call has written is locked by it; what it inserts is not stored  *)
(* yet, and the only reversal of its request that is stored or staged.     *)
Placed(h, c) ==
  c.pc = "written" =>
    /\ rowLock[c.target] = h
    /\ Inserts(c) => request[c.target] = None
    /\ Cancels(c, "APPROVED") =>
         /\ ~Reversed(c.id)
         /\ \A g \in Handlers \ {h} :
              call[g].pc = "written" => call[g].out.reverses # c.id

(* What the audit trail says of the rows, and the rows of the trail.       *)
TrailFits ==
  /\ \A r \in Requests : request[r] = None => audit[r] = <<>>
  /\ \A r \in Stored :
       /\ request[r].reverses # None =>
            /\ request[r].reverses \in Stored
            /\ request[r].status = "CANCELLED" /\ request[r].approver = None
            /\ audit[r] = <<>>
       /\ request[r].status = "APPROVED" => Approved(r)
       /\ \A i \in DOMAIN audit[r] : audit[r][i].before = "APPROVED" =>
            audit[r][i].action = "cancel" /\ Approved(r)

(* No row is released but by its one reversal.                             *)
ReleasesMatch ==
  \A r \in Stored :
    /\ Cardinality(ReleasesOf(r)) = Cardinality(ReversalsOf(r))
    /\ Cardinality(ReleasesOf(r)) <= 1

Audited ==
  /\ Safe
  /\ \A h \in Handlers : Faithful(call[h]) /\ Placed(h, call[h])
  /\ TrailFits
  /\ ReleasesMatch
  /\ AuditIsComplete

-----------------------------------------------------------------------------
(* Counting the days of audit entries.                                     *)

LEMMA UnitsOfEntry ==
  ASSUME NEW e, NEW n \in Nat
  PROVE  /\ IsFiniteSet({e} \X (1 .. n))
         /\ Cardinality({e} \X (1 .. n)) = n
<1>1. IsFiniteSet({e}) /\ Cardinality({e}) = 1
  BY FS_Singleton
<1>2. IsFiniteSet(1 .. n) /\ Cardinality(1 .. n) = n
  BY FS_Interval
<1>3. /\ IsFiniteSet({e} \X (1 .. n))
      /\ Cardinality({e} \X (1 .. n)) = Cardinality({e}) * Cardinality(1 .. n)
  BY <1>1, <1>2, FS_Product
<1>4. QED
  BY <1>1, <1>2, <1>3

(* A family of finite sets over a finite index has a finite union.         *)
LEMMA FamilyFinite ==
  ASSUME NEW S, IsFiniteSet(S), NEW f, DOMAIN f = S,
         \A x \in S : IsFiniteSet(f[x])
  PROVE  IsFiniteSet(UNION {f[x] : x \in S})
<1>1. PICK T : T = {f[x] : x \in S}
  OBVIOUS
<1>2. [x \in S |-> f[x]] \in Surjection(S, T)
  BY <1>1 DEF Surjection
<1>3. IsFiniteSet(T)
  BY <1>2, FS_Surjection
<1>4. QED
  BY <1>1, <1>3, FS_UNION

LEMMA EntryUnitsFinite ==
  ASSUME NEW rows, NEW E, IsFiniteSet(E), \A e \in E : rows[e[1]].days \in Nat
  PROVE  /\ IsFiniteSet(EntryUnits(rows, E))
         /\ Cardinality(EntryUnits(rows, E)) \in Nat
<1>1. PICK f : f = [e \in E |-> {e} \X (1 .. rows[e[1]].days)]
  OBVIOUS
<1>2. DOMAIN f = E /\ \A e \in E : IsFiniteSet(f[e])
  BY <1>1, UnitsOfEntry
<1>3. IsFiniteSet(UNION {f[e] : e \in E})
  BY <1>2, FamilyFinite
<1>4. EntryUnits(rows, E) = UNION {f[e] : e \in E}
  BY <1>1 DEF EntryUnits
<1>5. QED
  BY <1>3, <1>4, FS_CardinalityType

(* An entry that joins a set adds the days of its request.                 *)
LEMMA EntryUnitsAdd ==
  ASSUME NEW rows, NEW E, IsFiniteSet(E), \A e \in E : rows[e[1]].days \in Nat,
         NEW e, e \notin E, rows[e[1]].days \in Nat
  PROVE  Cardinality(EntryUnits(rows, E \cup {e}))
           = Cardinality(EntryUnits(rows, E)) + rows[e[1]].days
<1>1. PICK one : one = {e} \X (1 .. rows[e[1]].days)
  OBVIOUS
<1>2. IsFiniteSet(one) /\ Cardinality(one) = rows[e[1]].days
  BY <1>1, UnitsOfEntry
<1>3. PICK units : units = EntryUnits(rows, E)
  OBVIOUS
<1>4. IsFiniteSet(units) /\ Cardinality(units) \in Nat
  BY <1>3, EntryUnitsFinite
<1>5. EntryUnits(rows, E \cup {e}) = units \cup one
  BY <1>1, <1>3 DEF EntryUnits
<1>6. units \cap one = {}
  BY <1>1, <1>3 DEF EntryUnits
<1>7. Cardinality(units \cup one)
        = Cardinality(units) + Cardinality(one) - Cardinality(units \cap one)
  BY <1>2, <1>4, FS_Union
<1>8. Cardinality(units \cap one) = 0
  BY <1>6, FS_EmptySet
<1>9. Cardinality(units \cup one) = Cardinality(units) + rows[e[1]].days
  BY <1>2, <1>4, <1>7, <1>8
<1>10. QED
  BY <1>3, <1>5, <1>9

(* Updates of a row do not change its days.                                *)
LEMMA EntryUnitsSame ==
  ASSUME NEW rows, NEW rows2, NEW E,
         \A e \in E : rows2[e[1]].days = rows[e[1]].days
  PROVE  EntryUnits(rows2, E) = EntryUnits(rows, E)
BY DEF EntryUnits

(* Appending an entry to a trail.                                          *)
LEMMA Appended ==
  ASSUME NEW S, NEW trail \in Seq(S), NEW e \in S
  PROVE  LET n == Len(trail) + 1
         IN /\ DOMAIN Append(trail, e) = DOMAIN trail \cup {n}
            /\ Append(trail, e)[n] = e
            /\ n \notin DOMAIN trail
            /\ \A i \in DOMAIN trail : Append(trail, e)[i] = trail[i]
            /\ IsFiniteSet(DOMAIN trail)
<1>1. DOMAIN trail = 1 .. Len(trail) /\ Len(trail) \in Nat
  OBVIOUS
<1>2. /\ DOMAIN Append(trail, e) = 1 .. (Len(trail) + 1)
      /\ Append(trail, e)[Len(trail) + 1] = e
      /\ \A i \in 1 .. Len(trail) : Append(trail, e)[i] = trail[i]
  OBVIOUS
<1>3. IsFiniteSet(1 .. Len(trail))
  BY <1>1, FS_Interval
<1>4. 1 .. (Len(trail) + 1) = (1 .. Len(trail)) \cup {Len(trail) + 1}
  BY <1>1
<1>5. QED
  BY <1>1, <1>2, <1>3, <1>4

(* The requests of an account have finitely many entries, of known days.   *)
LEMMA EntriesFinite ==
  ASSUME TypeOK, NEW a \in Accounts
  PROVE  /\ IsFiniteSet(EntriesOf(a))
         /\ \A e \in EntriesOf(a) : /\ e[1] \in Stored /\ e[1] \in Requests
                                    /\ request[e[1]].account = a
                                    /\ request[e[1]].days \in Nat
                                    /\ e[2] \in DOMAIN audit[e[1]]
                                    /\ e = <<e[1], e[2]>>
<1>1. PICK S : S = {s \in Stored : request[s].account = a}
  OBVIOUS
<1>2. S \in SUBSET Requests /\ IsFiniteSet(S)
  BY <1>1, RecordsAssumption, FS_Subset DEF Stored, StoredIn
<1>3. PICK f : f = [r \in S |-> {r} \X DOMAIN audit[r]]
  OBVIOUS
<1>4. ASSUME NEW r \in S PROVE IsFiniteSet(f[r])
  <2>1. audit[r] \in Seq(Entry)
    BY <1>2 DEF TypeOK
  <2>2. DOMAIN audit[r] = 1 .. Len(audit[r]) /\ Len(audit[r]) \in Nat
    BY <2>1
  <2>3. QED
    BY <1>3, <2>2, UnitsOfEntry
<1>5. EntriesOf(a) = UNION {f[r] : r \in S}
  BY <1>1, <1>3 DEF EntriesOf
<1>6. IsFiniteSet(EntriesOf(a))
  BY <1>2, <1>3, <1>4, <1>5, FamilyFinite
<1>7. \A r \in Stored : request[r].days \in Nat
  BY RecordsAssumption DEF TypeOK, Stored, StoredIn, Row
<1>8. QED
  BY <1>6, <1>7 DEF EntriesOf, Stored, StoredIn

-----------------------------------------------------------------------------
(* Steps that commit nothing.                                              *)

LEMMA TrailUnchanged ==
  ASSUME UNCHANGED db
  PROVE  /\ TrailFits => TrailFits'
         /\ ReleasesMatch => ReleasesMatch'
         /\ AuditIsComplete => AuditIsComplete'
         /\ \A c : Faithful(c) => Faithful(c)'
<1>1. /\ request' = request /\ balance' = balance
      /\ audit' = audit /\ notified' = notified
  BY DEF db
<1>2. Stored' = Stored /\ \A r : Approved(r)' <=> Approved(r)
  BY <1>1 DEF Stored, StoredIn, Approved
<1>3. TrailFits => TrailFits'
  BY <1>1, <1>2 DEF TrailFits
<1>4. ReleasesMatch => ReleasesMatch'
  BY <1>1, <1>2 DEF ReleasesMatch, ReleasesOf, ReversalsOf, Releases
<1>5. \A a, kept : Moved(a, kept)' = Moved(a, kept)
  BY <1>1, <1>2 DEF Moved, MovedInto, MovedOutOf, EntriesOf, EntryAt
<1>6. AuditIsComplete => AuditIsComplete'
  BY <1>1, <1>5 DEF AuditIsComplete, NotifiedBy, Notifies
<1>7. ASSUME NEW c, Faithful(c) PROVE Faithful(c)'
  <2>1. Outcome(c)' <=> Outcome(c)
    BY DEF Outcome, Moves, Cancels, Inserts
  <2>2. QED
    BY <1>1, <1>2, <1>7, <2>1 DEF Faithful
<1>8. QED
  BY <1>3, <1>4, <1>6, <1>7

(* A step of h leaves the calls of the others and their row locks alone.   *)
LEMMA OneCallAudited ==
  ASSUME Audited, Safe', NEW h \in Handlers, NEW c,
         call' = [call EXCEPT ![h] = c], UNCHANGED db,
         \A r \in Requests : rowLock'[r] = rowLock[r]
                               \/ rowLock[r] \in {None, h},
         Faithful(c), Placed(h, c)',
         \A g \in Handlers \ {h} :
           c.pc = "written" /\ call[g].pc = "written"
             /\ Cancels(call[g], "APPROVED") => c.out.reverses # call[g].id
  PROVE  Audited'
<1>1. call'[h] = c /\ \A g \in Handlers : g # h => call'[g] = call[g]
  BY DEF Audited, Safe, TypeOK
<1>2. ASSUME NEW g \in Handlers PROVE Faithful(call[g])'
  <2>1. Faithful(call'[g])
    BY <1>1 DEF Audited
  <2>2. PICK d : d = call'[g]
    OBVIOUS
  <2>3. Faithful(d)'
    BY <2>1, <2>2, TrailUnchanged
  <2>4. QED
    BY <2>2, <2>3 DEF Faithful, Outcome, SameLeave, Approved, Moves, Cancels, Inserts
<1>3. ASSUME NEW g \in Handlers PROVE Placed(g, call[g])'
  <2>1. CASE g = h
    BY <1>1, <2>1 DEF Placed, Inserts, Cancels, Reversed, ReversedIn, StoredIn
  <2>2. CASE g # h
    <3>1. /\ call'[g] = call[g] /\ Placed(g, call[g]) /\ Informed(call[g])
          /\ g # None
      BY <1>1, <2>2, ServiceAssumption DEF Audited, Safe
    <3>2. call[g].pc = "written" => rowLock'[call[g].target] = g
      BY <2>2, <3>1 DEF Placed, Informed
    <3>3. /\ request' = request
          /\ \A r : Reversed(r)' <=> Reversed(r)
      BY DEF db, Reversed, ReversedIn, StoredIn
    <3>4. call[g].pc = "written" /\ Cancels(call[g], "APPROVED") =>
            \A f \in Handlers \ {g} :
              call'[f].pc = "written" => call'[f].out.reverses # call[g].id
      BY <1>1, <2>2, <3>1 DEF Placed
    <3>5. QED
      BY <3>1, <3>2, <3>3, <3>4 DEF Placed, Inserts, Cancels
  <2>3. QED
    BY <2>1, <2>2
<1>4. QED
  BY <1>2, <1>3, TrailUnchanged DEF Audited

LEMMA ReleaseAudited ==
  ASSUME Audited, Safe', NEW h \in Handlers, Release(h), UNCHANGED db
  PROVE  Audited'
<1>1. /\ call' = [call EXCEPT ![h] = Idle]
      /\ \A r \in Requests : rowLock'[r] = rowLock[r] \/ rowLock[r] \in {None, h}
  BY DEF Release
<1>2. Faithful(Idle) /\ Placed(h, Idle)' /\ Idle.pc = "idle"
  BY DEF Faithful, Placed, Idle
<1>3. QED
  BY <1>1, <1>2, OneCallAudited

(* A call accepted on r has just read r, which no reversal is.             *)
LEMMA AcceptAudited ==
  ASSUME Audited, Safe', NEW h \in Handlers, NEW op \in Ops,
         NEW actor \in Employees, NEW r \in Stored, op # "create",
         op = "submit" => request[r].status = "DRAFT",
         op \in {"approve", "reject"} => request[r].status = "SUBMITTED",
         op = "cancel" => request[r].status \in {"DRAFT", "SUBMITTED", "APPROVED"},
         Accept(h, op, actor, r)
  PROVE  Audited'
<1>1. PICK c : c = [Idle EXCEPT !.pc = "checked", !.op = op, !.actor = actor,
                                !.id = r, !.seen = request[r]]
  OBVIOUS
<1>2. call' = [call EXCEPT ![h] = c] /\ rowLock' = rowLock /\ UNCHANGED db
  BY <1>1 DEF Accept, locks
<1>3. /\ c.pc = "checked" /\ c.op = op /\ c.id = r /\ c.seen = request[r]
  BY <1>1 DEF Idle
<1>4. request[r].status # "CANCELLED"
  BY DEF Ops
<1>5. request[r].reverses = None /\ (request[r].status = "APPROVED" => Approved(r))
  BY <1>4 DEF Audited, TrailFits
<1>6. Faithful(c)
  BY <1>3, <1>5 DEF Faithful, SameLeave
<1>7. Placed(h, c)'
  BY <1>3 DEF Placed
<1>8. QED
  BY <1>2, <1>3, <1>6, <1>7, OneCallAudited

LEMMA ReceiveAudited ==
  ASSUME Audited, Safe', NEW h \in Handlers, Receive(h)
  PROVE  Audited'
<1>1. ASSUME NEW actor \in Employees, NEW a \in Accounts, NEW n \in DayCounts,
             NEW d \in StartDays, CheckCreate(h, actor, a, n, d)
      PROVE  Audited'
  <2>1. PICK c : c = [Idle EXCEPT !.pc = "checked", !.op = "create",
                                  !.actor = actor, !.out = Draft(a, n, d)]
    OBVIOUS
  <2>2. call' = [call EXCEPT ![h] = c] /\ rowLock' = rowLock /\ UNCHANGED db
    BY <1>1, <2>1 DEF CheckCreate, locks
  <2>3. /\ c.pc = "checked" /\ c.op = "create" /\ c.seen = None
        /\ c.out = Draft(a, n, d)
    BY <2>1 DEF Idle
  <2>4. Faithful(c) /\ Placed(h, c)'
    BY <2>3 DEF Faithful, Placed, Draft
  <2>5. QED
    BY <2>2, <2>3, <2>4, OneCallAudited
<1>2. ASSUME NEW actor \in Employees, NEW r \in Requests,
             CheckSubmit(h, actor, r)
      PROVE  Audited'
  BY <1>2, AcceptAudited DEF CheckSubmit, Ops
<1>3. ASSUME NEW actor \in Employees, NEW r \in Requests,
             NEW op \in {"approve", "reject"}, CheckDecide(h, op, actor, r)
      PROVE  Audited'
  BY <1>3, AcceptAudited DEF CheckDecide, Ops
<1>4. ASSUME NEW actor \in Employees, NEW r \in Requests,
             CheckCancel(h, actor, r)
      PROVE  Audited'
  BY <1>4, AcceptAudited DEF CheckCancel, MayCancel, Ops
<1>5. QED
  BY <1>1, <1>2, <1>3, <1>4 DEF Receive

(* A step inside the transaction that writes no row.                       *)
LEMMA ReadAudited ==
  ASSUME Audited, Safe', NEW h \in Handlers, NEW c,
         c.pc \notin {"idle", "written"}, call[h].pc \in {"checked", "searched"},
         c.op = call[h].op, c.id = call[h].id, c.seen = call[h].seen,
         c.out = call[h].out,
         call' = [call EXCEPT ![h] = c], UNCHANGED <<db, rowLock>>
  PROVE  Audited'
<1>1. Faithful(call[h])
  BY DEF Audited
<1>2. Faithful(c)
  BY <1>1 DEF Faithful
<1>3. Placed(h, c)'
  BY DEF Placed
<1>4. QED
  BY <1>2, <1>3, OneCallAudited

LEMMA ReversalRow ==
  ASSUME NEW r, NEW row, NEW actor
  PROVE  LET v == ReversalOf(r, row, actor)
         IN /\ v.reverses = r /\ v.status = "CANCELLED" /\ v.approver = None
            /\ v.account = row.account /\ v.days = row.days
BY DEF ReversalOf, Draft

LEMMA StageAudited ==
  ASSUME Audited, Safe', NEW h \in Handlers, NEW r \in Requests, NEW row,
         NEW booked, Stage(h, r, row, booked),
         call[h].pc \in {"checked", "locked"},
         call[h].op = "create" => row = call[h].out,
         NEW c, c = [call[h] EXCEPT !.pc = "written", !.target = r,
                                    !.out = row, !.booked = booked],
         Outcome(c),
         Inserts(c) => request[r] = None,
         Cancels(c, "APPROVED") => ~Reversed(c.id) /\ ~ReversalStaged(c.id),
         ~Cancels(c, "APPROVED") => row.reverses = None
  PROVE  Audited'
<1>1. call[h] \in Call /\ Faithful(call[h]) /\ TypeOK
  BY DEF Audited, Safe, TypeOK
<1>2. /\ c.pc = "written" /\ c.op = call[h].op /\ c.actor = call[h].actor
      /\ c.id = call[h].id /\ c.seen = call[h].seen
      /\ c.out = row /\ c.target = r
  BY <1>1 DEF Call
<1>3. /\ call' = [call EXCEPT ![h] = c] /\ UNCHANGED db
      /\ rowLock[r] = None
      /\ rowLock' = [rowLock EXCEPT ![r] = h]
  BY DEF Stage, Audited, Safe, TypeOK
<1>4. \A s \in Requests : rowLock'[s] = rowLock[s] \/ rowLock[s] \in {None, h}
  BY <1>3
<1>5. Faithful(c)
  BY <1>1, <1>2 DEF Faithful
<1>6. Placed(h, c)'
  <2>1. rowLock'[r] = h /\ request' = request
    BY <1>1, <1>3 DEF TypeOK, db
  <2>2. Reversed(c.id)' <=> Reversed(c.id)
    BY <2>1 DEF Reversed, ReversedIn, StoredIn
  <2>3. Inserts(c)' <=> Inserts(c)
    BY DEF Inserts, Cancels
  <2>4. Cancels(c, "APPROVED")' <=> Cancels(c, "APPROVED")
    BY DEF Cancels
  <2>5. \A g \in Handlers \ {h} : call'[g] = call[g]
    BY <1>1, <1>3 DEF TypeOK
  <2>6. Cancels(c, "APPROVED") => \A g \in Handlers \ {h} :
          call'[g].pc = "written" => call'[g].out.reverses # c.id
    BY <2>5 DEF ReversalStaged
  <2>7. QED
    BY <1>2, <2>1, <2>2, <2>3, <2>4, <2>6 DEF Placed
<1>7. ASSUME NEW g \in Handlers \ {h}, call[g].pc = "written",
             Cancels(call[g], "APPROVED")
      PROVE  c.out.reverses # call[g].id
  <2>1. call[g].id \in Requests /\ call[g].id # None
    BY <1>7, RecordsAssumption DEF Audited, Safe, Informed, Cancels
  <2>2. CASE Cancels(c, "APPROVED")
    <3>1. call[g].out = ReversalOf(call[g].id, call[g].seen, call[g].actor)
      BY <1>7 DEF Audited, Faithful, Outcome
    <3>2. call[g].out.reverses = call[g].id
      BY <3>1, ReversalRow
    <3>3. call[g].out.reverses # c.id
      BY <1>7, <2>2 DEF ReversalStaged
    <3>4. c.out = ReversalOf(c.id, c.seen, c.actor)
      BY <2>2 DEF Outcome
    <3>5. c.out.reverses = c.id
      BY <3>4, ReversalRow
    <3>6. QED
      BY <3>2, <3>3, <3>5
  <2>3. CASE ~Cancels(c, "APPROVED")
    BY <1>2, <2>1, <2>3
  <2>4. QED
    BY <2>2, <2>3
<1>8. QED
  BY <1>3, <1>4, <1>5, <1>6, <1>7, OneCallAudited

(* What a call wrote over the row it read before.                          *)
LEMMA UpdateAudited ==
  ASSUME Audited, Safe', NEW h \in Handlers, NEW status, NEW row, NEW booked,
         call[h].pc \in {"checked", "locked"},
         call[h].op # "create", ~Cancels(call[h], "APPROVED"),
         row.account = request[call[h].id].account,
         row.days = request[call[h].id].days,
         row.reverses = request[call[h].id].reverses,
         row.status = status,
         call[h].op = "submit" =>
           status = "SUBMITTED" /\ booked = Moves(call[h], 0, 1),
         call[h].op = "approve" =>
           status = "APPROVED" /\ booked = Moves(call[h], 1, -1),
         call[h].op = "reject" =>
           status = "REJECTED" /\ booked = Moves(call[h], 0, -1),
         call[h].op = "cancel" => status = "CANCELLED",
         Cancels(call[h], "SUBMITTED") => booked = Moves(call[h], 0, -1),
         Stage(h, call[h].id, row, booked)
  PROVE  Audited'
<1>1. call[h] \in Call /\ Faithful(call[h]) /\ call[h].id \in Requests
  BY DEF Audited, Safe, TypeOK, Informed
<1>2. PICK c : c = [call[h] EXCEPT !.pc = "written", !.target = call[h].id,
                                   !.out = row, !.booked = booked]
  OBVIOUS
<1>3. /\ c.pc = "written" /\ c.op = call[h].op /\ c.actor = call[h].actor
      /\ c.id = call[h].id /\ c.seen = call[h].seen /\ c.held = call[h].held
      /\ c.out = row /\ c.target = call[h].id /\ c.booked = booked
  BY <1>1, <1>2 DEF Call
<1>4. SameLeave(row, call[h].seen) /\ call[h].seen.reverses = None
  BY <1>1 DEF Faithful, SameLeave
<1>5. ~Inserts(c) /\ ~Cancels(c, "APPROVED")
  BY <1>3 DEF Inserts, Cancels
<1>6. Outcome(c)
  BY <1>3, <1>4, <1>5 DEF Outcome, Cancels, Moves
<1>7. row.reverses = None
  BY <1>4 DEF SameLeave
<1>8. QED
  BY <1>1, <1>2, <1>5, <1>6, <1>7, StageAudited

LEMMA WriteAudited ==
  ASSUME Audited, Safe', NEW h \in Handlers,
         \/ WriteSubmit(h) \/ WriteApprove(h) \/ WriteReject(h)
         \/ WriteCancelSubmitted(h) \/ WriteCancelDraft(h)
         \/ \E r \in Requests : InsertDraft(h, r) \/ InsertReversal(h, r)
  PROVE  Audited'
<1>1. call[h] \in Call /\ Faithful(call[h])
  BY DEF Audited, Safe, TypeOK
<1>2. call[h].pc # "idle" /\ call[h].op # "create" =>
        call[h].id \in Requests /\ request[call[h].id] \in Row
  BY DEF Audited, Safe, TypeOK, Informed
<1>3. CASE WriteSubmit(h)
  <2>1. PICK row : row = [request[call[h].id] EXCEPT !.status = "SUBMITTED"]
    OBVIOUS
  <2>2. /\ call[h].pc = "locked" /\ call[h].op = "submit"
        /\ Stage(h, call[h].id, row, Moves(call[h], 0, 1))
    BY <1>3, <2>1 DEF WriteSubmit
  <2>3. /\ row.status = "SUBMITTED" /\ row.days = request[call[h].id].days
        /\ row.account = request[call[h].id].account
        /\ row.reverses = request[call[h].id].reverses
    BY <1>2, <2>1, <2>2 DEF Row
  <2>4. QED
    BY <2>2, <2>3, UpdateAudited DEF Cancels
<1>4. CASE WriteApprove(h)
  <2>1. PICK row : row = [request[call[h].id] EXCEPT !.status = "APPROVED",
                                                    !.approver = call[h].actor]
    OBVIOUS
  <2>2. /\ call[h].pc = "locked" /\ call[h].op = "approve"
        /\ Stage(h, call[h].id, row, Moves(call[h], 1, -1))
    BY <1>4, <2>1 DEF WriteApprove
  <2>3. /\ row.status = "APPROVED" /\ row.days = request[call[h].id].days
        /\ row.account = request[call[h].id].account
        /\ row.reverses = request[call[h].id].reverses
    BY <1>2, <2>1, <2>2 DEF Row
  <2>4. QED
    BY <2>2, <2>3, UpdateAudited DEF Cancels
<1>5. CASE WriteReject(h)
  <2>1. PICK row : row = [request[call[h].id] EXCEPT !.status = "REJECTED",
                                                    !.approver = call[h].actor]
    OBVIOUS
  <2>2. /\ call[h].pc = "locked" /\ call[h].op = "reject"
        /\ Stage(h, call[h].id, row, Moves(call[h], 0, -1))
    BY <1>5, <2>1 DEF WriteReject
  <2>3. /\ row.status = "REJECTED" /\ row.days = request[call[h].id].days
        /\ row.account = request[call[h].id].account
        /\ row.reverses = request[call[h].id].reverses
    BY <1>2, <2>1, <2>2 DEF Row
  <2>4. QED
    BY <2>2, <2>3, UpdateAudited DEF Cancels
<1>6. ASSUME call[h].pc # "idle", call[h].op = "cancel"
      PROVE  LET row == Cancelled(call[h])
             IN /\ row.status = "CANCELLED" /\ row.days = request[call[h].id].days
                /\ row.account = request[call[h].id].account
                /\ row.reverses = request[call[h].id].reverses
  BY <1>2, <1>6 DEF Cancelled, Row
<1>7. CASE WriteCancelSubmitted(h)
  <2>1. /\ call[h].pc = "locked" /\ call[h].op = "cancel"
        /\ Cancels(call[h], "SUBMITTED") /\ ~Cancels(call[h], "APPROVED")
        /\ Stage(h, call[h].id, Cancelled(call[h]), Moves(call[h], 0, -1))
    BY <1>7 DEF WriteCancelSubmitted, Cancels
  <2>2. QED
    BY <1>6, <2>1, UpdateAudited
<1>8. CASE WriteCancelDraft(h)
  <2>1. /\ call[h].pc = "checked" /\ call[h].op = "cancel"
        /\ ~Cancels(call[h], "SUBMITTED") /\ ~Cancels(call[h], "APPROVED")
        /\ Stage(h, call[h].id, Cancelled(call[h]), call[h].booked)
    BY <1>8 DEF WriteCancelDraft, Cancels
  <2>2. QED
    BY <1>6, <2>1, UpdateAudited
<1>9. ASSUME NEW r \in Requests, InsertDraft(h, r)
      PROVE  Audited'
  <2>1. PICK c : c = [call[h] EXCEPT !.pc = "written", !.target = r,
                         !.out = call[h].out, !.booked = call[h].booked]
    OBVIOUS
  <2>2. /\ call[h].pc = "checked" /\ call[h].op = "create"
        /\ request[r] = None
        /\ Stage(h, r, call[h].out, call[h].booked)
    BY <1>9 DEF InsertDraft, Fresh, Stored, StoredIn
  <2>3. c.op = "create"
    BY <1>1, <2>1, <2>2 DEF Call
  <2>4. Outcome(c) /\ ~Cancels(c, "APPROVED")
    BY <2>3 DEF Outcome, Inserts, Cancels
  <2>5. call[h].out.reverses = None
    BY <1>1, <2>2 DEF Faithful
  <2>6. QED
    BY <2>1, <2>2, <2>4, <2>5, StageAudited
<1>10. ASSUME NEW r \in Requests, InsertReversal(h, r)
       PROVE  Audited'
  <2>1. PICK row : row = ReversalOf(call[h].id, call[h].seen, call[h].actor)
    OBVIOUS
  <2>2. PICK booked : booked = Moves(call[h], -1, 0)
    OBVIOUS
  <2>3. PICK c : c = [call[h] EXCEPT !.pc = "written", !.target = r,
                                     !.out = row, !.booked = booked]
    OBVIOUS
  <2>4. /\ call[h].pc = "locked" /\ Cancels(call[h], "APPROVED")
        /\ ~Reversed(call[h].id) /\ ~ReversalStaged(call[h].id)
        /\ request[r] = None
        /\ Stage(h, r, row, booked)
    BY <1>10, <2>1, <2>2 DEF InsertReversal, Fresh, Stored, StoredIn
  <2>5. /\ c.op = call[h].op /\ c.id = call[h].id /\ c.seen = call[h].seen
        /\ c.held = call[h].held /\ c.actor = call[h].actor
        /\ c.out = row /\ c.booked = booked
    BY <1>1, <2>3 DEF Call
  <2>6. row.status = "CANCELLED"
    BY <2>1, ReversalRow
  <2>7. Cancels(c, "APPROVED") /\ c.op = "cancel"
    BY <2>4, <2>5 DEF Cancels
  <2>8. Outcome(c)
    BY <2>1, <2>2, <2>5, <2>6, <2>7 DEF Outcome, Inserts, Cancels, Moves
  <2>9. QED
    BY <2>3, <2>4, <2>5, <2>7, <2>8, StageAudited DEF Cancels
<1>11. QED
  BY <1>3, <1>4, <1>5, <1>7, <1>8, <1>9, <1>10

-----------------------------------------------------------------------------
(* A commit.                                                               *)

(* What a commit does to the tables.                                       *)
LEMMA CommitFacts ==
  ASSUME Audited, NEW h \in Handlers, Commit(h)
  PROVE  LET c == call[h]
         IN /\ c.pc = "written" /\ TypeOK /\ c \in Call
            /\ Faithful(c) /\ Placed(h, c) /\ Outcome(c) /\ Informed(c)
            /\ c.target \in Requests /\ c.out \in Row /\ c.out # None
            /\ Subject(c) \in Requests /\ Recorded(c) \in Entry
            /\ request' = [request EXCEPT ![c.target] = c.out]
            /\ request'[c.target] = c.out
            /\ \A r \in Requests \ {c.target} : request'[r] = request[r]
            /\ Stored' = Stored \cup {c.target}
            /\ Subject(c) \in Stored'
            /\ audit' = [audit EXCEPT ![Subject(c)] = Append(@, Recorded(c))]
            /\ c.op # "create" => /\ c.id \in Stored /\ Subject(c) = c.id
                                  /\ SameLeave(request[c.id], c.seen)
                                  /\ c.seen \in Row /\ c.seen.reverses = None
            /\ Inserts(c) => c.target \notin Stored
            /\ ~Inserts(c) => c.target = c.id
<1>1. /\ call[h].pc = "written" /\ TypeOK /\ call[h] \in Call
      /\ Faithful(call[h]) /\ Placed(h, call[h]) /\ Informed(call[h])
  BY DEF Audited, Safe, TypeOK, Commit
<1>2. /\ call[h].target \in Requests /\ call[h].out \in Row
      /\ call[h].op \in Ops /\ call[h].actor \in Employees
      /\ call[h].op # "create" => /\ call[h].id \in Requests
                                  /\ request[call[h].id] # None
                                  /\ call[h].seen \in Row
  BY <1>1 DEF Informed
<1>3. call[h].out # None
  BY <1>2, RecordsAssumption
<1>4. Outcome(call[h])
  BY <1>1 DEF Faithful
<1>5. Recorded(call[h]) \in Entry
  BY <1>2 DEF Recorded, Entry, Row
<1>6. /\ request' = [request EXCEPT ![call[h].target] = call[h].out]
      /\ audit' = [audit EXCEPT ![Subject(call[h])] = Append(@, Recorded(call[h]))]
  BY DEF Commit
<1>7. /\ request'[call[h].target] = call[h].out
      /\ \A r \in Requests \ {call[h].target} : request'[r] = request[r]
  BY <1>1, <1>2, <1>6 DEF TypeOK
<1>8. Stored' = Stored \cup {call[h].target}
  BY <1>2, <1>3, <1>7 DEF Stored, StoredIn
<1>9. call[h].op # "create" =>
        /\ call[h].id \in Stored /\ Subject(call[h]) = call[h].id
        /\ SameLeave(request[call[h].id], call[h].seen)
        /\ call[h].seen \in Row /\ call[h].seen.reverses = None
  BY <1>1, <1>2 DEF Faithful, Stored, StoredIn, Subject
<1>10. Inserts(call[h]) => call[h].target \notin Stored
  BY <1>1 DEF Placed, Stored, StoredIn
<1>11. ~Inserts(call[h]) => call[h].target = call[h].id
  BY <1>4 DEF Outcome
<1>12. Subject(call[h]) \in Stored' /\ Subject(call[h]) \in Requests
  BY <1>2, <1>8, <1>9 DEF Subject
<1>13. QED
  BY <1>1, <1>2, <1>3, <1>4, <1>5, <1>6, <1>7, <1>8, <1>9, <1>10, <1>11, <1>12

(* No commit changes the leave a stored row stands for.                    *)
LEMMA CommitKeepsLeave ==
  ASSUME Audited, NEW h \in Handlers, Commit(h), NEW r \in Stored
  PROVE  SameLeave(request'[r], request[r])
<1>1. r \in Requests
  BY DEF Stored, StoredIn
<1>2. CASE r # call[h].target
  BY <1>1, <1>2, CommitFacts DEF SameLeave
<1>3. CASE r = call[h].target
  <2>1. ~Inserts(call[h]) /\ r = call[h].id /\ call[h].op # "create"
    BY <1>3, CommitFacts DEF Inserts
  <2>2. SameLeave(call[h].out, call[h].seen) /\ SameLeave(request[r], call[h].seen)
    BY <2>1, CommitFacts DEF Outcome
  <2>3. request'[r] = call[h].out
    BY <1>3, CommitFacts
  <2>4. QED
    BY <2>2, <2>3 DEF SameLeave
<1>4. QED
  BY <1>2, <1>3

(* Trails only grow: by the entry of the commit, at the end of its trail.  *)
LEMMA CommitTrails ==
  ASSUME Audited, NEW h \in Handlers, Commit(h), NEW u, u = Subject(call[h]),
         NEW n, n = Len(audit[u]) + 1
  PROVE  /\ DOMAIN audit'[u] = DOMAIN audit[u] \cup {n}
         /\ audit'[u][n] = Recorded(call[h])
         /\ n \notin DOMAIN audit[u]
         /\ \A i \in DOMAIN audit[u] : audit'[u][i] = audit[u][i]
         /\ \A r \in Requests \ {u} : audit'[r] = audit[r]
         /\ \A r \in Requests : Approved(r) => Approved(r)'
         /\ Recorded(call[h]).after = "APPROVED" => Approved(u)'
<1>1. u \in Requests /\ Recorded(call[h]) \in Entry /\ TypeOK
  BY CommitFacts
<1>2. audit' = [audit EXCEPT ![u] = Append(@, Recorded(call[h]))]
  BY CommitFacts
<1>3. /\ audit'[u] = Append(audit[u], Recorded(call[h]))
      /\ \A r \in Requests \ {u} : audit'[r] = audit[r]
      /\ audit[u] \in Seq(Entry)
  BY <1>1, <1>2 DEF TypeOK
<1>4. /\ DOMAIN audit'[u] = DOMAIN audit[u] \cup {Len(audit[u]) + 1}
      /\ audit'[u][Len(audit[u]) + 1] = Recorded(call[h])
      /\ Len(audit[u]) + 1 \notin DOMAIN audit[u]
      /\ \A i \in DOMAIN audit[u] : audit'[u][i] = audit[u][i]
  BY <1>1, <1>3, Appended
<1>5. ASSUME NEW r \in Requests, Approved(r) PROVE Approved(r)'
  BY <1>3, <1>4, <1>5 DEF Approved
<1>6. Recorded(call[h]).after = "APPROVED" => Approved(u)'
  BY <1>4 DEF Approved
<1>7. QED
  BY <1>3, <1>4, <1>5, <1>6

(* An entry moves the days of its request into one status and out of       *)
(* another; the entries of the other accounts stay as they are.            *)
LEMMA MovedByEntry ==
  ASSUME Audited, Safe', NEW h \in Handlers, Commit(h), NEW a \in Accounts, NEW kept,
         NEW u, u = Subject(call[h]), NEW e, e = Recorded(call[h])
  PROVE  /\ Moved(a, kept) \in Int /\ request'[u].days \in Nat
         /\ Moved(a, kept)' =
              Moved(a, kept)
                + (IF request'[u].account = a /\ e.after = kept
                   THEN request'[u].days ELSE 0)
                - (IF request'[u].account = a /\ e.before = kept
                   THEN request'[u].days ELSE 0)
<1>1. PICK n : n = Len(audit[u]) + 1
  OBVIOUS
<1>2. PICK x : x = <<u, n>>
  OBVIOUS
<1>3. /\ u \in Stored' /\ u \in Requests /\ TypeOK
      /\ Stored' = Stored \cup {call[h].target}
  BY CommitFacts
<1>4. request'[u].days \in Nat
  BY <1>3, RecordsAssumption DEF Safe, TypeOK, Stored, StoredIn, Row
<1>5. /\ DOMAIN audit'[u] = DOMAIN audit[u] \cup {n}
      /\ audit'[u][n] = Recorded(call[h])
      /\ n \notin DOMAIN audit[u]
      /\ \A i \in DOMAIN audit[u] : audit'[u][i] = audit[u][i]
      /\ \A r \in Requests \ {u} : audit'[r] = audit[r]
  <2>1. u = Subject(call[h]) /\ n = Len(audit[u]) + 1
    BY <1>1
  <2>2. /\ n \notin DOMAIN audit[u]
        /\ \A r \in Requests \ {u} : audit'[r] = audit[r]
    BY <2>1, CommitTrails
  <2>3. DOMAIN audit'[u] = DOMAIN audit[u] \cup {n}
    BY <2>1, CommitTrails
  <2>4. audit'[u][n] = Recorded(call[h])
    BY <2>1, CommitTrails
  <2>5. \A i \in DOMAIN audit[u] : audit'[u][i] = audit[u][i]
    BY <2>1, CommitTrails
  <2>6. QED
    BY <2>2, <2>3, <2>4, <2>5
<1>6. \A r \in Stored : /\ r \in Requests
                        /\ request'[r].account = request[r].account
                        /\ request'[r].days = request[r].days
  BY CommitKeepsLeave DEF SameLeave, Stored, StoredIn
<1>7. \A r \in Stored' \ Stored : r \in Requests /\ DOMAIN audit[r] = {}
  <2>1. \A r \in Requests : request[r] = None => audit[r] = <<>>
    BY DEF Audited, TrailFits
  <2>2. \A r \in Stored' \ Stored : r \in Requests /\ request[r] = None
    BY DEF Stored, StoredIn
  <2>3. QED
    BY <2>1, <2>2
<1>8. EntriesOf(a)' = IF request'[u].account = a THEN EntriesOf(a) \cup {x}
                                                  ELSE EntriesOf(a)
  <2>1. ASSUME NEW r \in Stored', request'[r].account = a,
               NEW i \in DOMAIN audit'[r]
        PROVE  \/ <<r, i>> \in EntriesOf(a)
               \/ r = u /\ i = n
    <3>1. CASE r = u /\ i = n
      BY <3>1
    <3>2. CASE ~(r = u /\ i = n)
      <4>1. i \in DOMAIN audit[r]
        BY <1>3, <1>5, <1>6, <1>7, <3>2
      <4>2. r \in Stored
        BY <1>7, <4>1
      <4>3. QED
        BY <1>6, <2>1, <4>1, <4>2 DEF EntriesOf
    <3>3. QED
      BY <3>1, <3>2
  <2>2. ASSUME NEW r \in Stored, request[r].account = a, NEW i \in DOMAIN audit[r]
        PROVE  <<r, i>> \in EntriesOf(a)'
    <3>1. r \in Stored' /\ request'[r].account = a /\ i \in DOMAIN audit'[r]
      BY <1>3, <1>5, <1>6, <2>2
    <3>2. QED
      BY <3>1 DEF EntriesOf
  <2>3. request'[u].account = a => x \in EntriesOf(a)'
    BY <1>2, <1>3, <1>5 DEF EntriesOf
  <2>4. \A y \in EntriesOf(a)' :
          y \in EntriesOf(a) \/ (y = x /\ request'[u].account = a)
    BY <1>2, <2>1 DEF EntriesOf
  <2>5. \A y \in EntriesOf(a) : y \in EntriesOf(a)'
    BY <2>2 DEF EntriesOf
  <2>6. QED
    BY <2>3, <2>4, <2>5
<1>9. /\ IsFiniteSet(EntriesOf(a))
      /\ \A y \in EntriesOf(a) :
           /\ y[1] \in Stored /\ y[2] \in DOMAIN audit[y[1]]
           /\ request[y[1]].days \in Nat
  BY <1>3, EntriesFinite
<1>10. x \notin EntriesOf(a)
  BY <1>2, <1>5, <1>9
<1>11. \A y \in EntriesOf(a) : EntryAt(y)' = EntryAt(y)
  BY <1>5, <1>6, <1>9 DEF EntryAt
<1>12. EntryAt(x)' = e
  BY <1>2, <1>5 DEF EntryAt
<1>13. ASSUME NEW E \in SUBSET EntriesOf(a)
       PROVE  /\ Cardinality(EntryUnits(request, E)) \in Nat
              /\ EntryUnits(request', E) = EntryUnits(request, E)
              /\ Cardinality(EntryUnits(request', E \cup {x}))
                   = Cardinality(EntryUnits(request, E)) + request'[u].days
  <2>1. IsFiniteSet(E)
    BY <1>9, FS_Subset
  <2>2. \A y \in E : /\ request[y[1]].days \in Nat
                     /\ request'[y[1]].days = request[y[1]].days
    BY <1>6, <1>9
  <2>3. EntryUnits(request', E) = EntryUnits(request, E)
    BY <2>2, EntryUnitsSame
  <2>4. Cardinality(EntryUnits(request, E)) \in Nat
    BY <2>1, <2>2, EntryUnitsFinite
  <2>5. x \notin E /\ x[1] = u
    BY <1>2, <1>10
  <2>6. Cardinality(EntryUnits(request', E \cup {x}))
          = Cardinality(EntryUnits(request', E)) + request'[u].days
    <3>1. PICK rows : rows = request'
      OBVIOUS
    <3>2. (\A y \in E : rows[y[1]].days \in Nat) /\ rows[x[1]].days \in Nat
      BY <1>4, <2>2, <2>5, <3>1
    <3>3. Cardinality(EntryUnits(rows, E \cup {x}))
            = Cardinality(EntryUnits(rows, E)) + rows[x[1]].days
      BY <2>1, <2>5, <3>2, EntryUnitsAdd
    <3>4. QED
      BY <2>5, <3>1, <3>3
  <2>7. QED
    BY <2>3, <2>4, <2>6
<1>14. PICK into, out : into = MovedInto(a, kept) /\ out = MovedOutOf(a, kept)
  OBVIOUS
<1>15. into \in SUBSET EntriesOf(a) /\ out \in SUBSET EntriesOf(a)
  BY <1>14 DEF MovedInto, MovedOutOf
<1>16. MovedInto(a, kept)' = IF request'[u].account = a /\ e.after = kept
                             THEN into \cup {x} ELSE into
  BY <1>8, <1>11, <1>12, <1>14 DEF MovedInto
<1>17. MovedOutOf(a, kept)' = IF request'[u].account = a /\ e.before = kept
                              THEN out \cup {x} ELSE out
  BY <1>8, <1>11, <1>12, <1>14 DEF MovedOutOf
<1>18. PICK i, o : /\ i = Cardinality(EntryUnits(request, into))
                   /\ o = Cardinality(EntryUnits(request, out))
  OBVIOUS
<1>19. /\ i \in Nat /\ Cardinality(EntryUnits(request', into)) = i
       /\ Cardinality(EntryUnits(request', into \cup {x})) = i + request'[u].days
  BY <1>13, <1>15, <1>18
<1>20. /\ o \in Nat /\ Cardinality(EntryUnits(request', out)) = o
       /\ Cardinality(EntryUnits(request', out \cup {x})) = o + request'[u].days
  BY <1>13, <1>15, <1>18
<1>21. /\ Cardinality(EntryUnits(request', MovedInto(a, kept)')) =
            i + (IF request'[u].account = a /\ e.after = kept
                 THEN request'[u].days ELSE 0)
       /\ Cardinality(EntryUnits(request', MovedOutOf(a, kept)')) =
            o + (IF request'[u].account = a /\ e.before = kept
                 THEN request'[u].days ELSE 0)
  BY <1>16, <1>17, <1>19, <1>20
<1>22. Moved(a, kept) = i - o
  BY <1>14, <1>18 DEF Moved
<1>23. Moved(a, kept)' = Cardinality(EntryUnits(request', MovedInto(a, kept)'))
                          - Cardinality(EntryUnits(request', MovedOutOf(a, kept)'))
  BY DEF Moved
<1>24. QED
  BY <1>4, <1>19, <1>20, <1>21, <1>22, <1>23

(* The counters booked by a commit moved by what its entry says.           *)
LEMMA CommitCounters ==
  ASSUME Audited, Safe', NEW h \in Handlers, Commit(h), NEW a \in Accounts
  PROVE  /\ balance'[a].pending = Moved(a, "SUBMITTED")'
         /\ balance'[a].used = Moved(a, "APPROVED")'
<1>1. PICK u, e, d : /\ u = Subject(call[h]) /\ e = Recorded(call[h])
                     /\ d = request'[u].days
  OBVIOUS
<1>2. \A kept \in Statuses :
        /\ Moved(a, kept) \in Int /\ d \in Nat
        /\ Moved(a, kept)' =
             Moved(a, kept)
               + (IF request'[u].account = a /\ e.after = kept THEN d ELSE 0)
               - (IF request'[u].account = a /\ e.before = kept THEN d ELSE 0)
  BY <1>1, MovedByEntry
<1>3. PICK p, q : p = Moved(a, "SUBMITTED") /\ q = Moved(a, "APPROVED")
  OBVIOUS
<1>4. /\ p \in Int /\ q \in Int /\ d \in Nat
      /\ Moved(a, "SUBMITTED")' =
           p + (IF request'[u].account = a /\ e.after = "SUBMITTED" THEN d ELSE 0)
             - (IF request'[u].account = a /\ e.before = "SUBMITTED" THEN d ELSE 0)
      /\ Moved(a, "APPROVED")' =
           q + (IF request'[u].account = a /\ e.after = "APPROVED" THEN d ELSE 0)
             - (IF request'[u].account = a /\ e.before = "APPROVED" THEN d ELSE 0)
  BY <1>2, <1>3 DEF Statuses
<1>5. balance[a].pending = p /\ balance[a].used = q
  BY <1>3 DEF Audited, AuditIsComplete
<1>6. /\ e.after = call[h].out.status
      /\ e.before = IF call[h].op = "create" THEN None ELSE call[h].seen.status
      /\ None \notin Statuses
  BY <1>1, RecordsAssumption DEF Recorded
<1>7. balance' = IF TouchesBalance(call[h])
                 THEN [balance EXCEPT ![call[h].seen.account] = call[h].booked]
                 ELSE balance
  BY DEF Commit
<1>8. CASE call[h].op = "create"
  <2>1. ~TouchesBalance(call[h]) /\ call[h].out.status = "DRAFT"
    BY <1>8, CommitFacts DEF Faithful, TouchesBalance, Cancels
  <2>2. balance' = balance
    BY <1>7, <2>1
  <2>3. e.after = "DRAFT" /\ e.before = None
    BY <1>6, <1>8, <2>1
  <2>4. e.before \notin {"SUBMITTED", "APPROVED"}
    BY <1>6, <2>3 DEF Statuses
  <2>5. QED
    BY <1>4, <1>5, <2>2, <2>3, <2>4
<1>9. CASE call[h].op # "create"
  <2>1. /\ u = call[h].id /\ u \in Stored
        /\ request[u].account = call[h].seen.account
        /\ request[u].days = call[h].seen.days
        /\ call[h].seen \in Row
        /\ e.before = call[h].seen.status
    BY <1>1, <1>6, <1>9, CommitFacts DEF SameLeave
  <2>2. /\ request'[u].account = call[h].seen.account
        /\ d = call[h].seen.days
        /\ call[h].seen.account \in Accounts
    BY <1>1, <2>1, CommitKeepsLeave DEF SameLeave, Row
  <2>3. CASE ~TouchesBalance(call[h])
    <3>1. call[h].op = "cancel" /\ call[h].seen.status = "DRAFT"
      BY <1>9, <2>3, CommitFacts DEF TouchesBalance, Cancels, Faithful, Informed, Ops
    <3>2. call[h].out.status = "CANCELLED"
      BY <3>1, CommitFacts DEF Outcome
    <3>3. QED
      BY <1>4, <1>5, <1>6, <1>7, <2>1, <2>3, <3>1, <3>2
  <2>4. CASE TouchesBalance(call[h])
    <3>1. /\ call[h].held = balance[call[h].seen.account]
          /\ balance \in [Accounts -> Balance]
      BY <2>4, CommitFacts DEF Audited, Safe, Guarded, TypeOK
    <3>2. /\ \A b \in Accounts \ {call[h].seen.account} : balance'[b] = balance[b]
          /\ balance'[call[h].seen.account] = call[h].booked
      BY <1>7, <2>2, <2>4, <3>1
    <3>3. CASE a # call[h].seen.account
      BY <1>4, <1>5, <2>2, <3>2, <3>3
    <3>4. CASE a = call[h].seen.account
      <4>1. /\ call[h].held.pending = p /\ call[h].held.used = q
            /\ request'[u].account = a
        BY <1>5, <2>2, <3>1, <3>4
      <4>2. /\ 0 * d = 0 /\ 1 * d = d /\ -1 * d = -d
        BY <1>4
      <4>3. CASE call[h].op = "submit"
        <5>1. /\ call[h].booked = Moves(call[h], 0, 1)
              /\ e.after = "SUBMITTED" /\ e.before = "DRAFT"
          BY <1>6, <2>1, <4>3, CommitFacts DEF Outcome, Faithful
        <5>2. balance'[a] = [used |-> q, pending |-> p + d]
          BY <1>4, <2>2, <3>2, <3>4, <4>1, <4>2, <5>1 DEF Moves
        <5>3. QED
          BY <1>4, <4>1, <5>1, <5>2
      <4>4. CASE call[h].op = "approve"
        <5>1. /\ call[h].booked = Moves(call[h], 1, -1)
              /\ e.after = "APPROVED" /\ e.before = "SUBMITTED"
          BY <1>6, <2>1, <4>4, CommitFacts DEF Outcome, Faithful
        <5>2. balance'[a] = [used |-> q + d, pending |-> p - d]
          BY <1>4, <2>2, <3>2, <3>4, <4>1, <4>2, <5>1 DEF Moves
        <5>3. QED
          BY <1>4, <4>1, <5>1, <5>2
      <4>5. CASE call[h].op = "reject" \/ Cancels(call[h], "SUBMITTED")
        <5>1. /\ call[h].booked = Moves(call[h], 0, -1)
              /\ e.after \in {"REJECTED", "CANCELLED"} /\ e.before = "SUBMITTED"
          BY <1>6, <2>1, <4>5, CommitFacts DEF Outcome, Faithful, Cancels
        <5>2. balance'[a] = [used |-> q, pending |-> p - d]
          BY <1>4, <2>2, <3>2, <3>4, <4>1, <4>2, <5>1 DEF Moves
        <5>3. QED
          BY <1>4, <4>1, <5>1, <5>2
      <4>6. CASE Cancels(call[h], "APPROVED")
        <5>1. /\ call[h].booked = Moves(call[h], -1, 0)
              /\ e.after = "CANCELLED" /\ e.before = "APPROVED"
          BY <1>6, <2>1, <4>6, CommitFacts DEF Outcome, Cancels
        <5>2. balance'[a] = [used |-> q - d, pending |-> p]
          BY <1>4, <2>2, <3>2, <3>4, <4>1, <4>2, <5>1 DEF Moves
        <5>3. QED
          BY <1>4, <4>1, <5>1, <5>2
      <4>7. QED
        BY <2>4, <4>3, <4>4, <4>5, <4>6 DEF TouchesBalance
    <3>5. QED
      BY <3>3, <3>4
  <2>5. QED
    BY <2>3, <2>4
<1>10. QED
  BY <1>8, <1>9

LEMMA CommitNotifies ==
  ASSUME Audited, Safe', NEW h \in Handlers, Commit(h), NEW r \in Requests
  PROVE  notified'[r] = Cardinality(NotifiedBy(audit'[r]))
<1>1. /\ notified[r] = Cardinality(NotifiedBy(audit[r]))
      /\ notified \in [Requests -> Nat]
  BY DEF Audited, AuditIsComplete, Safe, TypeOK
<1>2. PICK u : u = Subject(call[h])
  OBVIOUS
<1>3. notified' = IF Notifies(Recorded(call[h]))
                  THEN [notified EXCEPT ![u] = @ + 1]
                  ELSE notified
  BY <1>2 DEF Commit
<1>4. CASE r # u
  <2>1. audit'[r] = audit[r]
    BY <1>2, <1>4, CommitTrails
  <2>2. QED
    BY <1>1, <1>3, <1>4, <2>1
<1>5. CASE r = u
  <2>1. PICK n : n = Len(audit[u]) + 1
    OBVIOUS
  <2>2. PICK N : N = NotifiedBy(audit[u])
    OBVIOUS
  <2>3. audit[u] \in Seq(Entry)
    BY <1>5 DEF Audited, Safe, TypeOK
  <2>4. IsFiniteSet(DOMAIN audit[u])
    <3>1. DOMAIN audit[u] = 1 .. Len(audit[u]) /\ Len(audit[u]) \in Nat
      BY <2>3
    <3>2. QED
      BY <3>1, FS_Interval
  <2>5. N \subseteq DOMAIN audit[u]
    BY <2>2 DEF NotifiedBy
  <2>6. IsFiniteSet(N)
    BY <2>4, <2>5, FS_Subset
  <2>7. /\ DOMAIN audit'[u] = DOMAIN audit[u] \cup {n}
        /\ n \notin DOMAIN audit[u]
    BY <1>2, <2>1, CommitTrails
  <2>8. audit'[u][n] = Recorded(call[h])
    BY <1>2, <2>1, CommitTrails
  <2>9. \A i \in DOMAIN audit[u] : audit'[u][i] = audit[u][i]
    BY <1>2, <2>1, CommitTrails
  <2>10. NotifiedBy(audit'[u]) = IF Notifies(Recorded(call[h]))
                                 THEN N \cup {n} ELSE N
    BY <2>2, <2>7, <2>8, <2>9 DEF NotifiedBy
  <2>11. Cardinality(N \cup {n}) = Cardinality(N) + 1
    BY <2>5, <2>6, <2>7, FS_AddElement
  <2>12. QED
    BY <1>1, <1>3, <1>5, <2>2, <2>10, <2>11
<1>6. QED
  BY <1>4, <1>5

LEMMA CommitTrailFits ==
  ASSUME Audited, Safe', NEW h \in Handlers, Commit(h)
  PROVE  TrailFits'
<1>1. PICK u, e, n : /\ u = Subject(call[h]) /\ e = Recorded(call[h])
                     /\ n = Len(audit[u]) + 1
  OBVIOUS
<1>2. PICK t : t = call[h].target
  OBVIOUS
<1>3. /\ u \in Stored' /\ u \in Requests /\ t \in Requests
      /\ Stored' = Stored \cup {t}
      /\ request'[t] = call[h].out
      /\ \A r \in Requests \ {t} : request'[r] = request[r]
  BY <1>1, <1>2, CommitFacts
<1>4. \A r \in Requests \ {u} : audit'[r] = audit[r]
  BY <1>1, CommitTrails
<1>5. \A r \in Requests : Approved(r) => Approved(r)'
  BY <1>1, CommitTrails
<1>6. /\ \A r \in Stored' : r \in Requests /\ request'[r] # None
      /\ \A r \in Requests : request'[r] = None => r \notin Stored'
      /\ \A r \in Requests : r \notin Stored => request[r] = None
  BY DEF Stored, StoredIn
<1>7. TrailFits
  BY DEF Audited
<1>8. ASSUME NEW r \in Requests, request'[r] = None PROVE audit'[r] = <<>>
  <2>1. r # u /\ r \notin Stored
    BY <1>3, <1>6, <1>8
  <2>2. QED
    BY <1>4, <1>6, <1>7, <2>1 DEF TrailFits
<1>9. ASSUME NEW r \in Stored', request'[r].reverses # None
      PROVE  /\ request'[r].reverses \in Stored'
             /\ request'[r].status = "CANCELLED" /\ request'[r].approver = None
             /\ audit'[r] = <<>>
  <2>1. CASE r \in Stored
    <3>1. request[r].reverses # None /\ r \in Requests
      BY <1>6, <1>9, <2>1, CommitKeepsLeave DEF SameLeave
    <3>2. r # t
      <4>1. CASE Inserts(call[h])
        BY <1>2, <2>1, <4>1, CommitFacts
      <4>2. CASE ~Inserts(call[h])
        BY <1>2, <3>1, <4>2, CommitFacts DEF SameLeave, Inserts
      <4>3. QED
        BY <4>1, <4>2
    <3>3. r # u
      <4>1. CASE call[h].op = "create"
        BY <1>1, <1>2, <3>2, <4>1 DEF Subject
      <4>2. CASE call[h].op # "create"
        BY <1>1, <3>1, <4>2, CommitFacts DEF SameLeave
      <4>3. QED
        BY <4>1, <4>2
    <3>4. request'[r] = request[r] /\ audit'[r] = audit[r]
      BY <1>3, <1>4, <3>1, <3>2, <3>3
    <3>5. QED
      BY <1>3, <1>7, <2>1, <3>1, <3>4 DEF TrailFits
  <2>2. CASE r \notin Stored
    <3>1. r = t /\ request'[r] = call[h].out
      BY <1>3, <2>2
    <3>2. Inserts(call[h])
      BY <1>2, <2>2, <3>1, CommitFacts DEF Inserts
    <3>3. call[h].op # "create"
      BY <1>9, <3>1, CommitFacts DEF Faithful
    <3>4. call[h].out = ReversalOf(call[h].id, call[h].seen, call[h].actor)
      BY <3>2, <3>3, CommitFacts DEF Outcome, Inserts
    <3>5. u = call[h].id /\ u \in Stored
      BY <1>1, <3>3, CommitFacts
    <3>6. /\ request'[r].reverses = u
          /\ request'[r].status = "CANCELLED" /\ request'[r].approver = None
      BY <3>1, <3>4, <3>5, ReversalRow
    <3>7. audit'[r] = <<>>
      BY <1>4, <1>6, <1>7, <2>2, <3>5 DEF TrailFits
    <3>8. QED
      BY <1>3, <3>6, <3>7
  <2>3. QED
    BY <2>1, <2>2
<1>10. ASSUME NEW r \in Stored', request'[r].status = "APPROVED"
       PROVE  Approved(r)'
  <2>1. CASE r = t
    <3>1. call[h].out.status = "APPROVED"
      BY <1>3, <1>10, <2>1
    <3>2. call[h].op = "approve"
      BY <3>1, CommitFacts DEF Outcome, Faithful, Informed, Ops
    <3>3. u = r
      BY <1>1, <1>2, <2>1, <3>2, CommitFacts DEF Inserts, Cancels
    <3>4. Recorded(call[h]).after = "APPROVED"
      BY <3>1 DEF Recorded
    <3>5. QED
      BY <1>1, <3>3, <3>4, CommitTrails
  <2>2. CASE r # t
    <3>1. r \in Stored /\ r \in Requests /\ request'[r] = request[r]
      BY <1>3, <1>6, <2>2
    <3>2. QED
      BY <1>5, <1>7, <1>10, <3>1 DEF TrailFits
  <2>3. QED
    BY <2>1, <2>2
<1>11. ASSUME NEW r \in Stored', NEW i \in DOMAIN audit'[r],
              audit'[r][i].before = "APPROVED"
       PROVE  audit'[r][i].action = "cancel" /\ Approved(r)'
  <2>1. DOMAIN audit'[u] = DOMAIN audit[u] \cup {n}
    BY <1>1, CommitTrails
  <2>2. audit'[u][n] = e
    BY <1>1, CommitTrails
  <2>3. \A j \in DOMAIN audit[u] : audit'[u][j] = audit[u][j]
    BY <1>1, CommitTrails
  <2>4. CASE r = u /\ i = n
    <3>1. e.before = "APPROVED" /\ audit'[r][i] = e
      BY <1>11, <2>2, <2>4
    <3>2. /\ e.action = call[h].op
          /\ e.before = IF call[h].op = "create" THEN None ELSE call[h].seen.status
      BY <1>1 DEF Recorded
    <3>3. call[h].op # "create" /\ call[h].seen.status = "APPROVED"
      BY <3>1, <3>2, RecordsAssumption DEF Statuses
    <3>4. call[h].op = "cancel" /\ Approved(call[h].id)
      BY <3>3, CommitFacts DEF Faithful, Informed, Ops
    <3>5. u = call[h].id
      BY <1>1, <3>3, CommitFacts
    <3>6. QED
      BY <1>3, <1>5, <2>4, <3>1, <3>2, <3>4, <3>5
  <2>5. CASE ~(r = u /\ i = n)
    <3>1. i \in DOMAIN audit[r] /\ audit'[r][i] = audit[r][i]
      BY <1>4, <1>6, <2>1, <2>3, <2>5
    <3>2. r \in Stored /\ r \in Requests
      BY <1>6, <1>7, <3>1 DEF TrailFits
    <3>3. QED
      BY <1>5, <1>7, <1>11, <3>1, <3>2 DEF TrailFits
  <2>6. QED
    BY <2>4, <2>5
<1>12. QED
  BY <1>8, <1>9, <1>10, <1>11 DEF TrailFits

LEMMA CommitReleases ==
  ASSUME Audited, Safe', NEW h \in Handlers, Commit(h)
  PROVE  ReleasesMatch'
<1>1. PICK u, e, n : /\ u = Subject(call[h]) /\ e = Recorded(call[h])
                     /\ n = Len(audit[u]) + 1
  OBVIOUS
<1>2. PICK t : t = call[h].target
  OBVIOUS
<1>3. /\ u \in Stored' /\ u \in Requests /\ t \in Requests
      /\ Stored' = Stored \cup {t}
      /\ request'[t] = call[h].out
      /\ \A r \in Requests \ {t} : request'[r] = request[r]
  BY <1>1, <1>2, CommitFacts
<1>4. \A r \in Requests \ {u} : audit'[r] = audit[r]
  BY <1>1, CommitTrails
<1>5. DOMAIN audit'[u] = DOMAIN audit[u] \cup {n} /\ n \notin DOMAIN audit[u]
  BY <1>1, CommitTrails
<1>6. audit'[u][n] = e
  BY <1>1, CommitTrails
<1>7. \A i \in DOMAIN audit[u] : audit'[u][i] = audit[u][i]
  BY <1>1, CommitTrails
<1>8. TrailFits /\ ReleasesMatch
  BY DEF Audited
<1>9. \A r \in Stored : r \in Requests /\ request'[r].reverses = request[r].reverses
  BY CommitKeepsLeave DEF SameLeave, Stored, StoredIn
<1>10. \A r \in Requests \ {u} : ReleasesOf(r)' = ReleasesOf(r)
  BY <1>4 DEF ReleasesOf, Releases
<1>11. \A r : ReversalsOf(r)' = IF t \notin Stored /\ call[h].out.reverses = r
                                THEN ReversalsOf(r) \cup {t} ELSE ReversalsOf(r)
  BY <1>3, <1>9 DEF ReversalsOf
<1>12. \A r \in Requests \ Stored : ReleasesOf(r) = {} /\ ReversalsOf(r) = {}
  <2>1. \A r \in Requests \ Stored : audit[r] = <<>>
    BY <1>8 DEF TrailFits, Stored, StoredIn
  <2>2. \A r \in Requests \ Stored : ReleasesOf(r) = {}
    BY <2>1 DEF ReleasesOf
  <2>3. \A r \in Requests \ Stored : ReversalsOf(r) = {}
    BY <1>8, RecordsAssumption DEF ReversalsOf, TrailFits
  <2>4. QED
    BY <2>2, <2>3
<1>13. Cardinality({}) = 0 /\ \A x : Cardinality({x}) = 1
  BY FS_EmptySet, FS_Singleton
<1>14. \A r \in Requests : /\ Cardinality(ReleasesOf(r)) = Cardinality(ReversalsOf(r))
                           /\ Cardinality(ReleasesOf(r)) <= 1
  BY <1>8, <1>12, <1>13 DEF ReleasesMatch
<1>15. /\ e.action = call[h].op
       /\ e.before = IF call[h].op = "create" THEN None ELSE call[h].seen.status
       /\ None # "APPROVED"
  BY <1>1, RecordsAssumption DEF Recorded, Statuses
<1>16. CASE Cancels(call[h], "APPROVED")
  <2>1. /\ u = call[h].id /\ u \in Stored /\ t \notin Stored
        /\ call[h].op = "cancel" /\ e.before = "APPROVED"
    BY <1>1, <1>2, <1>15, <1>16, CommitFacts DEF Cancels, Inserts
  <2>2. call[h].out = ReversalOf(call[h].id, call[h].seen, call[h].actor)
    BY <1>16, CommitFacts DEF Outcome
  <2>3. call[h].out.reverses = u
    BY <2>1, <2>2, ReversalRow
  <2>4. ReversalsOf(u) = {}
    BY <1>16, <2>1, CommitFacts DEF Placed, Reversed, ReversedIn, ReversalsOf, Stored
  <2>5. ReleasesOf(u) = {}
    <3>1. ReleasesOf(u) \subseteq DOMAIN audit[u]
      BY DEF ReleasesOf
    <3>2. audit[u] \in Seq(Entry)
      BY <1>3 DEF Audited, Safe, TypeOK
    <3>3. DOMAIN audit[u] = 1 .. Len(audit[u]) /\ Len(audit[u]) \in Nat
      BY <3>2
    <3>4. IsFiniteSet(1 .. Len(audit[u]))
      BY <3>3, FS_Interval
    <3>5. IsFiniteSet(ReleasesOf(u))
      BY <3>1, <3>3, <3>4, FS_Subset
    <3>6. Cardinality(ReleasesOf(u)) = 0
      BY <1>3, <1>13, <1>14, <2>4
    <3>7. QED
      BY <3>5, <3>6, FS_EmptySet
  <2>6. ReversalsOf(u)' = {t}
    BY <1>11, <2>1, <2>3, <2>4
  <2>7. ReleasesOf(u)' = {n}
    <3>1. Releases(audit'[u][n])
      BY <1>6, <1>15, <2>1 DEF Releases
    <3>2. \A i \in DOMAIN audit[u] : ~Releases(audit'[u][i])
      BY <1>7, <2>5 DEF ReleasesOf
    <3>3. QED
      BY <1>5, <3>1, <3>2 DEF ReleasesOf, Releases
  <2>8. ASSUME NEW r \in Requests
        PROVE  /\ Cardinality(ReleasesOf(r)') = Cardinality(ReversalsOf(r)')
               /\ Cardinality(ReleasesOf(r)') <= 1
    <3>1. CASE r = u
      <4>1. Cardinality({t}) = 1 /\ Cardinality({n}) = 1
        BY <1>13
      <4>2. ReleasesOf(r)' = {n} /\ ReversalsOf(r)' = {t}
        BY <2>6, <2>7, <3>1
      <4>3. QED
        BY <4>1, <4>2
    <3>2. CASE r # u
      <4>1. ReleasesOf(r)' = ReleasesOf(r) /\ ReversalsOf(r)' = ReversalsOf(r)
        BY <1>10, <1>11, <2>3, <3>2
      <4>2. QED
        BY <1>14, <4>1
    <3>3. QED
      BY <3>1, <3>2
  <2>9. QED
    BY <2>8 DEF ReleasesMatch, Stored, StoredIn
<1>17. CASE ~Cancels(call[h], "APPROVED")
  <2>1. ~Releases(e)
    <3>1. call[h].op = "cancel" /\ call[h].seen.status = "APPROVED"
            => Cancels(call[h], "APPROVED")
      BY DEF Cancels
    <3>2. QED
      BY <1>15, <1>17, <3>1 DEF Releases
  <2>2. ReleasesOf(u)' = ReleasesOf(u)
    <3>1. ~Releases(audit'[u][n])
      BY <1>6, <2>1
    <3>2. \A i \in DOMAIN audit[u] : Releases(audit'[u][i]) <=> Releases(audit[u][i])
      BY <1>7
    <3>3. QED
      BY <1>5, <3>1, <3>2 DEF ReleasesOf, Releases
  <2>3. t \notin Stored => call[h].out.reverses = None
    BY <1>2, <1>17, CommitFacts DEF Inserts, Faithful
  <2>4. \A r \in Requests : ReversalsOf(r)' = ReversalsOf(r)
    BY <1>11, <2>3, RecordsAssumption
  <2>5. \A r \in Requests : /\ Cardinality(ReleasesOf(r)') = Cardinality(ReversalsOf(r)')
                            /\ Cardinality(ReleasesOf(r)') <= 1
    BY <1>10, <1>14, <2>2, <2>4
  <2>6. QED
    BY <2>5 DEF ReleasesMatch, Stored, StoredIn
<1>18. QED
  BY <1>16, <1>17

LEMMA CommitAudited ==
  ASSUME Audited, Safe', NEW h \in Handlers, Commit(h)
  PROVE  Audited'
<1>1. /\ call' = [call EXCEPT ![h] = Idle]
      /\ rowLock' = [r \in Requests |-> IF rowLock[r] = h THEN None ELSE rowLock[r]]
  BY DEF Commit, Release
<1>2. call'[h] = Idle /\ \A g \in Handlers \ {h} : call'[g] = call[g]
  BY <1>1, CommitFacts DEF TypeOK
<1>3. Faithful(Idle)' /\ \A g \in Handlers : Placed(g, Idle)'
  BY DEF Faithful, Placed, Idle
<1>4. PICK t : t = call[h].target
  OBVIOUS
<1>5. /\ t \in Requests /\ rowLock[t] = h /\ call[h].pc = "written"
      /\ Stored' = Stored \cup {t}
      /\ request'[t] = call[h].out
      /\ \A r \in Requests \ {t} : request'[r] = request[r]
  BY <1>4, CommitFacts DEF Placed
<1>6. ASSUME NEW g \in Handlers \ {h} PROVE Faithful(call[g])'
  <2>1. PICK c : c = call[g]
    OBVIOUS
  <2>2. Faithful(c) /\ Informed(c)
    BY <2>1 DEF Audited, Safe
  <2>3. Outcome(c)' <=> Outcome(c)
    BY DEF Outcome, Moves, Cancels, Inserts
  <2>4. c.pc # "idle" /\ c.op # "create" =>
          /\ SameLeave(request'[c.id], c.seen)
          /\ Approved(c.id) => Approved(c.id)'
    <3>1. HAVE c.pc # "idle" /\ c.op # "create"
    <3>2. c.id \in Stored /\ c.id \in Requests
      BY <2>2, <3>1 DEF Informed, Stored, StoredIn
    <3>3. SameLeave(request'[c.id], request[c.id])
      BY <3>2, CommitKeepsLeave
    <3>4. SameLeave(request[c.id], c.seen)
      BY <2>2, <3>1 DEF Faithful
    <3>5. \A r \in Requests : Approved(r) => Approved(r)'
      BY CommitTrails
    <3>6. QED
      BY <3>2, <3>3, <3>4, <3>5 DEF SameLeave
  <2>5. Faithful(c)'
    BY <2>2, <2>3, <2>4 DEF Faithful
  <2>6. call'[g] = c
    BY <1>2, <2>1
  <2>7. QED
    BY <2>5, <2>6 DEF Faithful, Outcome, SameLeave, Approved, Moves, Cancels, Inserts
<1>7. ASSUME NEW g \in Handlers \ {h}, call[g].pc = "written"
      PROVE  Placed(g, call[g])'
  <2>1. /\ call'[g] = call[g] /\ Placed(g, call[g]) /\ Informed(call[g])
        /\ g # None /\ g # h
    BY <1>2, <1>7, ServiceAssumption DEF Audited, Safe
  <2>2. call[g].target \in Requests /\ rowLock[call[g].target] = g
    BY <1>7, <2>1 DEF Placed, Informed
  <2>3. call[g].target # t /\ rowLock'[call[g].target] = g
    BY <1>1, <1>5, <2>1, <2>2
  <2>4. request'[call[g].target] = request[call[g].target]
    BY <1>5, <2>2, <2>3
  <2>5. ASSUME Cancels(call[g], "APPROVED")
        PROVE  /\ ~Reversed(call[g].id)'
               /\ \A f \in Handlers \ {g} :
                    call'[f].pc = "written" => call'[f].out.reverses # call[g].id
    <3>1. /\ ~Reversed(call[g].id)
          /\ \A f \in Handlers \ {g} :
               call[f].pc = "written" => call[f].out.reverses # call[g].id
      BY <1>7, <2>1, <2>5 DEF Placed
    <3>2. \A s \in Stored' : request'[s].reverses # call[g].id
      <4>1. request'[t].reverses # call[g].id
        BY <1>5, <2>1, <3>1
      <4>2. \A s \in Stored : request'[s].reverses = request[s].reverses
        BY CommitKeepsLeave DEF SameLeave
      <4>3. QED
        BY <1>5, <3>1, <4>1, <4>2 DEF Reversed, ReversedIn, Stored
    <3>3. Idle.pc # "written"
      BY DEF Idle
    <3>4. \A f \in Handlers \ {g} :
            call'[f].pc = "written" => call'[f].out.reverses # call[g].id
      BY <1>2, <3>1, <3>3
    <3>5. QED
      BY <2>1, <3>2, <3>4 DEF Reversed, ReversedIn, Stored
  <2>6. QED
    BY <2>1, <2>3, <2>4, <2>5, <1>7, CommitFacts DEF Placed, Inserts, Cancels
<1>8. ASSUME NEW g \in Handlers PROVE Faithful(call[g])' /\ Placed(g, call[g])'
  <2>1. CASE g = h
    <3>1. call'[g] = Idle
      BY <1>2, <2>1
    <3>2. Faithful(Idle)' /\ Placed(g, Idle)'
      BY <1>3
    <3>3. QED
      BY <3>1 DEF Faithful, Placed, Idle
  <2>2. CASE g # h /\ call[g].pc = "written"
    BY <1>6, <1>7, <2>2
  <2>3. CASE g # h /\ call[g].pc # "written"
    <3>1. call'[g].pc # "written"
      BY <1>2, <2>3
    <3>2. QED
      BY <1>6, <2>3, <3>1 DEF Placed
  <2>4. QED
    BY <2>1, <2>2, <2>3
<1>9. AuditIsComplete'
  BY CommitCounters, CommitNotifies DEF AuditIsComplete
<1>10. QED
  BY <1>8, <1>9, CommitTrailFits, CommitReleases DEF Audited

-----------------------------------------------------------------------------

LEMMA AuditedInit == Init => Audited
<1> SUFFICES ASSUME Init PROVE Audited
  OBVIOUS
<1>1. Safe
  BY SafeInit
<1>2. /\ \A r \in Requests : request[r] = None /\ audit[r] = <<>> /\ notified[r] = 0
      /\ \A a \in Accounts : balance[a] = ZeroBalance
      /\ \A h \in Handlers : call[h] = Idle
  BY DEF Init
<1>3. Stored = {}
  BY <1>2 DEF Stored, StoredIn
<1>4. \A h \in Handlers : Faithful(call[h]) /\ Placed(h, call[h])
  BY <1>2 DEF Faithful, Placed, Idle
<1>5. TrailFits /\ ReleasesMatch
  BY <1>2, <1>3 DEF TrailFits, ReleasesMatch
<1>6. \A a, kept : Moved(a, kept) = 0
  <2>1. \A a : EntriesOf(a) = {}
    BY <1>3 DEF EntriesOf
  <2>2. \A a, kept : MovedInto(a, kept) = {} /\ MovedOutOf(a, kept) = {}
    BY <2>1 DEF MovedInto, MovedOutOf
  <2>3. EntryUnits(request, {}) = {} /\ Cardinality({}) = 0
    BY FS_EmptySet DEF EntryUnits
  <2>4. QED
    BY <2>2, <2>3 DEF Moved
<1>7. \A r \in Requests : Cardinality(NotifiedBy(audit[r])) = 0
  <2>1. \A r \in Requests : NotifiedBy(audit[r]) = {}
    BY <1>2 DEF NotifiedBy
  <2>2. QED
    BY <2>1, FS_EmptySet
<1>8. AuditIsComplete
  BY <1>2, <1>6, <1>7 DEF AuditIsComplete, ZeroBalance
<1>9. QED
  BY <1>1, <1>4, <1>5, <1>8 DEF Audited

LEMMA AuditedStep == Audited /\ [Next]_vars => Audited'
<1> SUFFICES ASSUME Audited, [Next]_vars PROVE Audited'
  OBVIOUS
<1>1. Safe'
  BY SafeStep DEF Audited
<1>2. ASSUME NEW h \in Handlers, Receive(h) PROVE Audited'
  BY <1>1, <1>2, ReceiveAudited
<1>3. ASSUME NEW h \in Handlers, FindReversal(h) PROVE Audited'
  <2>1. call[h] \in Call
    BY DEF Audited, Safe, TypeOK
  <2>2. PICK c : c = [call[h] EXCEPT !.pc = "searched"]
    OBVIOUS
  <2>3. /\ c.pc = "searched" /\ c.op = call[h].op /\ c.id = call[h].id
        /\ c.seen = call[h].seen /\ c.out = call[h].out
    BY <2>1, <2>2 DEF Call
  <2>4. /\ call[h].pc = "checked" /\ UNCHANGED <<db, rowLock>>
        /\ call' = [call EXCEPT ![h] = c]
    BY <1>3, <2>2 DEF FindReversal, locks, Audited, Safe, TypeOK
  <2>5. QED
    BY <1>1, <2>3, <2>4, ReadAudited
<1>4. ASSUME NEW h \in Handlers, LockBalance(h) PROVE Audited'
  <2>1. call[h] \in Call
    BY DEF Audited, Safe, TypeOK
  <2>2. PICK c : c = [call[h] EXCEPT !.pc = "locked",
                                     !.held = balance[call[h].seen.account]]
    OBVIOUS
  <2>3. /\ c.pc = "locked" /\ c.op = call[h].op /\ c.id = call[h].id
        /\ c.seen = call[h].seen /\ c.out = call[h].out
    BY <2>1, <2>2 DEF Call
  <2>4. /\ call[h].pc \in {"checked", "searched"} /\ UNCHANGED <<db, rowLock>>
        /\ call' = [call EXCEPT ![h] = c]
    BY <1>4, <2>2 DEF LockBalance, WantsBalance, Audited, Safe, TypeOK
  <2>5. QED
    BY <1>1, <2>3, <2>4, ReadAudited
<1>5. ASSUME NEW h \in Handlers,
             \/ WriteSubmit(h) \/ WriteApprove(h) \/ WriteReject(h)
             \/ WriteCancelSubmitted(h) \/ WriteCancelDraft(h)
             \/ \E r \in Requests : InsertDraft(h, r) \/ InsertReversal(h, r)
      PROVE  Audited'
  BY <1>1, <1>5, WriteAudited
<1>6. ASSUME NEW h \in Handlers, Commit(h) PROVE Audited'
  BY <1>1, <1>6, CommitAudited
<1>7. ASSUME NEW h \in Handlers, Refuse(h) \/ Abort(h) PROVE Audited'
  BY <1>1, <1>7, ReleaseAudited DEF Refuse, Abort
<1>8. CASE NextDay \/ UNCHANGED vars
  <2>1. UNCHANGED <<db, locks, call>>
    BY <1>8 DEF NextDay, vars
  <2>2. \A g \in Handlers : /\ call'[g] = call[g]
                            /\ Faithful(call[g]) /\ Placed(g, call[g])
    BY <2>1 DEF Audited
  <2>3. UNCHANGED db /\ rowLock' = rowLock /\ call' = call
    BY <2>1 DEF locks
  <2>4. ASSUME NEW g \in Handlers PROVE Faithful(call[g])'
    <3>1. PICK c : c = call[g]
      OBVIOUS
    <3>2. Faithful(c)'
      BY <2>2, <2>3, <3>1, TrailUnchanged
    <3>3. QED
      BY <2>2, <3>1, <3>2
           DEF Faithful, Outcome, SameLeave, Approved, Moves, Cancels, Inserts
  <2>5. ASSUME NEW g \in Handlers PROVE Placed(g, call[g])'
    BY <2>2, <2>3 DEF Placed, Inserts, Cancels, Reversed, ReversedIn, StoredIn, db
  <2>6. QED
    BY <1>1, <2>3, <2>4, <2>5, TrailUnchanged DEF Audited
<1>9. QED
  BY <1>2, <1>3, <1>4, <1>5, <1>6, <1>7, <1>8 DEF Next, Proceed

(* Every release was approved before it, by an entry of the same request,  *)
(* so an account has released no more days than it has used.               *)
LEMMA UsedNonNegative ==
  ASSUME Audited, NEW a \in Accounts
  PROVE  balance[a].used >= 0
<1>1. PICK into, out : into = MovedInto(a, "APPROVED") /\ out = MovedOutOf(a, "APPROVED")
  OBVIOUS
<1>2. /\ IsFiniteSet(EntriesOf(a))
      /\ \A y \in EntriesOf(a) : /\ y[1] \in Stored /\ y[1] \in Requests
                                 /\ request[y[1]].account = a
                                 /\ request[y[1]].days \in Nat
                                 /\ y[2] \in DOMAIN audit[y[1]]
                                 /\ y = <<y[1], y[2]>>
  BY EntriesFinite DEF Audited, Safe
<1>3. into \in SUBSET EntriesOf(a) /\ out \in SUBSET EntriesOf(a)
  BY <1>1 DEF MovedInto, MovedOutOf
<1>4. ASSUME NEW x \in out
      PROVE  /\ x[2] \in ReleasesOf(x[1]) /\ x[1] \in Stored
             /\ \E y \in into : y[1] = x[1]
  <2>1. x \in EntriesOf(a) /\ audit[x[1]][x[2]].before = "APPROVED"
    BY <1>1 DEF MovedOutOf, EntryAt
  <2>2. audit[x[1]][x[2]].action = "cancel" /\ Approved(x[1])
    BY <1>2, <2>1 DEF Audited, TrailFits
  <2>3. x[2] \in ReleasesOf(x[1])
    BY <1>2, <2>1, <2>2 DEF ReleasesOf, Releases
  <2>4. PICK i \in DOMAIN audit[x[1]] : audit[x[1]][i].after = "APPROVED"
    BY <2>2 DEF Approved
  <2>5. <<x[1], i>> \in EntriesOf(a)
    BY <1>2, <2>1 DEF EntriesOf
  <2>6. <<x[1], i>> \in into
    BY <1>1, <2>4, <2>5 DEF MovedInto, EntryAt
  <2>7. QED
    BY <1>2, <2>1, <2>3, <2>6
<1>5. \A x \in out, z \in out : x[1] = z[1] => x = z
  <2>1. SUFFICES ASSUME NEW x \in out, NEW z \in out, x[1] = z[1] PROVE x = z
    OBVIOUS
  <2>2. PICK rel : rel = ReleasesOf(x[1])
    OBVIOUS
  <2>3. x[2] \in rel /\ z[2] \in rel /\ x[1] \in Requests
    BY <1>2, <1>3, <1>4, <2>1, <2>2
  <2>4. audit[x[1]] \in Seq(Entry)
    BY <2>3 DEF Audited, Safe, TypeOK
  <2>5. DOMAIN audit[x[1]] = 1 .. Len(audit[x[1]]) /\ Len(audit[x[1]]) \in Nat
    BY <2>4
  <2>6. IsFiniteSet(1 .. Len(audit[x[1]]))
    BY <2>5, FS_Interval
  <2>7. rel \subseteq 1 .. Len(audit[x[1]])
    BY <2>2, <2>5 DEF ReleasesOf
  <2>8. IsFiniteSet(rel) /\ Cardinality(rel) \in Nat
    BY <2>6, <2>7, FS_Subset, FS_CardinalityType
  <2>9. Cardinality(rel) <= 1
    BY <1>4, <2>2 DEF Audited, ReleasesMatch
  <2>10. Cardinality(rel) = 1
    <3>1. Cardinality(rel) # 0
      BY <2>3, <2>8, FS_EmptySet
    <3>2. QED
      BY <2>8, <2>9, <3>1
  <2>11. \E i : rel = {i}
    BY <2>8, <2>10, FS_Singleton
  <2>12. x[2] = z[2]
    BY <2>3, <2>11
  <2>13. QED
    BY <1>2, <1>3, <2>1, <2>12
<1>6. PICK f : f = [x \in out |-> CHOOSE y \in into : y[1] = x[1]]
  OBVIOUS
<1>7. \A x \in out : f[x] \in into /\ f[x][1] = x[1]
  BY <1>4, <1>6
<1>8. PICK In, Out : /\ In = EntryUnits(request, into)
                     /\ Out = EntryUnits(request, out)
  OBVIOUS
<1>9. \A p \in Out : /\ p[1] \in out /\ p[2] \in 1 .. request[p[1][1]].days
                     /\ p = <<p[1], p[2]>>
  BY <1>8 DEF EntryUnits
<1>10. PICK g : g = [p \in Out |-> <<f[p[1]], p[2]>>]
  OBVIOUS
<1>11. g \in Injection(Out, In)
  <2>1. ASSUME NEW p \in Out PROVE g[p] \in In
    BY <1>7, <1>8, <1>9, <1>10 DEF EntryUnits
  <2>2. ASSUME NEW p \in Out, NEW q \in Out, g[p] = g[q] PROVE p = q
    <3>1. f[p[1]] = f[q[1]] /\ p[2] = q[2]
      BY <1>10, <2>2
    <3>2. p[1] = q[1]
      BY <1>5, <1>7, <1>9, <3>1
    <3>3. QED
      BY <1>9, <3>1, <3>2
  <2>3. QED
    BY <1>10, <2>1, <2>2 DEF Injection, IsInjective
<1>12. /\ IsFiniteSet(In) /\ Cardinality(In) \in Nat
       /\ IsFiniteSet(Out) /\ Cardinality(Out) \in Nat
  <2>1. IsFiniteSet(into) /\ IsFiniteSet(out)
    BY <1>2, <1>3, FS_Subset
  <2>2. /\ \A y \in into : request[y[1]].days \in Nat
        /\ \A y \in out : request[y[1]].days \in Nat
    BY <1>2, <1>3
  <2>3. IsFiniteSet(In) /\ Cardinality(In) \in Nat
    BY <1>8, <2>1, <2>2, EntryUnitsFinite
  <2>4. IsFiniteSet(Out) /\ Cardinality(Out) \in Nat
    BY <1>8, <2>1, <2>2, EntryUnitsFinite
  <2>5. QED
    BY <2>3, <2>4
<1>13. Cardinality(Out) <= Cardinality(In)
  BY <1>11, <1>12, FS_Injection
<1>14. balance[a].used = Cardinality(In) - Cardinality(Out)
  BY <1>1, <1>8 DEF Audited, AuditIsComplete, Moved
<1>15. QED
  BY <1>12, <1>13, <1>14

(* Whatever calls overlap and whichever of them are rolled back, the       *)
(* balances are what the audit trail adds up to, and every decision and    *)
(* cancellation of the trail was notified once: the code updates the row,  *)
(* books the balance, records the audit entry and sends the notification   *)
(* in one transaction (LeaveService.approve and its siblings).             *)
THEOREM AuditComplete == Spec => []AuditIsComplete
<1>1. Audited => AuditIsComplete
  BY DEF Audited
<1>2. QED
  BY <1>1, AuditedInit, AuditedStep, PTL DEF Spec

(* However cancellations of one approved request race, one of them inserts *)
(* the reversal, gives the days back and is audited, and usedDays never    *)
(* falls below zero; nobody can act on the reversal itself.                *)
THEOREM ReleasesOnce == Spec => []ReleasedOnce
<1>1. ASSUME Audited PROVE ReleasedOnce
  <2>1. \A r \in Stored : /\ Cardinality(ReleasesOf(r)) = Cardinality(ReversalsOf(r))
                          /\ Cardinality(ReleasesOf(r)) <= 1
    BY <1>1 DEF Audited, ReleasesMatch
  <2>2. \A a \in Accounts : balance[a].used >= 0
    BY <1>1, UsedNonNegative
  <2>3. \A r \in Stored : request[r].reverses # None =>
           /\ request[r].status = "CANCELLED" /\ request[r].approver = None
           /\ audit[r] = <<>>
    BY <1>1 DEF Audited, TrailFits
  <2>4. \A h \in Handlers : call[h].seen # None => call[h].seen.reverses = None
    BY <1>1 DEF Audited, Faithful
  <2>5. QED
    BY <2>1, <2>2, <2>3, <2>4 DEF ReleasedOnce
<1>2. QED
  BY <1>1, AuditedInit, AuditedStep, PTL DEF Spec
-----------------------------------------------------------------------------
(* The refinement.  When calls on one leave request do not overlap, what a *)
(* call read before its transaction is still the committed row when it     *)
(* commits, and what it then publishes is one step of LeaveLedger.         *)
(* What a call has written, in terms of the row and the balance it read.   *)
Staged(c) ==
  /\ c.op \in {"submit", "approve", "reject"}
       \/ Cancels(c, "DRAFT") \/ Cancels(c, "SUBMITTED") => c.target = c.id
  /\ c.op = "submit" =>
       /\ c.out = [c.seen EXCEPT !.status = "SUBMITTED"]
       /\ c.booked = Moves(c, 0, 1)
  /\ c.op = "approve" =>
       /\ c.out = [c.seen EXCEPT !.status = "APPROVED", !.approver = c.actor]
       /\ c.booked = Moves(c, 1, -1)
  /\ c.op = "reject" =>
       /\ c.out = [c.seen EXCEPT !.status = "REJECTED", !.approver = c.actor]
       /\ c.booked = Moves(c, 0, -1)
  /\ Cancels(c, "DRAFT") \/ Cancels(c, "SUBMITTED") =>
       c.out = [c.seen EXCEPT !.status = "CANCELLED", !.cancelledBy = c.actor]
  /\ Cancels(c, "SUBMITTED") => c.booked = Moves(c, 0, -1)
  /\ Cancels(c, "APPROVED") =>
       /\ c.out = ReversalOf(c.id, c.seen, c.actor)
       /\ c.booked = Moves(c, -1, 0)

(* The guards a call has passed, applied to the row it read.               *)
Justified(c) ==
  c.pc # "idle" =>
    /\ c.op = "create" =>
         \E a \in Accounts, n \in DayCounts, d \in StartDays :
           c.out = Draft(a, n, d)
    /\ c.op = "submit" => c.seen.status = "DRAFT"
    /\ c.op \in {"approve", "reject"} =>
         c.seen.status = "SUBMITTED" /\ MayDecide(c.actor, c.seen)
    /\ c.op = "cancel" => MayCancel(c.actor, c.seen)
    /\ c.pc = "written" => Staged(c)

(* What a call has read is what is stored, and what it inserts is not      *)
(* stored yet.                                                             *)
Current(h, c) ==
  c.pc # "idle" =>
    /\ c.op # "create" => request[c.id] = c.seen
    /\ c.pc = "written" =>
         /\ rowLock[c.target] = h
         /\ Inserts(c) => request[c.target] = None
         /\ Cancels(c, "APPROVED") => ~Reversed(c.id)

(* Calls in service are about different requests.                          *)
Alone ==
  \A g, h \in Handlers : g # h /\ call[g].id = call[h].id => call[h].id = None

Serial ==
  /\ Safe
  /\ Alone
  /\ \A h \in Handlers : Justified(call[h]) /\ Current(h, call[h])

-----------------------------------------------------------------------------

(* A step of h that commits nothing leaves the calls of the others as they *)
(* are and their row locks with them.                                      *)
LEMMA OneCallSerial ==
  ASSUME Serial, Safe', NEW h \in Handlers, NEW c,
         call' = [call EXCEPT ![h] = c], request' = request,
         \A r \in Requests : rowLock'[r] = rowLock[r]
                               \/ rowLock[r] \in {None, h},
         Justified(c), Current(h, c)',
         c.id = None \/ \A g \in Handlers : g # h => call[g].id # c.id
  PROVE  Serial'
<1>1. call'[h] = c /\ \A g \in Handlers : g # h => call'[g] = call[g]
  BY DEF Serial, Safe, TypeOK
<1>2. Alone'
  BY <1>1 DEF Alone, Serial
<1>3. ASSUME NEW g \in Handlers PROVE Justified(call'[g])
  BY <1>1 DEF Serial
<1>4. ASSUME NEW g \in Handlers PROVE Current(g, call[g])'
  <2>1. CASE g = h
    BY <1>1, <2>1 DEF Current, Reversed, ReversedIn, StoredIn
  <2>2. CASE g # h
    <3>1. /\ call'[g] = call[g] /\ Current(g, call[g]) /\ Informed(call[g])
          /\ g # None
      BY <1>1, <2>2, ServiceAssumption DEF Serial, Safe
    <3>2. call[g].pc = "written" => rowLock'[call[g].target] = g
      BY <2>2, <3>1 DEF Current, Informed
    <3>3. QED
      BY <3>1, <3>2 DEF Current, Reversed, ReversedIn, StoredIn
  <2>3. QED
    BY <2>1, <2>2
<1>5. \A g \in Handlers : Justified(call[g])'
  BY <1>3 DEF Justified, Staged, Cancels, Moves
<1>6. QED
  BY <1>2, <1>4, <1>5 DEF Serial

LEMMA ReleaseSerial ==
  ASSUME Serial, Safe', NEW h \in Handlers, Release(h), request' = request
  PROVE  Serial'
<1>1. /\ call' = [call EXCEPT ![h] = Idle]
      /\ \A r \in Requests : rowLock'[r] = rowLock[r] \/ rowLock[r] \in {None, h}
  BY DEF Release
<1>2. Justified(Idle) /\ Current(h, Idle)' /\ Idle.id = None
  BY DEF Justified, Current, Idle
<1>3. QED
  BY <1>1, <1>2, OneCallSerial

(* A call accepted on r has just read r, and nobody else is on r.          *)
LEMMA AcceptSerial ==
  ASSUME Serial, Safe', NEW h \in Handlers, NEW op \in Ops,
         NEW actor \in Employees, NEW r \in Requests, op # "create",
         \A g \in Handlers : call[g].id # r,
         op = "submit" => request[r].status = "DRAFT",
         op \in {"approve", "reject"} =>
           request[r].status = "SUBMITTED" /\ MayDecide(actor, request[r]),
         op = "cancel" => MayCancel(actor, request[r]),
         Accept(h, op, actor, r)
  PROVE  Serial'
<1>1. PICK c : c = [Idle EXCEPT !.pc = "checked", !.op = op, !.actor = actor,
                                !.id = r, !.seen = request[r]]
  OBVIOUS
<1>2. /\ call' = [call EXCEPT ![h] = c]
      /\ request' = request /\ rowLock' = rowLock
  BY <1>1 DEF Accept, db, locks
<1>3. /\ c.pc = "checked" /\ c.op = op /\ c.actor = actor /\ c.id = r
      /\ c.seen = request[r]
  BY <1>1 DEF Idle
<1>4. Justified(c) /\ Current(h, c)'
  BY <1>2, <1>3 DEF Justified, Current
<1>5. QED
  BY <1>2, <1>3, <1>4, OneCallSerial

LEMMA ReceiveSerial ==
  ASSUME SerialRequests, Serial, Safe', NEW h \in Handlers, Receive(h)
  PROVE  Serial'
<1>1. ASSUME NEW actor \in Employees, NEW a \in Accounts, NEW n \in DayCounts,
             NEW d \in StartDays, CheckCreate(h, actor, a, n, d)
      PROVE  Serial'
  <2> DEFINE c == [Idle EXCEPT !.pc = "checked", !.op = "create",
                               !.actor = actor, !.out = Draft(a, n, d)]
  <2>1. /\ call' = [call EXCEPT ![h] = c]
        /\ request' = request /\ rowLock' = rowLock
    BY <1>1 DEF CheckCreate, db, locks
  <2>2. /\ c.pc = "checked" /\ c.op = "create" /\ c.id = None
        /\ c.out = Draft(a, n, d)
    BY DEF Idle
  <2> HIDE DEF c
  <2>3. Justified(c) /\ Current(h, c)'
    BY <2>2 DEF Justified, Current
  <2>4. QED
    BY <2>1, <2>2, <2>3, OneCallSerial
<1>2. ASSUME NEW actor \in Employees, NEW r \in Requests,
             CheckSubmit(h, actor, r)
      PROVE  Serial'
  BY <1>2, AcceptSerial DEF CheckSubmit, Uncontended, Ops
<1>3. ASSUME NEW actor \in Employees, NEW r \in Requests,
             NEW op \in {"approve", "reject"}, CheckDecide(h, op, actor, r)
      PROVE  Serial'
  BY <1>3, AcceptSerial DEF CheckDecide, Uncontended, Ops
<1>4. ASSUME NEW actor \in Employees, NEW r \in Requests,
             CheckCancel(h, actor, r)
      PROVE  Serial'
  BY <1>4, AcceptSerial DEF CheckCancel, Uncontended, Ops
<1>5. QED
  BY <1>1, <1>2, <1>3, <1>4 DEF Receive

(* A step inside the transaction that writes no row.                       *)
LEMMA ReadSerial ==
  ASSUME Serial, Safe', NEW h \in Handlers, NEW pc, NEW held,
         pc # "written", call[h].pc \in {"checked", "searched"},
         call' = [call EXCEPT ![h] =
                    [call[h] EXCEPT !.pc = pc, !.held = held]],
         request' = request, rowLock' = rowLock
  PROVE  Serial'
<1>1. call[h] \in Call /\ Justified(call[h]) /\ Current(h, call[h])
  BY DEF Serial, Safe, TypeOK
<1>2. PICK c : c = [call[h] EXCEPT !.pc = pc, !.held = held]
  OBVIOUS
<1>3. /\ c.pc = pc /\ c.op = call[h].op /\ c.actor = call[h].actor
      /\ c.id = call[h].id /\ c.seen = call[h].seen /\ c.out = call[h].out
  BY <1>1, <1>2 DEF Call
<1>4. Justified(c)
  BY <1>1, <1>3 DEF Justified
<1>5. Current(h, c)'
  BY <1>1, <1>3 DEF Current
<1>6. c.id = None \/ \A g \in Handlers : g # h => call[g].id # c.id
  BY <1>3 DEF Serial, Alone
<1>7. QED
  BY <1>2, <1>4, <1>5, <1>6, OneCallSerial

(* A staged write, of the row the call read or of a row that is not stored. *)
LEMMA StageSerial ==
  ASSUME Serial, Safe', NEW h \in Handlers, NEW r \in Requests, NEW row,
         NEW booked, Stage(h, r, row, booked),
         call[h].pc \in {"checked", "locked"},
         call[h].op = "create" => row = call[h].out,
         NEW c, c = [call[h] EXCEPT !.pc = "written", !.target = r,
                                    !.out = row, !.booked = booked],
         Staged(c),
         Inserts(c) => request[r] = None,
         Cancels(c, "APPROVED") => ~Reversed(c.id)
  PROVE  Serial'
<1>1. call[h] \in Call /\ Justified(call[h]) /\ Current(h, call[h])
  BY DEF Serial, Safe, TypeOK
<1>2. /\ c.pc = "written" /\ c.op = call[h].op /\ c.actor = call[h].actor
      /\ c.id = call[h].id /\ c.seen = call[h].seen
      /\ c.out = row /\ c.target = r
  BY <1>1 DEF Call
<1>3. /\ call' = [call EXCEPT ![h] = c] /\ request' = request
      /\ rowLock[r] = None
      /\ rowLock' = [rowLock EXCEPT ![r] = h]
  BY DEF Stage, db, Serial, Safe, TypeOK
<1>4. \A s \in Requests : rowLock'[s] = rowLock[s] \/ rowLock[s] \in {None, h}
  BY <1>3
<1>5. Justified(c)
  BY <1>1, <1>2 DEF Justified
<1>6. Current(h, c)'
  <2>1. rowLock'[r] = h
    BY <1>3 DEF Serial, Safe, TypeOK
  <2>2. Reversed(c.id)' <=> Reversed(c.id)
    BY <1>3 DEF Reversed, ReversedIn, StoredIn
  <2>3. Inserts(c)' <=> Inserts(c)
    BY DEF Inserts, Cancels
  <2>4. Cancels(c, "APPROVED")' <=> Cancels(c, "APPROVED")
    BY DEF Cancels
  <2>5. QED
    BY <1>1, <1>2, <1>3, <2>1, <2>2, <2>3, <2>4 DEF Current
<1>7. c.id = None \/ \A g \in Handlers : g # h => call[g].id # c.id
  BY <1>2 DEF Serial, Alone
<1>8. QED
  BY <1>3, <1>4, <1>5, <1>6, <1>7, OneCallSerial

(* What the guards say of the row read is what they say of the stored row. *)
LEMMA StoredAsSeen ==
  ASSUME Serial, NEW h \in Handlers, call[h].pc # "idle",
         call[h].op # "create"
  PROVE  /\ call[h].id \in Requests
         /\ request[call[h].id] = call[h].seen
         /\ call[h].seen \in Row
BY DEF Serial, Safe, Informed, Current

LEMMA UpdateSerial ==
  ASSUME Serial, Safe', NEW h \in Handlers,
         \/ WriteSubmit(h) \/ WriteApprove(h) \/ WriteReject(h)
         \/ WriteCancelSubmitted(h) \/ WriteCancelDraft(h)
  PROVE  Serial'
<1>1. /\ call[h] \in Call /\ call[h].pc \in {"checked", "locked"}
      /\ call[h].op # "create" /\ ~Cancels(call[h], "APPROVED")
  BY DEF Serial, Safe, TypeOK, WriteSubmit, WriteApprove, WriteReject,
         WriteCancelSubmitted, WriteCancelDraft, Cancels
<1>2. /\ call[h].id \in Requests
      /\ request[call[h].id] = call[h].seen
  BY <1>1, StoredAsSeen
<1>3. ASSUME NEW row, NEW booked, Stage(h, call[h].id, row, booked),
             NEW c, c = [call[h] EXCEPT !.pc = "written", !.target = call[h].id,
                                        !.out = row, !.booked = booked],
             Staged(c)
      PROVE  Serial'
  <2>1. c.op = call[h].op /\ c.seen = call[h].seen
    BY <1>1, <1>3 DEF Call
  <2>2. ~Inserts(c) /\ ~Cancels(c, "APPROVED")
    BY <1>1, <2>1 DEF Inserts, Cancels
  <2>3. QED
    BY <1>1, <1>2, <1>3, <2>2, StageSerial
<1>4. CASE WriteSubmit(h)
  <2>1. PICK row : row = [request[call[h].id] EXCEPT !.status = "SUBMITTED"]
    OBVIOUS
  <2>2. PICK booked : booked = Moves(call[h], 0, 1)
    OBVIOUS
  <2>3. Stage(h, call[h].id, row, booked) /\ call[h].op = "submit"
    BY <1>4, <2>1, <2>2 DEF WriteSubmit
  <2>4. PICK c : c = [call[h] EXCEPT !.pc = "written", !.target = call[h].id,
                                     !.out = row, !.booked = booked]
    OBVIOUS
  <2>5. /\ c.op = call[h].op /\ c.actor = call[h].actor
        /\ c.id = call[h].id /\ c.seen = call[h].seen
        /\ c.held = call[h].held /\ c.target = call[h].id
        /\ c.out = row /\ c.booked = booked
    BY <1>1, <2>4 DEF Call
  <2>6. Staged(c)
    BY <1>2, <2>1, <2>2, <2>3, <2>5 DEF Staged, Moves, Cancels
  <2>7. QED
    BY <1>3, <2>3, <2>4, <2>6
<1>5. CASE WriteApprove(h)
  <2>1. PICK row : row = [request[call[h].id] EXCEPT !.status = "APPROVED",
                                                    !.approver = call[h].actor]
    OBVIOUS
  <2>2. PICK booked : booked = Moves(call[h], 1, -1)
    OBVIOUS
  <2>3. Stage(h, call[h].id, row, booked) /\ call[h].op = "approve"
    BY <1>5, <2>1, <2>2 DEF WriteApprove
  <2>4. PICK c : c = [call[h] EXCEPT !.pc = "written", !.target = call[h].id,
                                     !.out = row, !.booked = booked]
    OBVIOUS
  <2>5. /\ c.op = call[h].op /\ c.actor = call[h].actor
        /\ c.id = call[h].id /\ c.seen = call[h].seen
        /\ c.held = call[h].held /\ c.target = call[h].id
        /\ c.out = row /\ c.booked = booked
    BY <1>1, <2>4 DEF Call
  <2>6. Staged(c)
    BY <1>2, <2>1, <2>2, <2>3, <2>5 DEF Staged, Moves, Cancels
  <2>7. QED
    BY <1>3, <2>3, <2>4, <2>6
<1>6. CASE WriteReject(h)
  <2>1. PICK row : row = [request[call[h].id] EXCEPT !.status = "REJECTED",
                                                    !.approver = call[h].actor]
    OBVIOUS
  <2>2. PICK booked : booked = Moves(call[h], 0, -1)
    OBVIOUS
  <2>3. Stage(h, call[h].id, row, booked) /\ call[h].op = "reject"
    BY <1>6, <2>1, <2>2 DEF WriteReject
  <2>4. PICK c : c = [call[h] EXCEPT !.pc = "written", !.target = call[h].id,
                                     !.out = row, !.booked = booked]
    OBVIOUS
  <2>5. /\ c.op = call[h].op /\ c.actor = call[h].actor
        /\ c.id = call[h].id /\ c.seen = call[h].seen
        /\ c.held = call[h].held /\ c.target = call[h].id
        /\ c.out = row /\ c.booked = booked
    BY <1>1, <2>4 DEF Call
  <2>6. Staged(c)
    BY <1>2, <2>1, <2>2, <2>3, <2>5 DEF Staged, Moves, Cancels
  <2>7. QED
    BY <1>3, <2>3, <2>4, <2>6
<1>7. CASE WriteCancelSubmitted(h)
  <2>1. PICK row : row = Cancelled(call[h])
    OBVIOUS
  <2>2. PICK booked : booked = Moves(call[h], 0, -1)
    OBVIOUS
  <2>3. Stage(h, call[h].id, row, booked) /\ Cancels(call[h], "SUBMITTED")
    BY <1>7, <2>1, <2>2 DEF WriteCancelSubmitted
  <2>4. PICK c : c = [call[h] EXCEPT !.pc = "written", !.target = call[h].id,
                                     !.out = row, !.booked = booked]
    OBVIOUS
  <2>5. /\ c.op = call[h].op /\ c.actor = call[h].actor
        /\ c.id = call[h].id /\ c.seen = call[h].seen
        /\ c.held = call[h].held /\ c.target = call[h].id
        /\ c.out = row /\ c.booked = booked
    BY <1>1, <2>4 DEF Call
  <2>6. Staged(c)
    BY <1>2, <2>1, <2>2, <2>3, <2>5 DEF Staged, Moves, Cancels, Cancelled
  <2>7. QED
    BY <1>3, <2>3, <2>4, <2>6
<1>8. CASE WriteCancelDraft(h)
  <2>1. PICK row : row = Cancelled(call[h])
    OBVIOUS
  <2>2. PICK booked : booked = call[h].booked
    OBVIOUS
  <2>3. Stage(h, call[h].id, row, booked) /\ Cancels(call[h], "DRAFT")
    BY <1>8, <2>1, <2>2 DEF WriteCancelDraft
  <2>4. PICK c : c = [call[h] EXCEPT !.pc = "written", !.target = call[h].id,
                                     !.out = row, !.booked = booked]
    OBVIOUS
  <2>5. /\ c.op = call[h].op /\ c.actor = call[h].actor
        /\ c.id = call[h].id /\ c.seen = call[h].seen
        /\ c.held = call[h].held /\ c.target = call[h].id
        /\ c.out = row /\ c.booked = booked
    BY <1>1, <2>4 DEF Call
  <2>6. Staged(c)
    BY <1>2, <2>1, <2>2, <2>3, <2>5 DEF Staged, Moves, Cancels, Cancelled
  <2>7. QED
    BY <1>3, <2>3, <2>4, <2>6
<1>9. QED
  BY <1>4, <1>5, <1>6, <1>7, <1>8

(* A row no id of which is stored or staged is inserted.                   *)
LEMMA InsertSerial ==
  ASSUME Serial, Safe', NEW h \in Handlers, NEW r \in Requests,
         InsertDraft(h, r) \/ InsertReversal(h, r)
  PROVE  Serial'
<1>1. call[h] \in Call /\ request[r] = None
  BY DEF Serial, Safe, TypeOK, InsertDraft, InsertReversal, Fresh, Stored,
         StoredIn
<1>2. CASE InsertDraft(h, r)
  <2>1. PICK c : c = [call[h] EXCEPT !.pc = "written", !.target = r,
                       !.out = call[h].out, !.booked = call[h].booked]
    OBVIOUS
  <2>2. c.op = "create"
    BY <1>1, <1>2, <2>1 DEF InsertDraft, Call
  <2>3. Staged(c) /\ ~Cancels(c, "APPROVED")
    BY <2>2 DEF Staged, Cancels
  <2>4. QED
    BY <1>1, <1>2, <2>1, <2>3, StageSerial DEF InsertDraft
<1>3. CASE InsertReversal(h, r)
  <2>1. PICK c : c = [call[h] EXCEPT !.pc = "written", !.target = r,
                       !.out = ReversalOf(call[h].id, call[h].seen,
                                          call[h].actor),
                       !.booked = Moves(call[h], -1, 0)]
    OBVIOUS
  <2>2. /\ c.op = "cancel" /\ c.seen = call[h].seen /\ c.id = call[h].id
        /\ c.actor = call[h].actor /\ c.held = call[h].held
        /\ c.seen.status = "APPROVED"
        /\ c.out = ReversalOf(c.id, c.seen, c.actor)
        /\ c.booked = Moves(c, -1, 0)
    BY <1>1, <1>3, <2>1 DEF InsertReversal, Cancels, Call, Moves
  <2>3. Staged(c)
    BY <2>2 DEF Staged, Cancels
  <2>4. ~Reversed(c.id) /\ call[h].pc = "locked" /\ call[h].op = "cancel"
    BY <1>3, <2>2 DEF InsertReversal, Cancels
  <2>5. QED
    BY <1>1, <1>3, <2>1, <2>3, <2>4, StageSerial DEF InsertReversal
<1>4. QED
  BY <1>2, <1>3

(* A commit publishes a new row, or the row it has read in a new status.   *)
LEMMA Published ==
  ASSUME Serial, NEW h \in Handlers, Commit(h)
  PROVE  LET c == call[h] IN
         /\ c.target \in Requests /\ c.out \in Row /\ rowLock[c.target] = h
         /\ request' = [request EXCEPT ![c.target] = c.out]
         /\ Inserts(c) =>
              /\ request[c.target] = None
              /\ \/ c.out.reverses = None
                 \/ c.out.reverses = c.id /\ c.id \in Requests
         /\ ~Inserts(c) =>
              /\ c.target = c.id
              /\ request[c.target] = c.seen
              /\ c.out.reverses = c.seen.reverses
<1>1. /\ call[h].pc = "written" /\ Informed(call[h]) /\ Justified(call[h])
      /\ Current(h, call[h]) /\ Staged(call[h])
  BY DEF Commit, Serial, Safe, Justified
<1>2. /\ call[h].target \in Requests /\ call[h].out \in Row
      /\ rowLock[call[h].target] = h /\ call[h].op \in Ops
      /\ request' = [request EXCEPT ![call[h].target] = call[h].out]
  BY <1>1 DEF Informed, Current, Commit
<1>3. ASSUME Inserts(call[h])
      PROVE  /\ request[call[h].target] = None
             /\ \/ call[h].out.reverses = None
                \/ call[h].out.reverses = call[h].id /\ call[h].id \in Requests
  <2>1. request[call[h].target] = None
    BY <1>1, <1>3 DEF Current
  <2>2. CASE call[h].op = "create"
    <3>1. PICK a \in Accounts, n \in DayCounts, d \in StartDays :
            call[h].out = Draft(a, n, d)
      BY <1>1, <2>2 DEF Justified
    <3>2. Draft(a, n, d).reverses = None
      BY DEF Draft
    <3>3. QED
      BY <2>1, <3>1, <3>2
  <2>3. CASE Cancels(call[h], "APPROVED")
    <3>1. call[h].id \in Requests
      BY <1>1, <2>3 DEF Informed, Cancels
    <3>2. call[h].out = ReversalOf(call[h].id, call[h].seen, call[h].actor)
      BY <1>1, <2>3 DEF Staged
    <3>3. QED
      BY <2>1, <3>1, <3>2 DEF ReversalOf, Draft
  <2>4. QED
    BY <1>3, <2>2, <2>3 DEF Inserts
<1>4. ASSUME ~Inserts(call[h])
      PROVE  /\ call[h].target = call[h].id
             /\ request[call[h].target] = call[h].seen
             /\ call[h].out.reverses = call[h].seen.reverses
  <2>1. /\ call[h].op # "create" /\ request[call[h].id] = call[h].seen
        /\ call[h].seen \in Row
    BY <1>1, <1>4 DEF Inserts, Current, Informed
  <2>2. CASE call[h].op \in {"submit", "approve", "reject"}
    BY <1>1, <2>1, <2>2 DEF Staged, Row
  <2>3. CASE call[h].op = "cancel"
    <3>1. Cancels(call[h], "DRAFT") \/ Cancels(call[h], "SUBMITTED")
      BY <1>1, <1>4, <2>1, <2>3 DEF Justified, MayCancel, Inserts, Cancels
    <3>2. QED
      BY <1>1, <2>1, <3>1 DEF Staged, Row
  <2>4. QED
    BY <1>2, <2>1, <2>2, <2>3 DEF Ops
<1>5. QED
  BY <1>2, <1>3, <1>4

LEMMA CommitSerial ==
  ASSUME Serial, Safe', NEW h \in Handlers, Commit(h)
  PROVE  Serial'
<1> DEFINE t == call[h].target
<1>1. /\ TypeOK /\ Alone /\ call[h].id \in Requests \cup {None}
      /\ \A g \in Handlers : Justified(call[g]) /\ Current(g, call[g])
                               /\ Informed(call[g])
  BY DEF Serial, Safe, TypeOK, Call
<1>2. /\ call'[h] = Idle
      /\ \A g \in Handlers : g # h => call'[g] = call[g]
      /\ \A r \in Requests : rowLock[r] # h => rowLock'[r] = rowLock[r]
  BY <1>1 DEF Commit, Release, TypeOK
<1>3. Alone'
  BY <1>1, <1>2 DEF Alone, Idle
<1>4. ASSUME NEW g \in Handlers PROVE Justified(call'[g])
  <2>1. Justified(Idle)
    BY DEF Justified, Idle
  <2>2. QED
    BY <1>1, <1>2, <2>1
<1>5. ASSUME NEW g \in Handlers PROVE Current(g, call[g])'
  <2>1. CASE g = h
    BY <1>2, <2>1 DEF Current, Idle
  <2>2. CASE g # h
    <3>1. call'[g] = call[g] /\ Current(g, call[g]) /\ Informed(call[g])
      BY <1>1, <1>2, <2>2
    <3>2. SUFFICES ASSUME call[g].pc # "idle"
                   PROVE  Current(g, call[g])'
      BY <3>1 DEF Current
    <3>3. ASSUME call[g].op # "create"
          PROVE  /\ call[g].id \in Requests /\ call[g].id # None
                 /\ call[g].id # t /\ call[g].id # call[h].id
                 /\ request'[call[g].id] = call[g].seen
      <4>1. /\ call[g].id \in Requests /\ request[call[g].id] # None
            /\ request[call[g].id] = call[g].seen /\ call[g].id # None
        BY <3>1, <3>2, <3>3, RecordsAssumption DEF Informed, Current
      <4>2. call[g].id # call[h].id
        BY <1>1, <2>2, <4>1 DEF Alone
      <4>3. call[g].id # t
        BY <4>1, <4>2, Published
      <4>4. QED
        BY <1>1, <4>1, <4>2, <4>3, Published DEF TypeOK
    <3>4. ASSUME call[g].pc = "written"
          PROVE  /\ rowLock'[call[g].target] = g
                 /\ Inserts(call[g]) => request'[call[g].target] = None
      <4>1. /\ call[g].target \in Requests /\ rowLock[call[g].target] = g
            /\ Inserts(call[g]) => request[call[g].target] = None
        BY <3>1, <3>2, <3>4 DEF Informed, Current
      <4>2. call[g].target # t
        BY <2>2, <4>1, Published
      <4>3. QED
        BY <1>1, <1>2, <2>2, <4>1, <4>2, Published DEF TypeOK
    <3>5. ASSUME call[g].pc = "written", Cancels(call[g], "APPROVED")
          PROVE  ~Reversed(call[g].id)'
      <4>1. /\ call[g].id \in Requests /\ call[g].id # None
            /\ call[g].id # call[h].id /\ ~Reversed(call[g].id)
        BY <3>1, <3>2, <3>3, <3>5 DEF Cancels, Current
      <4>2. ASSUME NEW s \in Requests, request'[s] # None,
                   request'[s].reverses = call[g].id
            PROVE  FALSE
        <5>1. CASE s # t
          <6>1. request'[s] = request[s]
            BY <1>1, <5>1, Published DEF TypeOK
          <6>2. QED
            BY <4>1, <4>2, <6>1 DEF Reversed, ReversedIn, StoredIn
        <5>2. CASE s = t
          <6>1. call[h].out.reverses = call[g].id
            BY <1>1, <4>2, <5>2, Published DEF TypeOK
          <6>2. CASE Inserts(call[h])
            BY <4>1, <6>1, <6>2, Published
          <6>3. CASE ~Inserts(call[h])
            <7>1. /\ request[t].reverses = call[g].id /\ t \in Requests
                  /\ request[t] # None
              <8>1. /\ request[t] = call[h].seen /\ t \in Requests
                    /\ call[h].seen.reverses = call[g].id
                BY <6>1, <6>3, Published
              <8>2. call[h].seen # None
                BY <1>1, <6>3, <8>1, RecordsAssumption
                   DEF Commit, Informed, Inserts
              <8>3. QED
                BY <8>1, <8>2
            <7>2. QED
              BY <4>1, <7>1 DEF Reversed, ReversedIn, StoredIn
          <6>4. QED
            BY <6>2, <6>3
        <5>3. QED
          BY <5>1, <5>2
      <4>3. QED
        BY <3>1, <4>2 DEF Reversed, ReversedIn, StoredIn
    <3>6. QED
      BY <3>1, <3>3, <3>4, <3>5 DEF Current, Inserts, Cancels
  <2>3. QED
    BY <2>1, <2>2
<1>6. \A g \in Handlers : Justified(call[g])'
  BY <1>4 DEF Justified, Staged, Cancels, Moves
<1>7. QED
  BY <1>3, <1>5, <1>6 DEF Serial

LEMMA SerialInit == Init => Serial
<1> SUFFICES ASSUME Init PROVE Serial
  OBVIOUS
<1>1. \A h \in Handlers : call[h] = Idle
  BY DEF Init
<1>2. Alone
  BY <1>1 DEF Alone, Idle
<1>3. \A h \in Handlers : Justified(call[h]) /\ Current(h, call[h])
  BY <1>1 DEF Justified, Current, Idle
<1>4. QED
  BY <1>2, <1>3, SafeInit DEF Serial

LEMMA SerialStep ==
  ASSUME SerialRequests, Serial, [Next]_vars
  PROVE  Serial'
<1>1. Safe'
  BY SafeStep DEF Serial
<1>2. ASSUME NEW h \in Handlers, Receive(h) PROVE Serial'
  BY <1>1, <1>2, ReceiveSerial
<1>3. ASSUME NEW h \in Handlers, FindReversal(h) PROVE Serial'
  <2>1. PICK held : held = call[h].held
    OBVIOUS
  <2>2. /\ call' = [call EXCEPT ![h] = [call[h] EXCEPT !.pc = "searched",
                                                       !.held = held]]
        /\ call[h].pc = "checked" /\ request' = request /\ rowLock' = rowLock
    BY <1>3, <2>1 DEF FindReversal, db, locks, Serial, Safe, TypeOK, Call
  <2>3. QED
    BY <1>1, <2>2, ReadSerial
<1>4. ASSUME NEW h \in Handlers, LockBalance(h) PROVE Serial'
  <2>1. PICK held : held = balance[call[h].seen.account]
    OBVIOUS
  <2>2. /\ call' = [call EXCEPT ![h] = [call[h] EXCEPT !.pc = "locked",
                                                       !.held = held]]
        /\ call[h].pc \in {"checked", "searched"}
        /\ request' = request /\ rowLock' = rowLock
    BY <1>4, <2>1 DEF LockBalance, WantsBalance, db, Serial, Safe, TypeOK
  <2>3. QED
    BY <1>1, <2>2, ReadSerial
<1>5. ASSUME NEW h \in Handlers, Commit(h) PROVE Serial'
  BY <1>1, <1>5, CommitSerial
<1>6. ASSUME NEW h \in Handlers, Refuse(h) \/ Abort(h) PROVE Serial'
  BY <1>1, <1>6, ReleaseSerial DEF Refuse, Abort, db
<1>7. CASE NextDay \/ UNCHANGED vars
  <2>1. call' = call /\ request' = request /\ rowLock' = rowLock
    BY <1>7 DEF NextDay, vars, db, locks
  <2>2. /\ Alone' /\ \A h \in Handlers : Current(h, call[h])'
    BY <2>1 DEF Serial, Alone, Current, Inserts, Cancels, Reversed,
                ReversedIn, StoredIn
  <2>3. \A h \in Handlers : Justified(call'[h])
    BY <2>1 DEF Serial
  <2>4. \A h \in Handlers : Justified(call[h])'
    BY <2>3 DEF Justified, Staged, Cancels, Moves
  <2>5. QED
    BY <1>1, <2>2, <2>4 DEF Serial
<1>8. QED
  BY <1>1, <1>2, <1>3, <1>4, <1>5, <1>6, <1>7, UpdateSerial, InsertSerial
     DEF Next, Proceed

-----------------------------------------------------------------------------

(* What is published is one step of the ledger, on the row and the balance *)
(* as they stand.                                                          *)
LEMMA CommitRefines ==
  ASSUME Serial, NEW h \in Handlers, Commit(h)
  PROVE  Ledger!Next
<1> DEFINE c == call[h]
           b == c.seen.account
<1>1. /\ c.pc = "written" /\ Informed(c) /\ Justified(c) /\ Staged(c)
      /\ Current(h, c) /\ Guarded(h, c)
  BY DEF Commit, Serial, Safe, Justified
<1>2. /\ request' = [request EXCEPT ![c.target] = c.out]
      /\ balance' = IF TouchesBalance(c)
                    THEN [balance EXCEPT ![b] = c.booked] ELSE balance
  BY DEF Commit
<1>3. c.actor \in Employees /\ c.target \in Requests /\ c.op \in Ops
  BY <1>1 DEF Informed
<1>4. ASSUME c.op # "create"
      PROVE  /\ c.id \in Requests /\ request[c.id] = c.seen
             /\ request[c.id] # None /\ c.seen \in Row
  BY <1>1, <1>4 DEF Informed, Current
<1>5. ASSUME NEW u, NEW p, c.op # "create", TouchesBalance(c),
             c.booked = Moves(c, u, p)
      PROVE  Ledger!Book(c.id, u, p)
  <2>1. c.held = balance[b]
    BY <1>1, <1>5 DEF Guarded
  <2>2. QED
    BY <1>2, <1>4, <1>5, <2>1 DEF Ledger!Book, Moves
<1> HIDE DEF c, b
<1>6. CASE c.op = "create"
  <2>1. PICK a \in Accounts, n \in DayCounts, d \in StartDays :
          c.out = Draft(a, n, d)
    BY <1>1, <1>6 DEF Justified
  <2>2. request[c.target] = None /\ balance' = balance
    BY <1>1, <1>2, <1>6 DEF Current, Inserts, TouchesBalance, Cancels
  <2>3. Ledger!Create(c.target, a, n, d)
    BY <1>2, <2>1, <2>2 DEF Ledger!Create, Draft, Ledger!Draft
  <2>4. QED
    BY <1>3, <2>3 DEF Ledger!Next
<1>7. CASE c.op = "submit"
  <2>1. Ledger!Book(c.id, 0, 1)
    BY <1>1, <1>5, <1>7 DEF Staged, TouchesBalance
  <2>2. Ledger!Submit(c.id)
    BY <1>1, <1>2, <1>4, <1>7, <2>1
       DEF Ledger!Submit, Ledger!Is, Staged, Justified
  <2>3. QED
    BY <1>4, <1>7, <2>2 DEF Ledger!Next
<1>8. CASE c.op = "approve"
  <2>1. Ledger!Book(c.id, 1, -1)
    BY <1>1, <1>5, <1>8 DEF Staged, TouchesBalance
  <2>2. MayDecide(c.actor, request[c.id]) /\ c.seen.status = "SUBMITTED"
    BY <1>1, <1>4, <1>8 DEF Justified
  <2>3. Ledger!Approve(c.id, c.actor)
    BY <1>1, <1>2, <1>4, <1>8, <2>1, <2>2
       DEF Ledger!Approve, Ledger!Is, Staged, MayDecide, Ledger!MayDecide,
           Oversees, Ledger!Oversees, Owner, Ledger!Owner
  <2>4. QED
    BY <1>3, <1>4, <1>8, <2>3 DEF Ledger!Next
<1>9. CASE c.op = "reject"
  <2>1. Ledger!Book(c.id, 0, -1)
    BY <1>1, <1>5, <1>9 DEF Staged, TouchesBalance
  <2>2. MayDecide(c.actor, request[c.id]) /\ c.seen.status = "SUBMITTED"
    BY <1>1, <1>4, <1>9 DEF Justified
  <2>3. Ledger!Reject(c.id, c.actor)
    BY <1>1, <1>2, <1>4, <1>9, <2>1, <2>2
       DEF Ledger!Reject, Ledger!Is, Staged, MayDecide, Ledger!MayDecide,
           Oversees, Ledger!Oversees, Owner, Ledger!Owner
  <2>4. QED
    BY <1>3, <1>4, <1>9, <2>3 DEF Ledger!Next
<1>10. CASE c.op = "cancel"
  <2>1. c.op # "create" /\ Ledger!MayCancel(c.actor, request[c.id])
    BY <1>1, <1>4, <1>10
       DEF Justified, MayCancel, Ledger!MayCancel, Oversees, Ledger!Oversees,
           Owner, Ledger!Owner
  <2>2. CASE Cancels(c, "DRAFT")
    <3>1. balance' = balance
      BY <1>2, <2>2 DEF Cancels, TouchesBalance
    <3>2. Ledger!CancelDraft(c.id, c.actor)
      BY <1>1, <1>2, <1>4, <2>1, <2>2, <3>1
         DEF Ledger!CancelDraft, Ledger!Is, Staged, Cancels
    <3>3. QED
      BY <1>3, <1>4, <2>1, <3>2 DEF Ledger!Next
  <2>3. CASE Cancels(c, "SUBMITTED")
    <3>1. Ledger!Book(c.id, 0, -1)
      BY <1>1, <1>5, <2>1, <2>3 DEF Staged, TouchesBalance
    <3>2. Ledger!CancelSubmitted(c.id, c.actor)
      BY <1>1, <1>2, <1>4, <2>1, <2>3, <3>1
         DEF Ledger!CancelSubmitted, Ledger!Is, Staged, Cancels
    <3>3. QED
      BY <1>3, <1>4, <2>1, <3>2 DEF Ledger!Next
  <2>4. CASE Cancels(c, "APPROVED")
    <3>1. Ledger!Book(c.id, -1, 0)
      BY <1>1, <1>5, <2>1, <2>4 DEF Staged, TouchesBalance
    <3>2. /\ request[c.target] = None /\ ~Reversed(c.id)
          /\ c.out = ReversalOf(c.id, request[c.id], c.actor)
      BY <1>1, <1>4, <2>1, <2>4 DEF Current, Inserts, Staged
    <3>3. Ledger!Reverse(c.id, c.target, c.actor)
      BY <1>2, <1>4, <2>1, <2>4, <3>1, <3>2
         DEF Ledger!Reverse, Ledger!Is, Cancels, Reversed, ReversedIn,
             Ledger!ReversedIn, StoredIn, Ledger!StoredIn, ReversalOf,
             Ledger!ReversalOf, Draft, Ledger!Draft
    <3>4. QED
      BY <1>3, <1>4, <2>1, <3>3 DEF Ledger!Next
  <2>5. QED
    BY <1>1, <1>10, <2>2, <2>3, <2>4 DEF Justified, MayCancel, Cancels
<1>11. QED
  BY <1>3, <1>6, <1>7, <1>8, <1>9, <1>10 DEF Ops

LEMMA StepRefines ==
  ASSUME Serial, [Next]_vars
  PROVE  [Ledger!Next]_Ledger!vars
<1>1. ASSUME NEW h \in Handlers, Commit(h) PROVE Ledger!Next
  BY <1>1, CommitRefines
<1>2. ASSUME NEW h \in Handlers, Receive(h)
      PROVE  UNCHANGED <<request, balance>>
  BY <1>2 DEF Receive, CheckCreate, CheckSubmit, CheckDecide, CheckCancel,
              Accept, db
<1>3. ASSUME NEW h \in Handlers, FindReversal(h) \/ LockBalance(h)
      PROVE  UNCHANGED <<request, balance>>
  BY <1>3 DEF FindReversal, LockBalance, db
<1>4. ASSUME NEW h \in Handlers,
             \/ WriteSubmit(h) \/ WriteApprove(h) \/ WriteReject(h)
             \/ WriteCancelSubmitted(h) \/ WriteCancelDraft(h)
             \/ \E r \in Requests : InsertDraft(h, r) \/ InsertReversal(h, r)
      PROVE  UNCHANGED <<request, balance>>
  <2>1. ASSUME NEW r, NEW row, NEW booked, Stage(h, r, row, booked)
        PROVE  UNCHANGED <<request, balance>>
    BY <2>1 DEF Stage, db
  <2>2. QED
    BY <1>4, <2>1 DEF WriteSubmit, WriteApprove, WriteReject,
                      WriteCancelSubmitted, WriteCancelDraft, InsertDraft,
                      InsertReversal
<1>5. ASSUME NEW h \in Handlers, Refuse(h) \/ Abort(h)
      PROVE  UNCHANGED <<request, balance>>
  BY <1>5 DEF Refuse, Abort, db
<1>6. CASE NextDay \/ UNCHANGED vars
  BY <1>6 DEF NextDay, vars, db, Ledger!vars
<1>7. QED
  BY <1>1, <1>2, <1>3, <1>4, <1>5, <1>6 DEF Next, Proceed, Ledger!vars

(* When no two calls on one leave request overlap, the service implements  *)
(* the ledger: every commit is one of its operations, applied to the row   *)
(* and the balance as they stand and not as they were when the call read   *)
(* them before its transaction, for any number of calls on other requests  *)
(* of the same balance row at that time.                                   *)
THEOREM Refines == SerialRequests => (Spec => ImplementsLedger)
<1> SUFFICES ASSUME SerialRequests PROVE Spec => ImplementsLedger
  OBVIOUS
<1>1. Init => Ledger!Init
  BY DEF Init, Ledger!Init, ZeroBalance
<1>2. Serial /\ [Next]_vars => Serial'
  BY SerialStep
<1>3. Serial /\ [Next]_vars => [Ledger!Next]_Ledger!vars
  BY StepRefines
<1>4. QED
  BY <1>1, <1>2, <1>3, SerialInit, PTL DEF Spec, ImplementsLedger, Ledger!Spec

-----------------------------------------------------------------------------
(* The audit trail of a request as a chain.                                *)

(* Only an approval has a reversal, and it keeps its status.               *)
ReversedApproved ==
  \A r \in Stored : Reversed(r) => request[r].status = "APPROVED"

Chained ==
  /\ Serial
  /\ Audited
  /\ ReversedApproved
  /\ AuditChained

LEMMA ChainUnchanged ==
  ASSUME ReversedApproved, AuditChained, UNCHANGED db
  PROVE  ReversedApproved' /\ AuditChained'
<1>1. request' = request /\ audit' = audit
  BY DEF db
<1>2. Stored' = Stored /\ \A r : Reversed(r)' <=> Reversed(r)
  BY <1>1 DEF Stored, StoredIn, Reversed, ReversedIn
<1>3. QED
  BY <1>1, <1>2 DEF ReversedApproved, AuditChained

(* What a call read before its transaction is the row the last entry of    *)
(* the trail left, so the entry of its commit continues the trail.         *)
LEMMA CommitChained ==
  ASSUME Chained, Safe', NEW h \in Handlers, Commit(h)
  PROVE  ReversedApproved' /\ AuditChained'
<1>1. PICK u, e, n : /\ u = Subject(call[h]) /\ e = Recorded(call[h])
                     /\ n = Len(audit[u]) + 1
  OBVIOUS
<1>2. PICK t : t = call[h].target
  OBVIOUS
<1>3. Audited /\ Serial /\ TrailFits /\ ReversedApproved /\ AuditChained
  BY DEF Chained, Audited
<1>4. /\ u \in Stored' /\ u \in Requests /\ t \in Requests
      /\ Stored' = Stored \cup {t}
      /\ request'[t] = call[h].out
      /\ \A r \in Requests \ {t} : request'[r] = request[r]
      /\ call[h].pc = "written"
  BY <1>1, <1>2, <1>3, CommitFacts
<1>5. \A r \in Requests \ {u} : audit'[r] = audit[r]
  BY <1>1, <1>3, CommitTrails
<1>6. audit'[u] = Append(audit[u], e) /\ audit[u] \in Seq(Entry) /\ e \in Entry
  BY <1>1, <1>3, <1>4, CommitFacts DEF TypeOK
<1>7. /\ Len(audit'[u]) = n /\ n \in Nat /\ Len(audit[u]) \in Nat
      /\ n = Len(audit[u]) + 1
      /\ audit'[u][n] = e
      /\ \A i \in 1 .. Len(audit[u]) : audit'[u][i] = audit[u][i]
      /\ audit'[u] # <<>>
      /\ audit[u] # <<>> => Len(audit[u]) >= 1
  BY <1>1, <1>6
<1>8. \A r \in Stored : r \in Requests /\ request'[r].reverses = request[r].reverses
  BY <1>3, CommitKeepsLeave DEF SameLeave, Stored, StoredIn
<1>9. \A r : Reversed(r)' <=>
             Reversed(r) \/ (t \notin Stored /\ call[h].out.reverses = r)
  BY <1>4, <1>8 DEF Reversed, ReversedIn, Stored
<1>10. \A r \in Requests \ Stored : ~Reversed(r)
  BY <1>3, RecordsAssumption DEF Reversed, ReversedIn, Stored, TrailFits
<1>11. /\ e.after = call[h].out.status
       /\ e.before = IF call[h].op = "create" THEN None ELSE call[h].seen.status
  BY <1>1 DEF Recorded
<1>12. CASE call[h].op = "create"
  <2>1. /\ u = t /\ t \notin Stored
        /\ call[h].out.reverses = None /\ call[h].out.status = "DRAFT"
    BY <1>1, <1>2, <1>3, <1>4, <1>12, CommitFacts DEF Subject, Inserts, Faithful
  <2>2. audit[t] = <<>> /\ ~Reversed(t)
    BY <1>3, <1>4, <1>10, <2>1 DEF TrailFits, Stored, StoredIn
  <2>3. \A r \in Requests : Reversed(r)' <=> Reversed(r)
    BY <1>9, <2>1, RecordsAssumption
  <2>4. ReversedApproved'
    <3>1. \A r \in Stored : Reversed(r) => request'[r].status = "APPROVED"
      BY <1>3, <1>4, <1>8, <2>1 DEF ReversedApproved
    <3>2. QED
      BY <1>4, <1>8, <2>2, <2>3, <3>1 DEF ReversedApproved
  <2>5. ASSUME NEW r \in Stored', request'[r].reverses = None
        PROVE  LET s == audit'[r] IN
               /\ s # <<>> /\ s[1].before = None
               /\ \A i \in 2 .. Len(s) : s[i].before = s[i - 1].after
               /\ s[Len(s)].after = IF Reversed(r)' THEN "CANCELLED"
                                                    ELSE request'[r].status
    <3>1. CASE r = t
      <4>1. n = 1 /\ audit'[r] = <<e>>
        BY <1>1, <1>6, <2>1, <2>2, <3>1
      <4>2. e.before = None /\ e.after = request'[r].status
        BY <1>4, <1>11, <1>12, <3>1
      <4>3. ~Reversed(r)'
        BY <1>4, <2>2, <2>3, <3>1
      <4>4. QED
        BY <4>1, <4>2, <4>3
    <3>2. CASE r # t
      <4>1. /\ r \in Stored /\ r \in Requests /\ request'[r] = request[r]
            /\ audit'[r] = audit[r]
        BY <1>4, <1>5, <1>8, <2>1, <3>2
      <4>2. QED
        BY <1>3, <2>3, <2>5, <4>1 DEF AuditChained
    <3>3. QED
      BY <3>1, <3>2
  <2>6. AuditChained'
    BY <2>5 DEF AuditChained
  <2>7. QED
    BY <2>4, <2>6
<1>13. CASE call[h].op # "create"
  <2>1. /\ u = call[h].id /\ u \in Stored /\ request[u].reverses = None
        /\ request[u] = call[h].seen
    <3>1. u = call[h].id /\ u \in Stored /\ request[u].reverses = None
      BY <1>1, <1>3, <1>13, CommitFacts DEF SameLeave
    <3>2. request[u] = call[h].seen
      BY <1>3, <1>4, <1>13, <3>1 DEF Serial, Current
    <3>3. QED
      BY <3>1, <3>2
  <2>2. ~Reversed(u)
    <3>1. CASE Cancels(call[h], "APPROVED")
      BY <1>3, <2>1, <3>1, CommitFacts DEF Placed
    <3>2. CASE ~Cancels(call[h], "APPROVED")
      <4>1. call[h].seen.status # "APPROVED"
        BY <1>3, <1>13, <3>2, CommitFacts DEF Faithful, Informed, Ops, Cancels
      <4>2. QED
        BY <1>3, <2>1, <4>1 DEF ReversedApproved
    <3>3. QED
      BY <3>1, <3>2
  <2>3. /\ audit[u] # <<>> /\ audit[u][1].before = None
        /\ \A i \in 2 .. Len(audit[u]) : audit[u][i].before = audit[u][i - 1].after
        /\ audit[u][Len(audit[u])].after = e.before
    BY <1>3, <1>11, <1>13, <2>1, <2>2 DEF AuditChained
  <2>4. /\ audit'[u] # <<>> /\ audit'[u][1].before = None
        /\ \A i \in 2 .. Len(audit'[u]) : audit'[u][i].before = audit'[u][i - 1].after
        /\ audit'[u][Len(audit'[u])].after = e.after
    <3>1. Len(audit[u]) >= 1
      BY <1>7, <2>3
    <3>2. audit'[u][1].before = None
      BY <1>7, <2>3, <3>1
    <3>3. ASSUME NEW i \in 2 .. Len(audit'[u])
          PROVE  audit'[u][i].before = audit'[u][i - 1].after
      <4>1. CASE i = n
        <5>1. i - 1 = Len(audit[u]) /\ audit'[u][i - 1] = audit[u][Len(audit[u])]
          BY <1>7, <3>1, <4>1
        <5>2. QED
          BY <1>7, <2>3, <4>1, <5>1
      <4>2. CASE i # n
        <5>1. i \in 2 .. Len(audit[u]) /\ i - 1 \in 1 .. Len(audit[u])
          BY <1>7, <3>3, <4>2
        <5>2. /\ audit'[u][i] = audit[u][i]
              /\ audit'[u][i - 1] = audit[u][i - 1]
          BY <1>7, <5>1
        <5>3. QED
          BY <2>3, <5>1, <5>2
      <4>3. QED
        BY <4>1, <4>2
    <3>4. QED
      BY <1>7, <3>2, <3>3
  <2>5. CASE Cancels(call[h], "APPROVED")
    <3>1. t \notin Stored /\ t # u /\ call[h].out.reverses = u /\ e.after = "CANCELLED"
      <4>1. call[h].out = ReversalOf(call[h].id, call[h].seen, call[h].actor)
        BY <1>3, <2>5, CommitFacts DEF Outcome
      <4>2. t \notin Stored
        BY <1>2, <1>3, <2>5, CommitFacts DEF Inserts
      <4>3. QED
        BY <1>11, <2>1, <4>1, <4>2, ReversalRow
    <3>2. \A r : Reversed(r)' <=> Reversed(r) \/ r = u
      BY <1>9, <3>1
    <3>3. \A r \in Stored : request'[r] = request[r]
      BY <1>4, <1>8, <3>1
    <3>4. ReversedApproved'
      <4>1. request[u].status = "APPROVED"
        BY <2>1, <2>5 DEF Cancels
      <4>2. ~Reversed(t)'
        BY <1>4, <1>10, <3>1, <3>2
      <4>3. QED
        BY <1>3, <1>4, <3>2, <3>3, <4>1, <4>2 DEF ReversedApproved
    <3>5. ASSUME NEW r \in Stored', request'[r].reverses = None
          PROVE  LET s == audit'[r] IN
                 /\ s # <<>> /\ s[1].before = None
                 /\ \A i \in 2 .. Len(s) : s[i].before = s[i - 1].after
                 /\ s[Len(s)].after = IF Reversed(r)' THEN "CANCELLED"
                                                      ELSE request'[r].status
      <4>1. CASE r = u
        BY <2>4, <3>1, <3>2, <4>1
      <4>2. CASE r # u
        <5>1. r \in Stored /\ r \in Requests
          BY <1>4, <1>8, <2>1, <3>1, <3>5, RecordsAssumption
        <5>2. request'[r] = request[r] /\ audit'[r] = audit[r]
          BY <1>5, <3>3, <4>2, <5>1
        <5>3. QED
          BY <1>3, <3>2, <3>5, <4>2, <5>1, <5>2 DEF AuditChained
      <4>3. QED
        BY <4>1, <4>2
    <3>6. AuditChained'
      BY <3>5 DEF AuditChained
    <3>7. QED
      BY <3>4, <3>6
  <2>6. CASE ~Cancels(call[h], "APPROVED")
    <3>1. t = u
      BY <1>2, <1>3, <1>13, <2>1, <2>6, CommitFacts DEF Inserts
    <3>2. \A r : Reversed(r)' <=> Reversed(r)
      BY <1>9, <2>1, <3>1
    <3>3. ReversedApproved'
      BY <1>3, <1>4, <1>8, <2>2, <3>1, <3>2 DEF ReversedApproved
    <3>4. ASSUME NEW r \in Stored', request'[r].reverses = None
          PROVE  LET s == audit'[r] IN
                 /\ s # <<>> /\ s[1].before = None
                 /\ \A i \in 2 .. Len(s) : s[i].before = s[i - 1].after
                 /\ s[Len(s)].after = IF Reversed(r)' THEN "CANCELLED"
                                                      ELSE request'[r].status
      <4>1. CASE r = u
        BY <1>4, <1>11, <2>2, <2>4, <3>1, <3>2, <4>1
      <4>2. CASE r # u
        <5>1. r \in Stored /\ r \in Requests
          BY <1>4, <1>8, <2>1, <3>1, <4>2
        <5>2. request'[r] = request[r] /\ audit'[r] = audit[r]
          BY <1>4, <1>5, <3>1, <4>2, <5>1
        <5>3. QED
          BY <1>3, <3>2, <3>4, <4>2, <5>1, <5>2 DEF AuditChained
      <4>3. QED
        BY <4>1, <4>2
    <3>5. AuditChained'
      BY <3>4 DEF AuditChained
    <3>6. QED
      BY <3>3, <3>5
  <2>7. QED
    BY <2>5, <2>6
<1>14. QED
  BY <1>12, <1>13

LEMMA ChainedStep ==
  ASSUME SerialRequests, Chained, [Next]_vars
  PROVE  Chained'
<1>1. Serial' /\ Audited' /\ Safe'
  <2>1. Serial' /\ Audited'
    BY SerialStep, AuditedStep DEF Chained
  <2>2. QED
    BY <2>1 DEF Serial
<1>2. ReversedApproved' /\ AuditChained'
  <2>1. CASE \E h \in Handlers : Commit(h)
    BY <1>1, <2>1, CommitChained
  <2>2. CASE UNCHANGED db
    BY <2>2, ChainUnchanged DEF Chained
  <2>3. ASSUME NEW h \in Handlers, Receive(h) PROVE UNCHANGED db
    BY <2>3 DEF Receive, CheckCreate, CheckSubmit, CheckDecide, CheckCancel, Accept
  <2>4. ASSUME NEW h \in Handlers, Proceed(h), ~Commit(h) PROVE UNCHANGED db
    BY <2>4 DEF Proceed, FindReversal, LockBalance, WriteSubmit, WriteApprove,
                WriteReject, WriteCancelSubmitted, WriteCancelDraft,
                InsertDraft, InsertReversal, Stage, Refuse
  <2>5. ASSUME (\E h \in Handlers : Abort(h)) \/ NextDay \/ UNCHANGED vars
        PROVE  UNCHANGED db
    BY <2>5 DEF Abort, NextDay, vars
  <2>6. QED
    BY <2>1, <2>2, <2>3, <2>4, <2>5 DEF Next
<1>3. QED
  BY <1>1, <1>2 DEF Chained

(* When no two calls on one request overlap, the audit trail is the        *)
(* history of the row: beforeState of each entry is the afterState of the  *)
(* one before it, although the code takes it from a row read before the    *)
(* transaction (beforeState: request).                                     *)
THEOREM TrailChained == SerialRequests => (Spec => []AuditChained)
<1> SUFFICES ASSUME SerialRequests PROVE Spec => []AuditChained
  OBVIOUS
<1>1. Init => Chained
  <2>1. Init => Stored = {}
    BY DEF Init, Stored, StoredIn
  <2>2. QED
    BY <2>1, SerialInit, AuditedInit DEF Chained, ReversedApproved, AuditChained
<1>2. Chained /\ [Next]_vars => Chained'
  BY ChainedStep
<1>3. Chained => AuditChained
  BY DEF Chained
<1>4. QED
  BY <1>1, <1>2, <1>3, PTL DEF Spec

-----------------------------------------------------------------------------
(* What the ledger guarantees holds of the service that implements it: the *)
(* results of LeaveLedgerProofs, carried over along the refinement.        *)

Proved == INSTANCE LeaveLedgerProofs
            WITH request <- request, balance <- balance

(* The ledger the service implements and the ledger of the proofs are two  *)
(* instances of one module.                                                *)
LEMMA SameInit == Ledger!Init => Proved!Init
BY DEF Ledger!Init, Proved!Init

LEMMA SameNext == [Ledger!Next]_Ledger!vars => [Proved!Next]_Proved!vars
<1>1. ASSUME NEW r \in Requests, NEW a \in Accounts, NEW n \in DayCounts,
             NEW d \in StartDays, Ledger!Create(r, a, n, d)
      PROVE  Proved!Next
  <2>1. Proved!Create(r, a, n, d)
    BY <1>1 DEF Ledger!Create, Proved!Create, Ledger!Draft, Proved!Draft
  <2>2. QED
    BY <2>1 DEF Proved!Next
<1>2. ASSUME NEW r \in Requests, Ledger!Submit(r)
      PROVE  Proved!Next
  <2>1. Proved!Submit(r)
    BY <1>2 DEF Ledger!Submit, Proved!Submit, Ledger!Is, Proved!Is,
                Ledger!Book, Proved!Book
  <2>2. QED
    BY <2>1 DEF Proved!Next
<1>3. ASSUME NEW r \in Requests, NEW actor \in Employees,
             \/ Ledger!Approve(r, actor) \/ Ledger!Reject(r, actor)
             \/ Ledger!CancelDraft(r, actor) \/ Ledger!CancelSubmitted(r, actor)
      PROVE  Proved!Next
  <2>1. \/ Proved!Approve(r, actor) \/ Proved!Reject(r, actor)
        \/ Proved!CancelDraft(r, actor) \/ Proved!CancelSubmitted(r, actor)
    BY <1>3
       DEF Ledger!Approve, Proved!Approve, Ledger!Reject, Proved!Reject,
           Ledger!CancelDraft, Proved!CancelDraft, Ledger!CancelSubmitted,
           Proved!CancelSubmitted, Ledger!Is, Proved!Is, Ledger!Book,
           Proved!Book, Ledger!MayDecide, Proved!MayDecide, Ledger!MayCancel,
           Proved!MayCancel, Ledger!Oversees, Proved!Oversees, Ledger!Owner,
           Proved!Owner
  <2>2. QED
    BY <2>1 DEF Proved!Next
<1>4. ASSUME NEW r \in Requests, NEW s \in Requests, NEW actor \in Employees,
             Ledger!Reverse(r, s, actor)
      PROVE  Proved!Next
  <2>1. Proved!Reverse(r, s, actor)
    BY <1>4
       DEF Ledger!Reverse, Proved!Reverse, Ledger!Is, Proved!Is, Ledger!Book,
           Proved!Book, Ledger!MayCancel, Proved!MayCancel, Ledger!Oversees,
           Proved!Oversees, Ledger!Owner, Proved!Owner, Ledger!ReversedIn,
           Proved!ReversedIn, Ledger!StoredIn, Proved!StoredIn,
           Ledger!ReversalOf, Proved!ReversalOf, Ledger!Draft, Proved!Draft
  <2>2. QED
    BY <2>1 DEF Proved!Next
<1>5. QED
  BY <1>1, <1>2, <1>3, <1>4 DEF Ledger!Next, Ledger!vars, Proved!vars

LEMMA SameCounters == Proved!CountersAgree => CountersAgree
BY DEF Proved!CountersAgree, CountersAgree, Ledger!CountersAgree,
       Proved!DaysOf, Ledger!DaysOf, Proved!DayUnits, Ledger!DayUnits,
       Proved!SubmittedIn, Ledger!SubmittedIn, Proved!TakenIn, Ledger!TakenIn,
       Proved!StoredIn, Ledger!StoredIn, Proved!ReversedIn, Ledger!ReversedIn,
       Ledger!Cardinality, Proved!Cardinality

LEMMA SameAssumptions == Proved!ActorsAssumption /\ Proved!RecordsAssumption
BY ActorsAssumption, RecordsAssumption
   DEF Proved!ActorsAssumption, Proved!RecordsAssumption, Roles, Proved!Roles,
       Row, Proved!Row, View, Proved!View, Statuses, Proved!Statuses,
       IsFiniteSet, Proved!IsFiniteSet

(* pendingDays is the total of the SUBMITTED requests and usedDays that of *)
(* the APPROVED ones no reversal has released, in the service itself, when *)
(* no two calls on one leave request overlap: any number of calls on other *)
(* requests may compute the counters of the same balance row meanwhile.    *)
THEOREM ServiceCounters == SerialRequests => (Spec => []CountersAgree)
<1> SUFFICES ASSUME SerialRequests PROVE Spec => []CountersAgree
  OBVIOUS
<1>1. Init => Proved!Counted
  <2>1. Init => Ledger!Init
    BY DEF Init, Ledger!Init, ZeroBalance
  <2>2. QED
    BY <2>1, SameInit, SameAssumptions, Proved!CountedInit
<1>2. Serial /\ [Next]_vars => Serial'
  BY SerialStep
<1>3. Serial /\ Proved!Counted /\ [Next]_vars => Proved!Counted'
  BY StepRefines, SameNext, SameAssumptions, Proved!CountedStep
<1>4. Proved!Counted => CountersAgree
  BY SameCounters DEF Proved!Counted
<1>5. QED
  BY <1>1, <1>2, <1>3, <1>4, SerialInit, PTL DEF Spec

-----------------------------------------------------------------------------
(* The refinement of overlapping calls.  A call was allowed its operation  *)
(* on the row it read, and the audit trail, which only grows, still knows  *)
(* the status that row had when the call commits.                          *)

Allowed(op, actor, row) ==
  /\ op = "submit" => Owner(row) = actor
  /\ op \in {"approve", "reject"} => MayDecide(actor, row)
  /\ op = "cancel" => MayCancel(actor, row)

Grounded(c) ==
  c.pc # "idle" /\ c.op # "create" =>
    c.seen.status \in PastOf(c.id) /\ Allowed(c.op, c.actor, c.seen)

StatusIsPast == \A r \in Stored : request[r].status \in PastOf(r)

Timely ==
  /\ Audited
  /\ StatusIsPast
  /\ \A h \in Handlers : Grounded(call[h])

(* The statuses a trail tells of, and one entry more.                      *)
LEMMA PastByEntry ==
  ASSUME Audited, NEW h \in Handlers, Commit(h), NEW u, u = Subject(call[h]),
         NEW e, e = Recorded(call[h])
  PROVE  {audit[u][i].after : i \in RowEntries(u)}'
           = {audit[u][i].after : i \in RowEntries(u)}
               \cup (IF Releases(e) THEN {} ELSE {e.after})
<1>1. PICK n : n = Len(audit[u]) + 1
  OBVIOUS
<1>2. /\ DOMAIN audit'[u] = DOMAIN audit[u] \cup {n}
      /\ audit'[u][n] = e /\ n \notin DOMAIN audit[u]
      /\ \A i \in DOMAIN audit[u] : audit'[u][i] = audit[u][i]
  <2>1. u = Subject(call[h]) /\ n = Len(audit[u]) + 1
    BY <1>1
  <2>2. DOMAIN audit'[u] = DOMAIN audit[u] \cup {n}
    BY <2>1, CommitTrails
  <2>3. audit'[u][n] = Recorded(call[h])
    BY <2>1, CommitTrails
  <2>4. n \notin DOMAIN audit[u]
    BY <2>1, CommitTrails
  <2>5. \A i \in DOMAIN audit[u] : audit'[u][i] = audit[u][i]
    BY <2>1, CommitTrails
  <2>6. QED
    BY <2>2, <2>3, <2>4, <2>5
<1>3. RowEntries(u)' = RowEntries(u) \cup (IF Releases(e) THEN {} ELSE {n})
  BY <1>2 DEF RowEntries
<1>4. \A i \in RowEntries(u) : i \in DOMAIN audit[u]
  BY DEF RowEntries
<1>5. QED
  BY <1>2, <1>3, <1>4

(* What a commit adds to the past of the rows.                             *)
LEMMA PastAfterCommit ==
  ASSUME Audited, NEW h \in Handlers, Commit(h), NEW c, c = call[h]
  PROVE  /\ c.op = "create" => PastOf(c.target)' = {"DRAFT"}
         /\ Cancels(c, "APPROVED") => PastOf(c.target)' = {"CANCELLED"}
         /\ ~Inserts(c) => PastOf(c.id)' = PastOf(c.id) \cup {c.out.status}
         /\ \A r \in Requests \ {c.target} : PastOf(r)' = PastOf(r)
<1>1. /\ TypeOK /\ Faithful(c) /\ Outcome(c) /\ c.pc = "written"
      /\ c.target \in Requests /\ c.out # None
      /\ request'[c.target] = c.out
      /\ \A r \in Requests \ {c.target} : request'[r] = request[r]
      /\ Stored' = Stored \cup {c.target}
      /\ Inserts(c) => c.target \notin Stored
      /\ ~Inserts(c) => c.target = c.id
  BY CommitFacts
<1>2. c.op # "create" => /\ c.id \in Stored /\ Subject(c) = c.id
                         /\ request[c.id].reverses = None
                         /\ c.seen.reverses = None /\ c.id \in Requests
  BY CommitFacts DEF SameLeave, Stored, StoredIn
<1>3. PICK u, e : u = Subject(c) /\ e = Recorded(c)
  OBVIOUS
<1>4. {audit[u][i].after : i \in RowEntries(u)}'
        = {audit[u][i].after : i \in RowEntries(u)}
            \cup (IF Releases(e) THEN {} ELSE {e.after})
  BY <1>3, PastByEntry
<1>5. \A r \in Requests \ {u} : audit'[r] = audit[r]
  BY <1>3, CommitTrails
<1>6. e.after = c.out.status /\ e.action = c.op
      /\ (c.op # "create" => e.before = c.seen.status)
  BY <1>3 DEF Recorded
<1>7. Releases(e) <=> Cancels(c, "APPROVED")
  BY <1>6 DEF Releases, Cancels
<1>8. \A r \in Requests \ Stored : RowEntries(r) = {} /\ audit[r] = <<>>
  BY DEF Audited, TrailFits, RowEntries, Stored, StoredIn
<1>9. ASSUME NEW r \in Requests, r # c.target, r # u
      PROVE  PastOf(r)' = PastOf(r)
  <2>1. /\ audit'[r] = audit[r] /\ request'[r] = request[r]
        /\ r \in Stored' <=> r \in Stored
    BY <1>1, <1>5, <1>9
  <2>2. RowEntries(r)' = RowEntries(r)
    BY <2>1 DEF RowEntries
  <2>3. QED
    BY <2>1, <2>2 DEF PastOf
<1>10. CASE c.op = "create"
  <2>1. u = c.target /\ u \notin Stored /\ c.out.status = "DRAFT"
        /\ c.out.reverses = None
    BY <1>1, <1>3, <1>10 DEF Subject, Faithful, Inserts
  <2>2. PastOf(u)' = {audit[u][i].after : i \in RowEntries(u)}'
    BY <1>1, <2>1 DEF PastOf
  <2>3. {audit[u][i].after : i \in RowEntries(u)} = {}
    BY <1>1, <1>8, <2>1
  <2>4. PastOf(u)' = {"DRAFT"}
    BY <1>4, <1>6, <1>7, <1>10, <2>1, <2>2, <2>3 DEF Cancels
  <2>5. QED
    BY <1>9, <1>10, <2>1, <2>4 DEF Inserts, Cancels
<1>11. CASE c.op # "create"
  <2>1. u = c.id /\ u \in Stored /\ request[u].reverses = None /\ u \in Requests
    BY <1>2, <1>3, <1>11
  <2>2. PastOf(u) = {audit[u][i].after : i \in RowEntries(u)}
    BY <2>1 DEF PastOf
  <2>3. CASE Cancels(c, "APPROVED")
    <3>1. u # c.target /\ c.target \notin Stored /\ Inserts(c)
      BY <1>1, <2>1, <2>3 DEF Inserts
    <3>2. c.out.reverses = c.id /\ c.out.status = "CANCELLED" /\ c.id # None
      BY <1>1, <1>2, <1>11, <2>3, ReversalRow, RecordsAssumption DEF Outcome
    <3>3. PastOf(c.target)' = {"CANCELLED"}
      BY <1>1, <3>2 DEF PastOf
    <3>4. request'[u] = request[u] /\ u \in Stored'
      BY <1>1, <2>1, <3>1
    <3>5. PastOf(u)' = PastOf(u)
      BY <1>4, <1>7, <2>1, <2>2, <2>3, <3>4 DEF PastOf
    <3>6. QED
      BY <1>9, <1>11, <2>1, <3>1, <3>3, <3>5
  <2>4. CASE ~Cancels(c, "APPROVED")
    <3>1. ~Inserts(c) /\ c.target = u
      BY <1>1, <1>11, <2>1, <2>4 DEF Inserts
    <3>2. u \in Stored' /\ request'[u].reverses = None
      BY <1>1, <1>2, <1>11, <3>1 DEF Outcome, SameLeave
    <3>3. PastOf(u)' = PastOf(u) \cup {c.out.status}
      BY <1>4, <1>6, <1>7, <2>2, <2>4, <3>2 DEF PastOf
    <3>4. QED
      BY <1>9, <1>11, <2>1, <2>4, <3>1, <3>3
  <2>5. QED
    BY <2>3, <2>4
<1>12. QED
  BY <1>10, <1>11

LEMMA PastUnchanged ==
  ASSUME UNCHANGED <<request, audit>>
  PROVE  /\ \A r : PastOf(r)' = PastOf(r)
         /\ Stored' = Stored
<1>1. Stored' = Stored
  BY DEF Stored, StoredIn
<1>2. ASSUME NEW r PROVE PastOf(r)' = PastOf(r)
  BY <1>1 DEF PastOf, RowEntries
<1>3. QED
  BY <1>1, <1>2

(* A call that is under way keeps what it is about, or ends.               *)
Kept(g) ==
  \/ call'[g].pc = "idle"
  \/ /\ call[g].pc # "idle"
     /\ call'[g].op = call[g].op /\ call'[g].actor = call[g].actor
     /\ call'[g].id = call[g].id /\ call'[g].seen = call[g].seen

LEMMA CallsKept ==
  ASSUME Safe, NEW h \in Handlers, Proceed(h) \/ Abort(h)
  PROVE  \A g \in Handlers : Kept(g) \/ call'[g] = call[g]
<1>1. call \in [Handlers -> Call]
  BY DEF Safe, TypeOK
<1>2. ASSUME NEW c \in Call, call' = [call EXCEPT ![h] = c],
             \/ c.pc = "idle"
             \/ /\ call[h].pc # "idle"
                /\ c.op = call[h].op /\ c.actor = call[h].actor
                /\ c.id = call[h].id /\ c.seen = call[h].seen
      PROVE  \A g \in Handlers : Kept(g) \/ call'[g] = call[g]
  BY <1>1, <1>2 DEF Kept
<1>3. ASSUME Release(h)
      PROVE  \A g \in Handlers : Kept(g) \/ call'[g] = call[g]
  <2>1. call' = [call EXCEPT ![h] = Idle] /\ Idle.pc = "idle"
    BY <1>3 DEF Release, Idle
  <2>2. QED
    BY <1>2, <2>1, IdleCall
<1>4. ASSUME FindReversal(h) \/ LockBalance(h)
      PROVE  \A g \in Handlers : Kept(g) \/ call'[g] = call[g]
  <2>1. /\ call[h] \in Call /\ call[h].pc # "idle"
        /\ \A g \in Handlers \ {h} : call'[g] = call[g]
        /\ call'[h].op = call[h].op /\ call'[h].actor = call[h].actor
        /\ call'[h].id = call[h].id /\ call'[h].seen = call[h].seen
    BY <1>1, <1>4 DEF FindReversal, LockBalance, WantsBalance, Call
  <2>2. QED
    BY <2>1 DEF Kept
<1>5. ASSUME NEW r, NEW row, NEW booked, Stage(h, r, row, booked),
             call[h].pc # "idle"
      PROVE  \A g \in Handlers : Kept(g) \/ call'[g] = call[g]
  <2>1. /\ call[h] \in Call
        /\ \A g \in Handlers \ {h} : call'[g] = call[g]
        /\ call'[h].op = call[h].op /\ call'[h].actor = call[h].actor
        /\ call'[h].id = call[h].id /\ call'[h].seen = call[h].seen
    BY <1>1, <1>5 DEF Stage, Call
  <2>2. QED
    BY <1>5, <2>1 DEF Kept
<1>6. ASSUME \/ WriteSubmit(h) \/ WriteApprove(h) \/ WriteReject(h)
             \/ WriteCancelSubmitted(h) \/ WriteCancelDraft(h)
             \/ \E r \in Requests : InsertDraft(h, r) \/ InsertReversal(h, r)
      PROVE  \A g \in Handlers : Kept(g) \/ call'[g] = call[g]
  BY <1>5, <1>6 DEF WriteSubmit, WriteApprove, WriteReject, WriteCancelSubmitted,
                    WriteCancelDraft, InsertDraft, InsertReversal
<1>7. QED
  BY <1>3, <1>4, <1>6 DEF Proceed, Commit, Refuse, Abort

(* Only a commit changes a row or its trail.                               *)
LEMMA OnlyCommitsWrite ==
  ASSUME [Next]_vars, \A h \in Handlers : ~Commit(h)
  PROVE  UNCHANGED <<request, audit>>
<1>1. ASSUME NEW h \in Handlers, Receive(h) \/ Abort(h)
      PROVE  UNCHANGED <<request, audit>>
  BY <1>1 DEF Receive, CheckCreate, CheckSubmit, CheckDecide, CheckCancel,
              Accept, Abort, db
<1>2. ASSUME NEW h \in Handlers, Proceed(h)
      PROVE  UNCHANGED <<request, audit>>
  <2>1. ASSUME NEW x, NEW row, NEW booked, Stage(h, x, row, booked)
        PROVE  UNCHANGED <<request, audit>>
    BY <2>1 DEF Stage, db
  <2>2. CASE FindReversal(h) \/ LockBalance(h) \/ Refuse(h)
    BY <2>2 DEF FindReversal, LockBalance, Refuse, db
  <2>3. QED
    BY <1>2, <2>1, <2>2 DEF Proceed, WriteSubmit, WriteApprove, WriteReject,
         WriteCancelSubmitted, WriteCancelDraft, InsertDraft, InsertReversal
<1>3. CASE NextDay \/ UNCHANGED vars
  BY <1>3 DEF NextDay, vars, db
<1>4. QED
  BY <1>1, <1>2, <1>3 DEF Next

(* The past of a request, but not of a reversal, only grows.               *)
LEMMA PastGrows ==
  ASSUME Audited, [Next]_vars,
         NEW r \in Stored, request[r].reverses = None
  PROVE  PastOf(r) \subseteq PastOf(r)'
<1>1. r \in Requests
  BY DEF Stored, StoredIn
<1>2. ASSUME NEW h \in Handlers, Commit(h) PROVE PastOf(r) \subseteq PastOf(r)'
  <2>1. PICK c : c = call[h]
    OBVIOUS
  <2>2. CASE r # c.target
    BY <1>1, <1>2, <2>1, <2>2, PastAfterCommit
  <2>3. CASE r = c.target
    <3>1. ~Inserts(c) /\ r = c.id
      BY <1>2, <2>1, <2>3, CommitFacts
    <3>2. PastOf(c.id)' = PastOf(c.id) \cup {c.out.status}
      BY <1>2, <2>1, <3>1, PastAfterCommit
    <3>3. QED
      BY <3>1, <3>2
  <2>4. QED
    BY <2>2, <2>3
<1>3. CASE UNCHANGED <<request, audit>>
  BY <1>3, PastUnchanged
<1>4. QED
  BY <1>2, <1>3, OnlyCommitsWrite

LEMMA TimelyInit == Init => Timely
<1> SUFFICES ASSUME Init PROVE Timely
  OBVIOUS
<1>1. Audited
  BY AuditedInit
<1>2. StatusIsPast
  BY DEF Init, StatusIsPast, Stored, StoredIn
<1>3. \A h \in Handlers : Grounded(call[h])
  BY DEF Init, Grounded, Idle
<1>4. QED
  BY <1>1, <1>2, <1>3 DEF Timely

LEMMA StatusIsPastStep ==
  ASSUME Timely, [Next]_vars
  PROVE  StatusIsPast'
<1>1. Audited /\ StatusIsPast
  BY DEF Timely
<1>2. CASE UNCHANGED <<request, audit>>
  BY <1>1, <1>2, PastUnchanged DEF StatusIsPast
<1>3. ASSUME NEW h \in Handlers, Commit(h) PROVE StatusIsPast'
  <2>1. PICK c : c = call[h]
    OBVIOUS
  <2>2. /\ Outcome(c) /\ Faithful(c) /\ c.pc = "written"
        /\ c.target \in Requests /\ request'[c.target] = c.out
        /\ \A r \in Requests \ {c.target} : request'[r] = request[r]
        /\ Stored' = Stored \cup {c.target}
        /\ ~Inserts(c) => c.target = c.id
    BY <1>1, <1>3, <2>1, CommitFacts
  <2>3. c.out.status \in PastOf(c.target)'
    <3>1. CASE c.op = "create"
      <4>1. c.out.status = "DRAFT"
        BY <2>2, <3>1 DEF Faithful
      <4>2. QED
        BY <1>1, <1>3, <2>1, <3>1, <4>1, PastAfterCommit
    <3>2. CASE Cancels(c, "APPROVED")
      <4>1. c.out.status = "CANCELLED"
        BY <2>2, <3>2 DEF Outcome, Cancels
      <4>2. QED
        BY <1>1, <1>3, <2>1, <3>2, <4>1, PastAfterCommit
    <3>3. CASE ~Inserts(c)
      <4>1. PastOf(c.id)' = PastOf(c.id) \cup {c.out.status}
        BY <1>1, <1>3, <2>1, <3>3, PastAfterCommit
      <4>2. QED
        BY <2>2, <3>3, <4>1
    <3>4. QED
      BY <3>1, <3>2, <3>3 DEF Inserts
  <2>4. ASSUME NEW r \in Stored, r # c.target
        PROVE  request'[r].status \in PastOf(r)'
    <3>1. r \in Requests /\ request'[r] = request[r]
      BY <2>2, <2>4 DEF Stored, StoredIn
    <3>2. PastOf(r)' = PastOf(r)
      BY <1>1, <1>3, <2>1, <2>4, <3>1, PastAfterCommit
    <3>3. QED
      BY <1>1, <3>1, <3>2 DEF StatusIsPast
  <2>5. QED
    BY <2>2, <2>3, <2>4 DEF StatusIsPast
<1>4. QED
  BY <1>2, <1>3, OnlyCommitsWrite

(* A call that has just passed its guards.                                 *)
LEMMA ReceiveGrounded ==
  ASSUME Timely, NEW h \in Handlers, Receive(h)
  PROVE  Grounded(call[h])'
<1>1. /\ call \in [Handlers -> Call] /\ StatusIsPast
  BY DEF Timely, Audited, Safe, TypeOK
<1>2. UNCHANGED <<request, audit>>
  BY DEF Receive, CheckCreate, CheckSubmit, CheckDecide, CheckCancel, Accept, db
<1>3. \A r : PastOf(r)' = PastOf(r)
  BY <1>2, PastUnchanged
<1>4. CASE call'[h].op = "create"
  BY <1>4 DEF Grounded
<1>5. ASSUME NEW actor \in Employees, NEW r \in Stored, NEW op \in Ops,
             Allowed(op, actor, request[r]), Accept(h, op, actor, r)
      PROVE  Grounded(call[h])'
  <2>1. /\ call'[h].op = op /\ call'[h].actor = actor /\ call'[h].id = r
        /\ call'[h].seen = request[r]
    BY <1>1, <1>5 DEF Accept, Idle
  <2>2. request[r].status \in PastOf(r)'
    BY <1>1, <1>3 DEF StatusIsPast
  <2>3. (call[h].seen.status \in PastOf(call[h].id))'
    BY <2>1, <2>2 DEF PastOf, RowEntries, Stored, StoredIn
  <2>4. Allowed(call[h].op, call[h].actor, call[h].seen)'
    BY <1>5, <2>1 DEF Allowed, MayDecide, MayCancel, Oversees, Owner
  <2>5. QED
    BY <2>3, <2>4 DEF Grounded
<1>6. CASE \E actor \in Employees, a \in Accounts, n \in DayCounts,
             d \in StartDays : CheckCreate(h, actor, a, n, d)
  BY <1>1, <1>4, <1>6 DEF CheckCreate, Idle
<1>7. ASSUME NEW actor \in Employees, NEW r \in Requests,
             CheckSubmit(h, actor, r)
      PROVE  Grounded(call[h])'
  BY <1>5, <1>7 DEF CheckSubmit, Allowed, Ops
<1>8. ASSUME NEW actor \in Employees, NEW r \in Requests,
             NEW op \in {"approve", "reject"}, CheckDecide(h, op, actor, r)
      PROVE  Grounded(call[h])'
  BY <1>5, <1>8 DEF CheckDecide, Allowed, Ops
<1>9. ASSUME NEW actor \in Employees, NEW r \in Requests,
             CheckCancel(h, actor, r)
      PROVE  Grounded(call[h])'
  BY <1>5, <1>9 DEF CheckCancel, Allowed, Ops
<1>10. QED
  BY <1>6, <1>7, <1>8, <1>9 DEF Receive

(* A call under way: the past of the request it names has only grown.      *)
LEMMA KeptGrounded ==
  ASSUME Timely, [Next]_vars, NEW g \in Handlers,
         Kept(g) \/ call'[g] = call[g]
  PROVE  Grounded(call[g])'
<1>1. Audited /\ Grounded(call[g]) /\ Faithful(call[g]) /\ Informed(call[g])
  BY DEF Timely, Audited, Safe
<1>2. SUFFICES ASSUME call'[g].pc # "idle", call'[g].op # "create"
               PROVE  Grounded(call[g])'
  BY DEF Grounded
<1>3. /\ call[g].pc # "idle" /\ call'[g].op = call[g].op
      /\ call'[g].actor = call[g].actor
      /\ call'[g].id = call[g].id /\ call'[g].seen = call[g].seen
  BY <1>2 DEF Kept
<1>4. PICK r : r = call[g].id
  OBVIOUS
<1>5. /\ r \in Stored /\ request[r].reverses = None
      /\ call[g].seen.status \in PastOf(r)
      /\ Allowed(call[g].op, call[g].actor, call[g].seen)
  BY <1>1, <1>2, <1>3, <1>4 DEF Informed, Faithful, SameLeave, Grounded,
                                Stored, StoredIn
<1>6. call[g].seen.status \in PastOf(r)'
  BY <1>1, <1>5, PastGrows
<1>7. (call[g].seen.status \in PastOf(call[g].id))'
  BY <1>3, <1>4, <1>6 DEF PastOf, RowEntries, Stored, StoredIn
<1>8. Allowed(call[g].op, call[g].actor, call[g].seen)'
  BY <1>3, <1>5 DEF Allowed, MayDecide, MayCancel, Oversees, Owner
<1>9. QED
  BY <1>7, <1>8 DEF Grounded

LEMMA TimelyStep == Timely /\ [Next]_vars => Timely'
<1> SUFFICES ASSUME Timely, [Next]_vars PROVE Timely'
  OBVIOUS
<1>1. Audited' /\ StatusIsPast'
  BY AuditedStep, StatusIsPastStep DEF Timely
<1>2. Safe /\ call \in [Handlers -> Call]
  BY DEF Timely, Audited, Safe, TypeOK
<1>3. ASSUME NEW h \in Handlers, Receive(h), NEW g \in Handlers
      PROVE  Grounded(call[g])'
  <2>1. CASE g = h
    BY <1>3, <2>1, ReceiveGrounded
  <2>2. CASE g # h
    <3>1. call'[g] = call[g]
      BY <1>2, <1>3, <2>2 DEF Receive, CheckCreate, CheckSubmit, CheckDecide,
                              CheckCancel, Accept
    <3>2. QED
      BY <3>1, KeptGrounded
  <2>3. QED
    BY <2>1, <2>2
<1>4. ASSUME NEW h \in Handlers, Proceed(h) \/ Abort(h), NEW g \in Handlers
      PROVE  Grounded(call[g])'
  BY <1>2, <1>4, CallsKept, KeptGrounded
<1>5. ASSUME NextDay \/ UNCHANGED vars, NEW g \in Handlers
      PROVE  Grounded(call[g])'
  <2>1. call'[g] = call[g]
    BY <1>5 DEF NextDay, vars
  <2>2. QED
    BY <2>1, KeptGrounded
<1>6. \A g \in Handlers : Grounded(call[g])'
  BY <1>3, <1>4, <1>5 DEF Next
<1>7. QED
  BY <1>1, <1>6 DEF Timely

-----------------------------------------------------------------------------

(* A guard reads no more of a row than its status and its account.         *)
LEMMA PermitsView ==
  ASSUME NEW op \in {"submit", "approve", "reject", "cancel"}, NEW actor,
         NEW seen, NEW row, row.status = seen.status, row.account = seen.account,
         Allowed(op, actor, seen),
         op = "submit" => seen.status = "DRAFT",
         op \in {"approve", "reject"} => seen.status = "SUBMITTED"
  PROVE  Commits!Permits(op, actor, row)
<1>1. CASE op = "submit"
  BY <1>1 DEF Commits!Permits, Allowed, Owner, Commits!Owner
<1>2. CASE op \in {"approve", "reject"}
  BY <1>2 DEF Commits!Permits, Allowed, MayDecide, Commits!MayDecide, Oversees,
              Commits!Oversees, Owner, Commits!Owner
<1>3. CASE op = "cancel"
  BY <1>3 DEF Commits!Permits, Allowed, MayCancel, Commits!MayCancel, Oversees,
              Commits!Oversees, Owner, Commits!Owner
<1>4. QED
  BY <1>1, <1>2, <1>3

LEMMA ViewsAre ==
  ASSUME NEW row \in Row
  PROVE  /\ ViewOf(row) = [status |-> row.status, account |-> row.account]
         /\ ViewOf(row) \in View /\ ViewOf(row) # None
<1>1. row # None /\ row.status \in Statuses /\ row.account \in Accounts
  BY RecordsAssumption DEF Row
<1>2. QED
  BY <1>1, RecordsAssumption DEF ViewOf, View

(* A commit is a step of the ledger of commits.                            *)
LEMMA CommitOfCommits ==
  ASSUME Timely, NEW h \in Handlers, Commit(h)
  PROVE  Commits!CommitsNext
<1>1. PICK c, t : c = call[h] /\ t = c.target
  OBVIOUS
<1>2. /\ c.pc = "written" /\ Faithful(c) /\ Outcome(c) /\ Informed(c)
      /\ t \in Requests /\ c.out \in Row
      /\ c.op # "create" => /\ c.id \in Stored /\ SameLeave(request[c.id], c.seen)
                            /\ c.seen \in Row
      /\ Inserts(c) => t \notin Stored
      /\ ~Inserts(c) => t = c.id
  BY <1>1, CommitFacts DEF Timely
<1>3. /\ Audited /\ Grounded(c)
      /\ request \in [Requests -> Row \cup {None}]
  BY <1>1 DEF Timely, Audited, Safe, TypeOK
<1>4. /\ c.op \in Ops /\ c.actor \in Employees
      /\ c.op # "create" => c.id \in Requests /\ request[c.id] \in Row
  BY <1>2, <1>3, RecordsAssumption DEF Informed
<1>5. c.out.account \in Accounts /\ ViewOf(c.out) =
        [status |-> c.out.status, account |-> c.out.account]
  BY <1>2, ViewsAre DEF Row
<1>6. ASSUME NEW view, view = ViewOf(c.out), NEW had, PastOf(t)' = had
      PROVE  /\ [r \in Requests |-> ViewOf(request[r])]'
                  = [[r \in Requests |-> ViewOf(request[r])] EXCEPT ![t] = view]
             /\ [r \in Requests |-> PastOf(r)]'
                  = [[r \in Requests |-> PastOf(r)] EXCEPT ![t] = had]
  <2>1. /\ request'[t] = c.out
        /\ \A r \in Requests \ {t} : request'[r] = request[r]
    BY <1>1, <1>3, CommitFacts
  <2>2. \A r \in Requests \ {t} : PastOf(r)' = PastOf(r)
    BY <1>1, <1>3, PastAfterCommit
  <2>3. \A r \in Requests : ViewOf(request[r])'
                                = IF r = t THEN view ELSE ViewOf(request[r])
    BY <1>6, <2>1 DEF ViewOf
  <2>4. \A r \in Requests : PastOf(r)' = IF r = t THEN had ELSE PastOf(r)
    BY <1>6, <2>2
  <2>5. QED
    BY <1>2, <2>3, <2>4
<1>7. CASE c.op = "create"
  <2>1. c.out.status = "DRAFT" /\ request[t] = None
    BY <1>2, <1>7 DEF Faithful, Inserts, Stored, StoredIn
  <2>2. PastOf(t)' = {"DRAFT"}
    BY <1>1, <1>3, <1>7, PastAfterCommit
  <2>3. /\ [r \in Requests |-> ViewOf(request[r])][t] = None
        /\ [r \in Requests |-> ViewOf(request[r])]'
             = [[r \in Requests |-> ViewOf(request[r])] EXCEPT
                  ![t] = [status |-> "DRAFT", account |-> c.out.account]]
        /\ [r \in Requests |-> PastOf(r)]'
             = [[r \in Requests |-> PastOf(r)] EXCEPT ![t] = {"DRAFT"}]
    <3>1. [r \in Requests |-> ViewOf(request[r])][t] = None
      BY <1>2, <2>1 DEF ViewOf
    <3>2. QED
      BY <1>5, <1>6, <2>1, <2>2, <3>1
  <2>4. Commits!CommitDraft(t, c.out.account)
    BY <2>3 DEF Commits!CommitDraft, Commits!Insert
  <2>5. QED
    BY <1>2, <1>5, <2>4 DEF Commits!CommitsNext
<1>8. CASE c.op # "create"
  <2>1. PICK q : q = c.id
    OBVIOUS
  <2>2. PICK status : status = c.seen.status
    OBVIOUS
  <2>3. /\ q \in Requests /\ request[q] \in Row /\ status \in Statuses
        /\ request[q].account = c.seen.account
        /\ status \in PastOf(q) /\ Allowed(c.op, c.actor, c.seen)
        /\ c.op \in {"submit", "approve", "reject", "cancel"}
        /\ c.op = "submit" => status = "DRAFT"
        /\ c.op \in {"approve", "reject"} => status = "SUBMITTED"
    BY <1>2, <1>3, <1>4, <1>8, <2>1, <2>2
       DEF SameLeave, Grounded, Faithful, Ops, Row
  <2>4. /\ [r \in Requests |-> ViewOf(request[r])][q]
             = [status |-> request[q].status, account |-> c.seen.account]
        /\ [r \in Requests |-> ViewOf(request[r])][q] # None
        /\ [r \in Requests |-> PastOf(r)][q] = PastOf(q)
    BY <2>3, ViewsAre
  <2>5. \A s : Commits!Seen(q, s) = [status |-> s, account |-> c.seen.account]
    BY <2>4 DEF Commits!Seen
  <2>6. Commits!Permits(c.op, c.actor, Commits!Seen(q, status))
    <3>1. PICK row : row = [status |-> status, account |-> c.seen.account]
      OBVIOUS
    <3>2. row.status = c.seen.status /\ row.account = c.seen.account
      BY <2>2, <3>1
    <3>3. Commits!Permits(c.op, c.actor, row)
      BY <2>2, <2>3, <3>2, PermitsView
    <3>4. QED
      BY <2>5, <3>1, <3>3
  <2>7. CASE Cancels(c, "APPROVED")
    <3>1. /\ c.out.status = "CANCELLED" /\ c.out.account = c.seen.account
          /\ request[t] = None /\ status = "APPROVED" /\ c.op = "cancel"
      BY <1>2, <2>2, <2>7, ReversalRow
         DEF Outcome, Cancels, Inserts, Stored, StoredIn
    <3>2. PastOf(t)' = {"CANCELLED"}
      BY <1>1, <1>3, <2>7, PastAfterCommit
    <3>3. [r \in Requests |-> ViewOf(request[r])][t] = None
      BY <1>2, <3>1 DEF ViewOf
    <3>4. /\ [r \in Requests |-> ViewOf(request[r])]'
             = [[r \in Requests |-> ViewOf(request[r])] EXCEPT
                  ![t] = [status |-> "CANCELLED", account |-> c.seen.account]]
          /\ [r \in Requests |-> PastOf(r)]'
             = [[r \in Requests |-> PastOf(r)] EXCEPT ![t] = {"CANCELLED"}]
      BY <1>5, <1>6, <3>1, <3>2
    <3>5. [r \in Requests |-> ViewOf(request[r])][q].account = c.seen.account
      BY <2>4
    <3>6. Commits!Insert(t, "CANCELLED",
            [r \in Requests |-> ViewOf(request[r])][q].account)
      BY <3>3, <3>4, <3>5 DEF Commits!Insert
    <3>7. Commits!CommitReversal(q, t, c.actor)
      BY <2>3, <2>4, <2>6, <3>1, <3>6 DEF Commits!CommitReversal
    <3>8. QED
      BY <1>2, <1>4, <2>3, <3>7 DEF Commits!CommitsNext
  <2>8. CASE ~Cancels(c, "APPROVED")
    <3>1. ~Inserts(c) /\ t = q
      BY <1>2, <1>8, <2>1, <2>8 DEF Inserts
    <3>2. /\ c.out.status = Commits!Outcome[c.op]
          /\ c.out.account = c.seen.account /\ status # "APPROVED"
      BY <1>2, <2>2, <2>3, <2>8, <3>1
         DEF Outcome, SameLeave, Commits!Outcome, Cancels, Faithful
    <3>3. PastOf(t)' = PastOf(q) \cup {Commits!Outcome[c.op]}
      BY <1>1, <1>3, <2>1, <3>1, <3>2, PastAfterCommit
    <3>4. ViewOf(c.out) = Commits!Seen(q, Commits!Outcome[c.op])
      BY <1>5, <2>5, <3>2
    <3>5. /\ [r \in Requests |-> ViewOf(request[r])]'
             = [[r \in Requests |-> ViewOf(request[r])] EXCEPT
                  ![q] = Commits!Seen(q, Commits!Outcome[c.op])]
          /\ [r \in Requests |-> PastOf(r)]'
             = [[r \in Requests |-> PastOf(r)] EXCEPT
                  ![q] = [r \in Requests |-> PastOf(r)][q]
                           \cup {Commits!Outcome[c.op]}]
      BY <1>6, <2>4, <3>1, <3>3, <3>4
    <3>6. Commits!CommitInPlace(q, c.op, c.actor, status)
      BY <2>3, <2>4, <2>6, <3>2, <3>5 DEF Commits!CommitInPlace
    <3>7. c.op \in Commits!Operations /\ status \in Commits!Statuses
      BY <2>3 DEF Commits!Operations, Commits!Statuses, Statuses
    <3>8. QED
      BY <1>4, <2>3, <3>6, <3>7 DEF Commits!CommitsNext
  <2>9. QED
    BY <2>7, <2>8
<1>9. QED
  BY <1>7, <1>8

(* Calls that overlap on one request, in any number and at any await: what *)
(* commits is an operation its actor was allowed, on a status the request  *)
(* has had.                                                                *)
THEOREM RefinesCommits == Spec => ImplementsCommits
<1>1. Init => Commits!CommitsInit
  <2>1. SUFFICES ASSUME Init
                 PROVE  \A r \in Requests : ViewOf(request[r]) = None /\ PastOf(r) = {}
    BY DEF Commits!CommitsInit
  <2>2. TAKE r \in Requests
  <2>3. request[r] = None /\ audit[r] = <<>>
    BY <2>1 DEF Init
  <2>4. QED
    BY <2>3 DEF ViewOf, PastOf, RowEntries, Stored, StoredIn
<1>2. Timely /\ [Next]_vars => [Commits!CommitsNext]_Commits!commits
  <2>1. SUFFICES ASSUME Timely, UNCHANGED <<request, audit>>
                 PROVE  UNCHANGED Commits!commits
    BY OnlyCommitsWrite, CommitOfCommits
  <2>2. \A r : PastOf(r)' = PastOf(r)
    BY <2>1, PastUnchanged
  <2>3. QED
    BY <2>1, <2>2 DEF Commits!commits
<1>3. QED
  BY <1>1, <1>2, TimelyInit, TimelyStep, PTL
     DEF Spec, ImplementsCommits, Commits!CommitsSpec
=============================================================================
