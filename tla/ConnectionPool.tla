--------------------------- MODULE ConnectionPool ---------------------------
(***************************************************************************)
(* The one pg Pool of the server and those who borrow its clients: the     *)
(* repositories, which borrow one for a single query; withTransaction,     *)
(* which keeps one from BEGIN to COMMIT or ROLLBACK; and the readiness     *)
(* probe, which races its query against a timeout.                         *)
(*                                                                         *)
(* Inside a transaction the policy and employee repositories are called    *)
(* without the transaction's client, so they borrow a second one while the *)
(* first is kept.  The pool queues those it cannot serve, without a limit  *)
(* on their waiting time, and serves them in order.                        *)
(***************************************************************************)
EXTENDS Integers, Sequences, FiniteSets

CONSTANTS
  Calls,      \* HTTP requests that can be in service at once
  Probes,     \* GET /ready requests whose query can be pending at once
  PoolSize,   \* the pool's max
  LeaveTypes  \* leave types with an effective policy

(* Single queries before the transaction, whether there is one, and single *)
(* queries on the pool inside it.                                          *)
PlanType == [before : Nat, tx : BOOLEAN, inside : Nat]

Reads(n)          == [before |-> n, tx |-> FALSE, inside |-> 0]
Transaction(n, m) == [before |-> n, tx |-> TRUE, inside |-> m]

(* What each operation borrows when no guard ends it earlier.  Where two   *)
(* numbers are possible the second is a MANAGER's, whose reports, or the   *)
(* employee whose manager decides, are looked up.  resolveBalance takes a  *)
(* policy and an employee from the pool, and the balance from its caller's *)
(* client, if it has one.                                                  *)
CreatePlans  == {Transaction(3, 0)}
SubmitPlans  == {Transaction(1, 2)}
DecidePlans  == {Transaction(1, 2), Transaction(2, 2)}
CancelPlans  == {Transaction(1, 0), Transaction(1, 2), Transaction(2, 2)}
ListPlans    == {Reads(1), Reads(2)}
DetailPlans  == {Reads(1), Reads(2)}
HistoryPlans == {Reads(2), Reads(3)}
BalancePlans == {Reads(2 + n) : n \in 0 .. LeaveTypes}
ProfilePlans == {Reads(1)}
LoginPlans   == {Reads(1)}
OpenPlans    == {Transaction(0, 2)}
CarryPlans   == {Transaction(0, 1)}

(* A policy or a leave type with one look-up, an employee with two.        *)
CreationPlans == {Reads(2), Reads(3)}

Plans ==
  UNION {CreatePlans, SubmitPlans, DecidePlans, CancelPlans, ListPlans,
         DetailPlans, HistoryPlans, BalancePlans, ProfilePlans, LoginPlans,
         OpenPlans, CarryPlans, CreationPlans}

ASSUME PoolAssumption ==
  /\ IsFiniteSet(Calls) /\ IsFiniteSet(Probes)
  /\ Calls \cap Probes = {}
  /\ PoolSize \in Nat \ {0}
  /\ LeaveTypes \in Nat

VARIABLES
  idle,    \* clients nobody has borrowed
  queue,   \* who waits for a client, in order
  at,      \* [Calls -> [pc, plan]], plan counting down what is left
  probe    \* [Probes -> {"off", "racing", "late"}]

vars == <<idle, queue, at, probe>>

Phases == {"off", "ready", "reading", "open", "inner"}

Off == [pc |-> "off", plan |-> [before |-> 0, tx |-> FALSE, inside |-> 0]]

Init ==
  /\ idle = PoolSize
  /\ queue = <<>>
  /\ at = [h \in Calls |-> Off]
  /\ probe = [p \in Probes |-> "off"]

Waits(w) == \E i \in DOMAIN queue : queue[i] = w

-----------------------------------------------------------------------------
(* The pool.                                                               *)

Borrow(w) ==
  IF idle > 0 THEN idle' = idle - 1 /\ UNCHANGED queue
              ELSE queue' = Append(queue, w) /\ UNCHANGED idle

(* Mutant: a returned client is idle although someone waits for one.       *)
GiveBackIdle == idle' = idle + 1 /\ UNCHANGED queue

(* A returned client goes to the first who waits.                          *)
GiveBack ==
  IF queue = <<>> THEN idle' = idle + 1 /\ UNCHANGED queue
                  ELSE queue' = Tail(queue) /\ UNCHANGED idle

-----------------------------------------------------------------------------
(* A handler.                                                              *)

Go(h, pc) == at' = [at EXCEPT ![h].pc = pc]

Receive(h, plan) ==
  /\ at[h].pc = "off"
  /\ at' = [at EXCEPT ![h] = [pc |-> "ready", plan |-> plan]]
  /\ UNCHANGED <<idle, queue, probe>>

StartRead(h) ==
  /\ at[h].pc = "ready" /\ at[h].plan.before > 0
  /\ Borrow(h)
  /\ at' = [at EXCEPT ![h].pc = "reading", ![h].plan.before = @ - 1]
  /\ UNCHANGED probe

EndRead(h) ==
  /\ at[h].pc = "reading" /\ ~Waits(h)
  /\ GiveBack
  /\ Go(h, "ready")
  /\ UNCHANGED probe

(* The answer of a handler that has no transaction, or that a guard or an  *)
(* error stopped before it.                                                *)
Answer(h) ==
  /\ at[h].pc = "ready"
  /\ at' = [at EXCEPT ![h] = Off]
  /\ UNCHANGED <<idle, queue, probe>>

(* withTransaction asks for its client.                                    *)
Connect(h) ==
  /\ at[h].pc = "ready" /\ at[h].plan.before = 0 /\ at[h].plan.tx
  /\ Borrow(h)
  /\ Go(h, "open")
  /\ UNCHANGED probe

StartInner(h) ==
  /\ at[h].pc = "open" /\ ~Waits(h) /\ at[h].plan.inside > 0
  /\ Borrow(h)
  /\ at' = [at EXCEPT ![h].pc = "inner", ![h].plan.inside = @ - 1]
  /\ UNCHANGED probe

EndInner(h) ==
  /\ at[h].pc = "inner" /\ ~Waits(h)
  /\ GiveBack
  /\ Go(h, "open")
  /\ UNCHANGED probe

(* Mutant: a transaction that fails does not release its client.           *)
CloseLeaking(h) ==
  /\ at[h].pc = "open" /\ ~Waits(h)
  /\ IF at[h].plan.inside > 0 THEN UNCHANGED <<idle, queue>> ELSE GiveBack
  /\ at' = [at EXCEPT ![h] = Off]
  /\ UNCHANGED probe

(* Mutant: the error path releases as well as the finally block.           *)
CloseTwice(h) ==
  /\ at[h].pc = "open" /\ ~Waits(h)
  /\ idle' = idle + 2 /\ UNCHANGED queue
  /\ at' = [at EXCEPT ![h] = Off]
  /\ UNCHANGED probe

(* COMMIT after the work, or ROLLBACK after an error anywhere in it; the   *)
(* client is released on both paths.                                       *)
Close(h) ==
  /\ at[h].pc = "open" /\ ~Waits(h)
  /\ GiveBack
  /\ at' = [at EXCEPT ![h] = Off]
  /\ UNCHANGED probe

-----------------------------------------------------------------------------
(* The readiness probe.                                                    *)

StartProbe(p) ==
  /\ probe[p] = "off"
  /\ Borrow(p)
  /\ probe' = [probe EXCEPT ![p] = "racing"]
  /\ UNCHANGED at

(* The query returns: READY when the timer has not fired, and no news to   *)
(* anybody when it has.                                                    *)
EndProbe(p) ==
  /\ probe[p] \in {"racing", "late"} /\ ~Waits(p)
  /\ GiveBack
  /\ probe' = [probe EXCEPT ![p] = "off"]
  /\ UNCHANGED at

(* Mutant: the timer runs from the start of the query.                     *)
TimeoutOfQuery(p) ==
  /\ probe[p] = "racing" /\ ~Waits(p)
  /\ probe' = [probe EXCEPT ![p] = "late"]
  /\ UNCHANGED <<idle, queue, at>>

(* The timer fires: NOT_READY is answered, the query stays where it is.    *)
Timeout(p) ==
  /\ probe[p] = "racing"
  /\ probe' = [probe EXCEPT ![p] = "late"]
  /\ UNCHANGED <<idle, queue, at>>

-----------------------------------------------------------------------------

Proceed(h) ==
  \/ StartRead(h) \/ EndRead(h) \/ Answer(h)
  \/ Connect(h) \/ StartInner(h) \/ EndInner(h) \/ Close(h)

Next ==
  \/ \E h \in Calls : Proceed(h) \/ \E plan \in Plans : Receive(h, plan)
  \/ \E p \in Probes : StartProbe(p) \/ EndProbe(p) \/ Timeout(p)

Spec == Init /\ [][Next]_vars

(* The event loop runs every callback that is due, queries end, and timers *)
(* fire.                                                                   *)
FairSpec ==
  /\ Spec
  /\ \A h \in Calls : WF_vars(Proceed(h))
  /\ \A p \in Probes : WF_vars(EndProbe(p)) /\ WF_vars(Timeout(p))

-----------------------------------------------------------------------------

TypeOK ==
  /\ idle \in 0 .. PoolSize
  /\ queue \in Seq(Calls \cup Probes)
  /\ at \in [Calls -> [pc : Phases, plan : PlanType]]
  /\ probe \in [Probes -> {"off", "racing", "late"}]

(* Those with a transaction's client, and those with the client of a       *)
(* single query.                                                           *)
TxHolders ==
  {h \in Calls : at[h].pc = "inner" \/ (at[h].pc = "open" /\ ~Waits(h))}

QueryHolders ==
  {h \in Calls : at[h].pc \in {"reading", "inner"} /\ ~Waits(h)}
    \cup {p \in Probes : probe[p] # "off" /\ ~Waits(p)}

(* No client is leaked or lent twice, on any path of withTransaction, and  *)
(* none lies idle while someone waits for one.                             *)
ClientsAccounted ==
  /\ idle + Cardinality(TxHolders) + Cardinality(QueryHolders) = PoolSize
  /\ queue # <<>> => idle = 0

(* Every client is a transaction's that waits for a second one.            *)
Standstill == Cardinality({h \in TxHolders : Waits(h)}) = PoolSize

(* Nothing but a standstill of the whole pool keeps a transaction from     *)
(* ending and giving its client back: no path of the handlers, the probe   *)
(* or the queue loses a client or the turn of who waits for one.           *)
ReleasesOrStandstill ==
  \A h \in Calls :
    at[h].pc \in {"open", "inner"} ~> at[h].pc = "off" \/ Standstill

(* withTransaction "always releases": whoever asks for a transaction's     *)
(* client has given it back in the end.                                    *)
AlwaysReleases ==
  \A h \in Calls : at[h].pc \in {"open", "inner"} ~> at[h].pc = "off"

(* A hung pool does not hang the probe: it is always answered.             *)
ProbeAnswered == \A p \in Probes : probe[p] = "racing" ~> probe[p] # "racing"
=============================================================================
