------------------------- MODULE ConnectionPoolProofs -------------------------
(***************************************************************************)
(* Proofs about ConnectionPool, for any number of calls, probes and        *)
(* clients: every client is idle or lent to exactly one of those who have  *)
(* asked for one, and the pool keeps none back while somebody waits.       *)
(***************************************************************************)
EXTENDS ConnectionPool, FiniteSetTheorems, SequenceTheorems, TLAPS

Askers == Calls \cup Probes

Waiters == {w \in Askers : Waits(w)}

(* Who has a client when those in W wait for theirs.                       *)
TxIn(calls, W) ==
  {h \in Calls : calls[h].pc = "inner" \/ (calls[h].pc = "open" /\ h \notin W)}

QueryIn(calls, probes, W) ==
  {h \in Calls : calls[h].pc \in {"reading", "inner"} /\ h \notin W}
    \cup {p \in Probes : probes[p] # "off" /\ p \notin W}

Lent(calls, probes, W) ==
  Cardinality(TxIn(calls, W)) + Cardinality(QueryIn(calls, probes, W))

(* Who has asked for a client and has not given it back.                   *)
Asked(calls, probes, x) ==
  \/ x \in Calls /\ calls[x].pc \in {"reading", "open", "inner"}
  \/ x \in Probes /\ probes[x] # "off"

(* Nobody waits twice, and whoever waits has asked.                        *)
QueueInOrder ==
  /\ \A i, j \in 1 .. Len(queue) : queue[i] = queue[j] => i = j
  /\ \A w \in Waiters : Asked(at, probe, w)

Accounted == idle + Lent(at, probe, Waiters) = PoolSize

Typed ==
  /\ idle \in Nat
  /\ queue \in Seq(Askers)
  /\ at \in [Calls -> [pc : Phases, plan : PlanType]]
  /\ probe \in [Probes -> {"off", "racing", "late"}]

PoolInv ==
  /\ Typed
  /\ QueueInOrder
  /\ Accounted
  /\ queue # <<>> => idle = 0

-----------------------------------------------------------------------------
(* One client more.                                                        *)

LEMMA LentFinite ==
  ASSUME NEW calls, NEW probes, NEW W
  PROVE  /\ IsFiniteSet(TxIn(calls, W))
         /\ IsFiniteSet(QueryIn(calls, probes, W))
         /\ Lent(calls, probes, W) \in Nat
<1>1. IsFiniteSet(Calls) /\ IsFiniteSet(Calls \cup Probes)
  BY PoolAssumption, FS_Union
<1>2. TxIn(calls, W) \subseteq Calls
  BY DEF TxIn
<1>3. QueryIn(calls, probes, W) \subseteq Calls \cup Probes
  BY DEF QueryIn
<1>4. IsFiniteSet(TxIn(calls, W)) /\ IsFiniteSet(QueryIn(calls, probes, W))
  BY <1>1, <1>2, <1>3, FS_Subset
<1>5. QED
  BY <1>4, FS_CardinalityType DEF Lent

(* Whoever stops waiting has one client more.                              *)
LEMMA HandOver ==
  ASSUME NEW calls, NEW probes, NEW W, NEW w \in W, Asked(calls, probes, w)
  PROVE  Lent(calls, probes, W \ {w}) = Lent(calls, probes, W) + 1
<1>0. /\ Cardinality(TxIn(calls, W)) \in Nat
      /\ Cardinality(QueryIn(calls, probes, W)) \in Nat
  BY LentFinite, FS_CardinalityType
<1>1. CASE w \in Calls /\ calls[w].pc = "open"
  <2>1. /\ TxIn(calls, W \ {w}) = TxIn(calls, W) \cup {w}
        /\ w \notin TxIn(calls, W)
    BY <1>1 DEF TxIn
  <2>2. QueryIn(calls, probes, W \ {w}) = QueryIn(calls, probes, W)
    BY <1>1, PoolAssumption DEF QueryIn
  <2>3. Cardinality(TxIn(calls, W \ {w})) = Cardinality(TxIn(calls, W)) + 1
    BY <2>1, LentFinite, FS_AddElement
  <2>4. QED
    BY <1>0, <2>2, <2>3 DEF Lent
<1>2. CASE ~(w \in Calls /\ calls[w].pc = "open")
  <2>1. TxIn(calls, W \ {w}) = TxIn(calls, W)
    BY <1>2 DEF TxIn
  <2>2. /\ QueryIn(calls, probes, W \ {w}) = QueryIn(calls, probes, W) \cup {w}
        /\ w \notin QueryIn(calls, probes, W)
    BY <1>2 DEF QueryIn, Asked
  <2>3. Cardinality(QueryIn(calls, probes, W \ {w}))
          = Cardinality(QueryIn(calls, probes, W)) + 1
    BY <2>2, LentFinite, FS_AddElement
  <2>4. QED
    BY <1>0, <2>1, <2>3 DEF Lent
<1>3. QED
  BY <1>1, <1>2

(* The queue after an append and after its head has been served.           *)
LEMMA Appended ==
  ASSUME PoolInv, NEW w \in Askers, ~Waits(w), queue' = Append(queue, w)
  PROVE  /\ Waiters' = Waiters \cup {w}
         /\ queue' \in Seq(Askers)
         /\ \A i, j \in 1 .. Len(queue') : queue'[i] = queue'[j] => i = j
<1>1. queue \in Seq(Askers)
  BY DEF PoolInv, Typed
<1>2. /\ queue' \in Seq(Askers) /\ Len(queue') = Len(queue) + 1
      /\ \A i \in 1 .. Len(queue) : queue'[i] = queue[i]
      /\ queue'[Len(queue) + 1] = w
      /\ DOMAIN queue = 1 .. Len(queue) /\ Len(queue) \in Nat
      /\ DOMAIN queue' = 1 .. Len(queue')
  BY <1>1, AppendProperties
<1>3. \A x \in Askers : Waits(x)' <=> Waits(x) \/ x = w
  BY <1>2 DEF Waits
<1>4. \A i \in 1 .. Len(queue) : queue[i] # w
  BY <1>2 DEF Waits
<1>5. QED
  BY <1>2, <1>3, <1>4 DEF Waiters, PoolInv, QueueInOrder

LEMMA Served ==
  ASSUME PoolInv, queue # <<>>, queue' = Tail(queue)
  PROVE  /\ Head(queue) \in Waiters
         /\ Waiters' = Waiters \ {Head(queue)}
         /\ queue' \in Seq(Askers)
         /\ \A i, j \in 1 .. Len(queue') : queue'[i] = queue'[j] => i = j
<1>1. queue \in Seq(Askers)
  BY DEF PoolInv, Typed
<1>2. /\ Head(queue) \in Askers /\ queue' \in Seq(Askers)
      /\ Len(queue') = Len(queue) - 1
      /\ \A i \in 1 .. Len(queue') : queue'[i] = queue[i + 1]
      /\ Head(queue) = queue[1] /\ Len(queue) \in Nat /\ Len(queue) > 0
      /\ DOMAIN queue = 1 .. Len(queue) /\ DOMAIN queue' = 1 .. Len(queue')
  BY <1>1, HeadTailProperties
<1>3. \A i, j \in 1 .. Len(queue) : queue[i] = queue[j] => i = j
  BY DEF PoolInv, QueueInOrder
<1>4. ASSUME NEW x \in Askers
      PROVE  Waits(x)' <=> Waits(x) /\ x # Head(queue)
  <2>1. ASSUME Waits(x)' PROVE Waits(x) /\ x # Head(queue)
    BY <1>2, <1>3, <2>1 DEF Waits
  <2>2. ASSUME Waits(x), x # Head(queue) PROVE Waits(x)'
    <3>1. PICK i \in 1 .. Len(queue) : queue[i] = x
      BY <1>2, <2>2 DEF Waits
    <3>2. i - 1 \in 1 .. Len(queue') /\ queue'[i - 1] = x
      BY <1>2, <2>2, <3>1
    <3>3. QED
      BY <1>2, <3>2 DEF Waits
  <2>3. QED
    BY <2>1, <2>2
<1>5. Head(queue) \in Waiters
  BY <1>2 DEF Waiters, Waits
<1>6. Waiters' = Waiters \ {Head(queue)}
  BY <1>4 DEF Waiters
<1>7. QED
  BY <1>2, <1>3, <1>5, <1>6

(* x, who does not wait, has got one client more.                          *)
TakesOne(calls, probes, calls2, probes2, x) ==
  /\ \A h \in Calls : h # x => calls2[h].pc = calls[h].pc
  /\ \A p \in Probes : p # x => probes2[p] = probes[p]
  /\ \/ /\ x \in Calls /\ calls[x].pc \in {"off", "ready"}
        /\ calls2[x].pc \in {"reading", "open"}
     \/ x \in Calls /\ calls[x].pc = "open" /\ calls2[x].pc = "inner"
     \/ x \in Probes /\ probes[x] = "off" /\ probes2[x] # "off"

LEMMA TakesCount ==
  ASSUME NEW calls, NEW probes, NEW calls2, NEW probes2, NEW W,
         NEW x, x \notin W, TakesOne(calls, probes, calls2, probes2, x)
  PROVE  Lent(calls2, probes2, W) = Lent(calls, probes, W) + 1
<1>0. /\ Cardinality(TxIn(calls, W)) \in Nat
      /\ Cardinality(QueryIn(calls, probes, W)) \in Nat
  BY LentFinite, FS_CardinalityType
<1>1. CASE /\ x \in Calls /\ calls[x].pc \in {"off", "ready"}
           /\ calls2[x].pc = "open"
  <2>1. /\ TxIn(calls2, W) = TxIn(calls, W) \cup {x}
        /\ x \notin TxIn(calls, W)
    BY <1>1 DEF TakesOne, TxIn
  <2>2. QueryIn(calls2, probes2, W) = QueryIn(calls, probes, W)
    BY <1>1, PoolAssumption DEF TakesOne, QueryIn
  <2>3. Cardinality(TxIn(calls2, W)) = Cardinality(TxIn(calls, W)) + 1
    BY <2>1, LentFinite, FS_AddElement
  <2>4. QED
    BY <1>0, <2>2, <2>3 DEF Lent
<1>2. CASE ~ (/\ x \in Calls /\ calls[x].pc \in {"off", "ready"}
              /\ calls2[x].pc = "open")
  <2>1. TxIn(calls2, W) = TxIn(calls, W)
    BY <1>2, PoolAssumption DEF TakesOne, TxIn
  <2>2. /\ QueryIn(calls2, probes2, W) = QueryIn(calls, probes, W) \cup {x}
        /\ x \notin QueryIn(calls, probes, W)
    BY <1>2, PoolAssumption DEF TakesOne, QueryIn
  <2>3. Cardinality(QueryIn(calls2, probes2, W))
          = Cardinality(QueryIn(calls, probes, W)) + 1
    BY <2>2, LentFinite, FS_AddElement
  <2>4. QED
    BY <1>0, <2>1, <2>3 DEF Lent
<1>3. QED
  BY <1>1, <1>2

-----------------------------------------------------------------------------
(* The steps.                                                              *)

StaysTyped ==
  /\ at \in [Calls -> [pc : Phases, plan : PlanType]]
  /\ probe \in [Probes -> {"off", "racing", "late"}]

(* A client is asked for: lent, or its asker queued while none is idle.    *)
LEMMA BorrowStep ==
  ASSUME PoolInv, StaysTyped', NEW x \in Askers, ~Waits(x), Borrow(x),
         TakesOne(at, probe, at', probe', x)
  PROVE  PoolInv'
<1>1. /\ Typed /\ QueueInOrder /\ Accounted /\ (queue # <<>> => idle = 0)
      /\ x \notin Waiters /\ PoolSize \in Nat
  BY PoolAssumption DEF PoolInv, Waiters
<1>2. /\ Lent(at', probe', Waiters) = Lent(at, probe, Waiters) + 1
      /\ Lent(at, probe, Waiters) \in Nat
  BY <1>1, TakesCount, LentFinite
<1>3. \A w \in Waiters \cup {x} : Asked(at', probe', w)
  BY <1>1, PoolAssumption DEF QueueInOrder, Asked, TakesOne, Waiters, Askers
<1>4. CASE idle > 0
  <2>1. idle' = idle - 1 /\ queue' = queue
    BY <1>4 DEF Borrow
  <2>2. Waiters' = Waiters
    BY <2>1 DEF Waiters, Waits
  <2>3. Accounted'
    BY <1>1, <1>2, <2>1, <2>2 DEF Accounted, Typed
  <2>4. QueueInOrder'
    BY <1>1, <1>3, <2>1, <2>2 DEF QueueInOrder
  <2>5. Typed'
    BY <1>1, <1>4, <2>1 DEF Typed, StaysTyped
  <2>6. QED
    BY <1>1, <1>4, <2>1, <2>3, <2>4, <2>5 DEF PoolInv
<1>5. CASE ~(idle > 0)
  <2>1. idle' = idle /\ idle = 0 /\ queue' = Append(queue, x)
    BY <1>1, <1>5 DEF Borrow, Typed
  <2>2. /\ Waiters' = Waiters \cup {x} /\ queue' \in Seq(Askers)
        /\ \A i, j \in 1 .. Len(queue') : queue'[i] = queue'[j] => i = j
    BY <2>1, Appended
  <2>3. Accounted'
    <3>1. (Waiters \cup {x}) \ {x} = Waiters /\ x \in Waiters \cup {x}
      BY <1>1
    <3>2. Lent(at', probe', Waiters) = Lent(at', probe', Waiters') + 1
      BY <1>3, <2>2, <3>1, HandOver
    <3>3. Lent(at', probe', Waiters') \in Nat
      BY LentFinite
    <3>4. QED
      BY <1>1, <1>2, <2>1, <3>2, <3>3 DEF Accounted
  <2>4. QueueInOrder'
    BY <1>3, <2>2 DEF QueueInOrder
  <2>5. Typed'
    BY <2>1, <2>2 DEF Typed, StaysTyped
  <2>6. QED
    BY <2>1, <2>3, <2>4, <2>5 DEF PoolInv
<1>6. QED
  BY <1>4, <1>5

(* A client comes back: to the first of the queue, or idle.                *)
LEMMA GiveBackStep ==
  ASSUME PoolInv, StaysTyped', NEW x \in Askers, ~Waits(x), GiveBack,
         TakesOne(at', probe', at, probe, x)
  PROVE  PoolInv'
<1>1. /\ Typed /\ QueueInOrder /\ Accounted /\ (queue # <<>> => idle = 0)
      /\ x \notin Waiters /\ PoolSize \in Nat
  BY PoolAssumption DEF PoolInv, Waiters
<1>2. /\ Lent(at, probe, Waiters) = Lent(at', probe', Waiters) + 1
      /\ Lent(at', probe', Waiters) \in Nat
  BY <1>1, TakesCount, LentFinite
<1>3. \A w \in Waiters : Asked(at', probe', w)
  BY <1>1, PoolAssumption DEF QueueInOrder, Asked, TakesOne, Waiters, Askers
<1>4. CASE queue = <<>>
  <2>1. idle' = idle + 1 /\ queue' = queue
    BY <1>4 DEF GiveBack
  <2>2. Waiters' = Waiters
    BY <2>1 DEF Waiters, Waits
  <2>3. Accounted'
    BY <1>1, <1>2, <2>1, <2>2 DEF Accounted, Typed
  <2>4. QueueInOrder'
    BY <1>1, <1>3, <2>1, <2>2 DEF QueueInOrder
  <2>5. Typed'
    BY <1>1, <2>1 DEF Typed, StaysTyped
  <2>6. QED
    BY <1>4, <2>1, <2>3, <2>4, <2>5 DEF PoolInv
<1>5. CASE queue # <<>>
  <2>1. idle' = idle /\ idle = 0 /\ queue' = Tail(queue)
    BY <1>1, <1>5 DEF GiveBack
  <2>2. /\ Head(queue) \in Waiters /\ Waiters' = Waiters \ {Head(queue)}
        /\ queue' \in Seq(Askers)
        /\ \A i, j \in 1 .. Len(queue') : queue'[i] = queue'[j] => i = j
    BY <1>5, <2>1, Served
  <2>3. Accounted'
    <3>1. Lent(at', probe', Waiters') = Lent(at', probe', Waiters) + 1
      BY <1>3, <2>2, HandOver
    <3>2. QED
      BY <1>1, <1>2, <2>1, <3>1 DEF Accounted
  <2>4. QueueInOrder'
    BY <1>3, <2>2 DEF QueueInOrder
  <2>5. Typed'
    BY <2>1, <2>2 DEF Typed, StaysTyped
  <2>6. QED
    BY <2>1, <2>3, <2>4, <2>5 DEF PoolInv
<1>6. QED
  BY <1>4, <1>5

(* A step that borrows and gives back nothing.                             *)
LEMMA QuietStep ==
  ASSUME PoolInv, StaysTyped', UNCHANGED <<idle, queue>>,
         \A h \in Calls :
           \/ at'[h].pc = at[h].pc
           \/ at[h].pc \in {"off", "ready"} /\ at'[h].pc \in {"off", "ready"},
         \A p \in Probes : probe'[p] # "off" <=> probe[p] # "off"
  PROVE  PoolInv'
<1>1. Waiters' = Waiters
  BY DEF Waiters, Waits
<1>2. TxIn(at', Waiters) = TxIn(at, Waiters)
  BY DEF TxIn
<1>3. QueryIn(at', probe', Waiters) = QueryIn(at, probe, Waiters)
  BY DEF QueryIn
<1>4. Accounted'
  BY <1>1, <1>2, <1>3 DEF PoolInv, Accounted, Lent
<1>5. QueueInOrder'
  <2>1. \A w \in Waiters : Asked(at, probe, w)
    BY DEF PoolInv, QueueInOrder
  <2>2. \A w \in Waiters : Asked(at', probe', w)
    BY <2>1, PoolAssumption DEF Asked
  <2>3. QED
    BY <1>1, <2>2 DEF PoolInv, QueueInOrder
<1>6. QED
  BY <1>4, <1>5 DEF PoolInv, Typed, StaysTyped

LEMMA PlanTypes == Plans \subseteq PlanType
<1>1. \A n \in Nat : Reads(n) \in PlanType
  BY DEF Reads, PlanType
<1>2. \A n, m \in Nat : Transaction(n, m) \in PlanType
  BY DEF Transaction, PlanType
<1>3. /\ CreatePlans \subseteq PlanType /\ SubmitPlans \subseteq PlanType
      /\ DecidePlans \subseteq PlanType /\ CancelPlans \subseteq PlanType
      /\ OpenPlans \subseteq PlanType /\ CarryPlans \subseteq PlanType
  BY <1>2 DEF CreatePlans, SubmitPlans, DecidePlans, CancelPlans, OpenPlans,
              CarryPlans
<1>4. /\ ListPlans \subseteq PlanType /\ DetailPlans \subseteq PlanType
      /\ HistoryPlans \subseteq PlanType /\ ProfilePlans \subseteq PlanType
      /\ LoginPlans \subseteq PlanType /\ CreationPlans \subseteq PlanType
  BY <1>1 DEF ListPlans, DetailPlans, HistoryPlans, ProfilePlans, LoginPlans,
              CreationPlans
<1>5. BalancePlans \subseteq PlanType
  <2>1. \A n \in 0 .. LeaveTypes : 2 + n \in Nat
    BY PoolAssumption
  <2>2. QED
    BY <1>1, <2>1 DEF BalancePlans
<1>6. QED
  BY <1>3, <1>4, <1>5 DEF Plans

(* The handlers' steps that ask for a client, and those that return one.   *)
LEMMA CallStep ==
  ASSUME PoolInv, NEW h \in Calls, Proceed(h)
  PROVE  PoolInv'
<1>1. /\ at \in [Calls -> [pc : Phases, plan : PlanType]]
      /\ probe \in [Probes -> {"off", "racing", "late"}]
      /\ h \in Askers
  BY DEF PoolInv, Typed, Askers
<1>2. \A w \in Waiters : Asked(at, probe, w)
  BY DEF PoolInv, QueueInOrder
<1>3. at[h].pc = "ready" => ~Waits(h)
  BY <1>1, <1>2, PoolAssumption DEF Waiters, Asked
<1>4. CASE StartRead(h)
  <2>1. /\ at'[h].pc = "reading" /\ \A g \in Calls : g # h => at'[g] = at[g]
        /\ at[h].pc = "ready" /\ probe' = probe /\ Borrow(h)
        /\ at' \in [Calls -> [pc : Phases, plan : PlanType]]
    BY <1>1, <1>4 DEF StartRead, Phases, PlanType
  <2>2. QED
    BY <1>1, <1>3, <2>1, BorrowStep DEF TakesOne, StaysTyped
<1>5. CASE EndRead(h)
  <2>1. /\ at'[h].pc = "ready" /\ \A g \in Calls : g # h => at'[g] = at[g]
        /\ at[h].pc = "reading" /\ probe' = probe /\ GiveBack /\ ~Waits(h)
        /\ at' \in [Calls -> [pc : Phases, plan : PlanType]]
    BY <1>1, <1>5 DEF EndRead, Go, Phases, PlanType
  <2>2. QED
    BY <1>1, <2>1, GiveBackStep DEF TakesOne, StaysTyped
<1>6. CASE Answer(h)
  <2>1. /\ at[h].pc = "ready" /\ at'[h].pc = "off"
        /\ \A g \in Calls : g # h => at'[g] = at[g]
        /\ UNCHANGED <<idle, queue, probe>>
        /\ at' \in [Calls -> [pc : Phases, plan : PlanType]]
    BY <1>1, <1>6 DEF Answer, Off, Phases, PlanType
  <2>2. QED
    BY <1>1, <2>1, QuietStep DEF StaysTyped
<1>7. CASE Connect(h)
  <2>1. /\ at'[h].pc = "open" /\ \A g \in Calls : g # h => at'[g] = at[g]
        /\ at[h].pc = "ready" /\ probe' = probe /\ Borrow(h)
        /\ at' \in [Calls -> [pc : Phases, plan : PlanType]]
    BY <1>1, <1>7 DEF Connect, Go, Phases, PlanType
  <2>2. QED
    BY <1>1, <1>3, <2>1, BorrowStep DEF TakesOne, StaysTyped
<1>8. CASE StartInner(h)
  <2>1. /\ at'[h].pc = "inner" /\ \A g \in Calls : g # h => at'[g] = at[g]
        /\ at[h].pc = "open" /\ probe' = probe /\ Borrow(h) /\ ~Waits(h)
        /\ at' \in [Calls -> [pc : Phases, plan : PlanType]]
    BY <1>1, <1>8 DEF StartInner, Phases, PlanType
  <2>2. QED
    BY <1>1, <2>1, BorrowStep DEF TakesOne, StaysTyped
<1>9. CASE EndInner(h)
  <2>1. /\ at'[h].pc = "open" /\ \A g \in Calls : g # h => at'[g] = at[g]
        /\ at[h].pc = "inner" /\ probe' = probe /\ GiveBack /\ ~Waits(h)
        /\ at' \in [Calls -> [pc : Phases, plan : PlanType]]
    BY <1>1, <1>9 DEF EndInner, Go, Phases, PlanType
  <2>2. QED
    BY <1>1, <2>1, GiveBackStep DEF TakesOne, StaysTyped
<1>10. CASE Close(h)
  <2>1. /\ at'[h].pc = "off" /\ \A g \in Calls : g # h => at'[g] = at[g]
        /\ at[h].pc = "open" /\ probe' = probe /\ GiveBack /\ ~Waits(h)
        /\ at' \in [Calls -> [pc : Phases, plan : PlanType]]
    BY <1>1, <1>10 DEF Close, Off, Phases, PlanType
  <2>2. QED
    BY <1>1, <2>1, GiveBackStep DEF TakesOne, StaysTyped
<1>11. QED
  BY <1>4, <1>5, <1>6, <1>7, <1>8, <1>9, <1>10 DEF Proceed

LEMMA ReceiveStep ==
  ASSUME PoolInv, NEW h \in Calls, NEW plan \in Plans, Receive(h, plan)
  PROVE  PoolInv'
<1>1. /\ at[h].pc = "off" /\ at'[h].pc = "ready"
      /\ \A g \in Calls : g # h => at'[g] = at[g]
      /\ UNCHANGED <<idle, queue, probe>>
      /\ at' \in [Calls -> [pc : Phases, plan : PlanType]]
  BY PlanTypes DEF Receive, PoolInv, Typed, Phases
<1>2. QED
  BY <1>1, QuietStep DEF StaysTyped, PoolInv, Typed

LEMMA ProbeStep ==
  ASSUME PoolInv, NEW p \in Probes, StartProbe(p) \/ EndProbe(p) \/ Timeout(p)
  PROVE  PoolInv'
<1>1. /\ at \in [Calls -> [pc : Phases, plan : PlanType]]
      /\ probe \in [Probes -> {"off", "racing", "late"}]
      /\ p \in Askers /\ at' = at
  BY DEF PoolInv, Typed, Askers, StartProbe, EndProbe, Timeout
<1>2. CASE StartProbe(p)
  <2>1. ~Waits(p)
    BY <1>1, <1>2, PoolAssumption
       DEF PoolInv, QueueInOrder, Waiters, Asked, StartProbe
  <2>2. /\ probe[p] = "off" /\ probe'[p] = "racing" /\ Borrow(p)
        /\ \A q \in Probes : q # p => probe'[q] = probe[q]
        /\ probe' \in [Probes -> {"off", "racing", "late"}]
    BY <1>1, <1>2 DEF StartProbe
  <2>3. QED
    BY <1>1, <2>1, <2>2, BorrowStep DEF TakesOne, StaysTyped
<1>3. CASE EndProbe(p)
  <2>1. /\ probe[p] # "off" /\ probe'[p] = "off" /\ GiveBack /\ ~Waits(p)
        /\ \A q \in Probes : q # p => probe'[q] = probe[q]
        /\ probe' \in [Probes -> {"off", "racing", "late"}]
    BY <1>1, <1>3 DEF EndProbe
  <2>2. QED
    BY <1>1, <2>1, GiveBackStep DEF TakesOne, StaysTyped
<1>4. CASE Timeout(p)
  <2>1. /\ \A q \in Probes : probe'[q] # "off" <=> probe[q] # "off"
        /\ probe' \in [Probes -> {"off", "racing", "late"}]
        /\ UNCHANGED <<idle, queue>>
    BY <1>1, <1>4 DEF Timeout
  <2>2. QED
    BY <1>1, <2>1, QuietStep DEF StaysTyped
<1>5. QED
  BY <1>2, <1>3, <1>4

LEMMA PoolInit == Init => PoolInv
<1> SUFFICES ASSUME Init PROVE PoolInv
  OBVIOUS
<1>1. Typed
  BY PoolAssumption DEF Init, Typed, Off, Phases, PlanType
<1>2. Waiters = {} /\ QueueInOrder
  BY DEF Init, Waiters, Waits, QueueInOrder
<1>3. TxIn(at, Waiters) = {} /\ QueryIn(at, probe, Waiters) = {}
  BY DEF Init, TxIn, QueryIn, Off
<1>4. Accounted
  <2>1. Cardinality({}) = 0
    BY FS_EmptySet
  <2>2. Lent(at, probe, Waiters) = 0 + 0
    BY <1>3, <2>1 DEF Lent
  <2>3. QED
    BY <2>2, PoolAssumption DEF Init, Accounted
<1>5. QED
  BY <1>1, <1>2, <1>4 DEF PoolInv, Init

LEMMA PoolStep == PoolInv /\ [Next]_vars => PoolInv'
<1> SUFFICES ASSUME PoolInv, [Next]_vars PROVE PoolInv'
  OBVIOUS
<1>1. CASE Next
  BY <1>1, CallStep, ReceiveStep, ProbeStep DEF Next
<1>2. CASE UNCHANGED vars
  BY <1>2, QuietStep DEF vars, StaysTyped, PoolInv, Typed
<1>3. QED
  BY <1>1, <1>2

(* The pool's own numbers, its queue and the phases have their types: in   *)
(* particular the pool never holds more clients than it was given.         *)
THEOREM TypeCorrect == Spec => []TypeOK
<1>1. PoolInv => TypeOK
  <2>1. Lent(at, probe, Waiters) \in Nat
    BY LentFinite
  <2>2. QED
    BY <2>1, PoolAssumption DEF PoolInv, Typed, Accounted, TypeOK, Askers
<1>2. QED
  BY <1>1, PoolInit, PoolStep, PTL DEF Spec

(* No client is leaked or lent twice, on any path of withTransaction, and  *)
(* none is idle while somebody waits: for any pool and any number of calls.*)
THEOREM ClientsNeverLost == Spec => []ClientsAccounted
<1>1. PoolInv => ClientsAccounted
  <2>1. ASSUME PoolInv
        PROVE  /\ TxHolders = TxIn(at, Waiters)
               /\ QueryHolders = QueryIn(at, probe, Waiters)
    BY DEF TxHolders, QueryHolders, TxIn, QueryIn, Waiters, Askers
  <2>2. ASSUME PoolInv PROVE ClientsAccounted
    <3>1. /\ Cardinality(TxHolders) \in Nat /\ Cardinality(QueryHolders) \in Nat
      BY <2>1, <2>2, LentFinite, FS_CardinalityType
    <3>2. QED
      BY <2>1, <2>2, <3>1 DEF ClientsAccounted, PoolInv, Typed, Accounted, Lent
  <2>3. QED
    BY <2>2
<1>2. QED
  BY <1>1, PoolInit, PoolStep, PTL DEF Spec

(* Those whose query is under way or whose transaction is not waiting: the *)
(* client of each is due to be given back.                                 *)
Returning ==
  {h \in Calls : at[h].pc \in {"reading", "open", "inner"} /\ ~Waits(h)}
    \cup {p \in Probes : probe[p] # "off" /\ ~Waits(p)}

(* The pool stops serving its queue only in a standstill, every client with*)
(* a transaction that waits for a second one: nothing else that the calls  *)
(* and the probes do to the pool can leave somebody waiting for ever.      *)
THEOREM OnlyStandstillBlocks ==
  Spec => [](queue # <<>> /\ Returning = {} => Standstill)
<1>1. ClientsAccounted => (queue # <<>> /\ Returning = {} => Standstill)
  <2> SUFFICES ASSUME ClientsAccounted, queue # <<>>, Returning = {}
               PROVE  Standstill
    OBVIOUS
  <2>1. QueryHolders = {}
    BY DEF QueryHolders, Returning
  <2>2. {h \in TxHolders : Waits(h)} = TxHolders
    BY DEF TxHolders, Returning
  <2>3. Cardinality(TxHolders) \in Nat
    <3>1. TxHolders \in SUBSET Calls
      BY DEF TxHolders
    <3>2. QED
      BY <3>1, PoolAssumption, FS_Subset, FS_CardinalityType
  <2>4. Cardinality(QueryHolders) = 0
    BY <2>1, FS_EmptySet
  <2>5. idle = 0 /\ Cardinality(TxHolders) = PoolSize
    BY <2>3, <2>4, PoolAssumption DEF ClientsAccounted
  <2>6. QED
    BY <2>2, <2>5 DEF Standstill
<1>2. QED
  BY <1>1, ClientsNeverLost, PTL

(* Fewer calls at once than the pool has clients never stand still: some   *)
(* client is always due to be given back to those who wait.                *)
THEOREM FewCallsGoOn ==
  Cardinality(Calls) < PoolSize =>
    (Spec => [](queue # <<>> => Returning # {}))
<1> SUFFICES ASSUME Cardinality(Calls) < PoolSize
             PROVE  Spec => [](queue # <<>> => Returning # {})
  OBVIOUS
<1>1. ~Standstill
  <2>1. PICK waiting : waiting = {h \in TxHolders : Waits(h)}
    OBVIOUS
  <2>2. waiting \in SUBSET Calls
    BY <2>1 DEF TxHolders
  <2>3. /\ Cardinality(waiting) \in Nat /\ Cardinality(Calls) \in Nat
        /\ Cardinality(waiting) <= Cardinality(Calls)
    BY <2>2, PoolAssumption, FS_Subset, FS_CardinalityType
  <2>4. QED
    BY <2>1, <2>3, PoolAssumption DEF Standstill
<1>2. (queue # <<>> /\ Returning = {} => Standstill)
        => (queue # <<>> => Returning # {})
  BY <1>1
<1>3. QED
  BY <1>2, OnlyStandstillBlocks, PTL
=============================================================================
