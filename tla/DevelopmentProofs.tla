-------------------------- MODULE DevelopmentProofs --------------------------
(***************************************************************************)
(* Proofs about the tools of development.  DevRunner, for any number of    *)
(* children: what survives the runner and what its exit code says, whatever*)
(* order events come in.  SeedData, for any rows in any order that has the *)
(* requests before their balance: what a seed leaves, wherever it is cut   *)
(* off and however often it is run again.                                  *)
(***************************************************************************)
EXTENDS DevRunner, SeedData, TLAPS

(* Before the first handler of an event nobody was signalled and every end *)
(* is still to be handled; a runner that is being torn down will not       *)
(* report success.                                                         *)
Teardowns ==
  /\ ~shuttingDown =>
       /\ forceTimer = "off" /\ runner = "up"
       /\ \A c \in Children : told[c] = {} /\ (proc[c] # "up" => c \in event)
  /\ shuttingDown /\ runner = "up" => exitCode \notin {0, None}

RunnerInv ==
  /\ TypeOK
  /\ Teardowns
  /\ LeavesNoStray
  /\ ZeroMeansFinished

LEMMA RunnerInit == Init => RunnerInv
<1> SUFFICES ASSUME Init PROVE RunnerInv
  OBVIOUS
<1>1. TypeOK
  BY DEF Init, TypeOK
<1>2. Teardowns /\ LeavesNoStray /\ ZeroMeansFinished
  BY DEF Init, Teardowns, LeavesNoStray, ZeroMeansFinished
<1>3. QED
  BY <1>1, <1>2 DEF RunnerInv

(* A child ends: it leaves an event to handle, and the program as it is.   *)
LEMMA EndedStep ==
  ASSUME RunnerInv, NEW c \in Children, NEW how \in ExitCodes \cup {None},
         Ended(c, how)
  PROVE  RunnerInv'
<1>1. /\ proc[c] = "up" /\ proc' = [proc EXCEPT ![c] = "ended"]
      /\ code' = [code EXCEPT ![c] = how] /\ event' = event \cup {c}
      /\ orphan' \subseteq orphan \cup {c}
      /\ told' = told /\ UNCHANGED program
  BY DEF Ended
<1>2. TypeOK'
  BY <1>1 DEF RunnerInv, TypeOK, program
<1>3. \A d \in Children : proc[d] = "ended" =>
         proc'[d] = "ended" /\ code'[d] = code[d]
  BY <1>1 DEF RunnerInv, TypeOK
<1>4. \A d \in Children : proc'[d] = "up" => proc[d] = "up"
  BY <1>1 DEF RunnerInv, TypeOK
<1>5. Teardowns'
  BY <1>1 DEF RunnerInv, TypeOK, Teardowns, program
<1>6. LeavesNoStray' /\ ZeroMeansFinished'
  BY <1>1, <1>3, <1>4 DEF RunnerInv, LeavesNoStray, ZeroMeansFinished, program
<1>7. QED
  BY <1>2, <1>5, <1>6 DEF RunnerInv

LEMMA KillTypes ==
  ASSUME TypeOK, NEW targets, NEW signal \in Signals, Kill(targets, signal)
  PROVE  /\ told' \in [Children -> SUBSET Signals]
         /\ \A c \in Children :
              /\ proc[c] # "up" => told'[c] = told[c]
              /\ proc[c] = "up" /\ c \in targets => signal \in told'[c]
BY DEF Kill, TypeOK

(* Signals, failed spawns and the timer, which leave the runner up.        *)
LEMMA HandlerStep ==
  ASSUME RunnerInv, NEW c \in Children, NEW number \in {SIGINT, SIGTERM},
         OnSignal(number) \/ OnError(c) \/ ForceKill
  PROVE  RunnerInv'
<1>1. told' \in [Children -> SUBSET Signals]
  BY KillTypes DEF OnSignal, OnError, ForceKill, Teardown, RunnerInv, TypeOK,
                   Signals
<1>2. TypeOK'
  BY <1>1 DEF OnSignal, OnError, ForceKill, Teardown, RunnerInv, TypeOK,
              ExitCodes, SIGINT, SIGTERM
<1>3. runner = "up" /\ runner' = "up" /\ shuttingDown'
  BY DEF OnSignal, OnError, ForceKill, Teardown, RunnerInv, Teardowns
<1>4. exitCode' \notin {0, None}
  BY ChildrenAssumption
     DEF OnSignal, OnError, ForceKill, RunnerInv, Teardowns, SIGINT, SIGTERM
<1>5. QED
  BY <1>2, <1>3, <1>4 DEF RunnerInv, Teardowns, LeavesNoStray, ZeroMeansFinished

(* The exit of a child: the first one ends the runner.                     *)
LEMMA ExitStep ==
  ASSUME RunnerInv, NEW c \in Children, OnExit(c)
  PROVE  RunnerInv'
<1>1. /\ runner = "up" /\ c \in event /\ proc[c] = "ended"
      /\ event' = event \ {c} /\ children' = children \ {c}
      /\ UNCHANGED <<proc, code, orphan, forceTimer>>
  BY DEF OnExit
<1>2. CASE shuttingDown
  <2>1. UNCHANGED <<told, shuttingDown, exitCode, runner>>
    BY <1>2 DEF OnExit
  <2>2. QED
    BY <1>1, <1>2, <2>1 DEF RunnerInv, TypeOK, Teardowns, LeavesNoStray,
                            ZeroMeansFinished
<1>3. CASE ~shuttingDown
  <2>1. /\ shuttingDown' = TRUE /\ runner' = "down"
        /\ Kill(children', "SIGTERM")
        /\ exitCode' = IF code[c] = None THEN 1 ELSE code[c]
    BY <1>3 DEF OnExit
  <2>2. PICK targets : targets = children \ {c}
    OBVIOUS
  <2>3. /\ told' \in [Children -> SUBSET Signals]
        /\ \A d \in Children :
             /\ proc[d] # "up" => told'[d] = told[d]
             /\ proc[d] = "up" /\ d \in targets => "SIGTERM" \in told'[d]
    BY <1>1, <2>1, <2>2, KillTypes DEF RunnerInv, Signals
  <2>4. TypeOK'
    BY <1>1, <2>1, <2>3 DEF RunnerInv, TypeOK, ExitCodes
  <2>5. LeavesNoStray'
    BY <1>1, <1>3, <2>2, <2>3
       DEF RunnerInv, TypeOK, Teardowns, LeavesNoStray
  <2>6. ZeroMeansFinished'
    BY <1>1, <1>3, <2>1, <2>3, ChildrenAssumption
       DEF RunnerInv, TypeOK, Teardowns, ZeroMeansFinished, ExitCodes
  <2>7. QED
    BY <2>1, <2>4, <2>5, <2>6 DEF RunnerInv, Teardowns
<1>4. QED
  BY <1>2, <1>3

LEMMA RunnerStep == RunnerInv /\ [Next]_vars => RunnerInv'
<1> SUFFICES ASSUME RunnerInv, [Next]_vars PROVE RunnerInv'
  OBVIOUS
<1>1. ASSUME NEW c \in Children, ChildEnds(c) \/ KillTakes(c)
      PROVE  RunnerInv'
  BY <1>1, EndedStep DEF ChildEnds, KillTakes
<1>2. ASSUME NEW c \in Children, OnError(c) PROVE RunnerInv'
  BY <1>2, HandlerStep
<1>3. ASSUME NEW c \in Children, OnExit(c) PROVE RunnerInv'
  BY <1>3, ExitStep
<1>4. CASE OnSignal(SIGINT) \/ OnSignal(SIGTERM) \/ ForceKill
  BY <1>4, ChildrenAssumption, HandlerStep
<1>5. ASSUME NEW c \in Children, OrphanEnds(c) PROVE RunnerInv'
  BY <1>5 DEF OrphanEnds, program, RunnerInv, TypeOK, Teardowns,
              LeavesNoStray, ZeroMeansFinished
<1>6. CASE Drain
  <2>1. shuttingDown
    BY <1>6, ChildrenAssumption DEF Drain, RunnerInv, Teardowns
  <2>2. QED
    BY <1>6, <2>1 DEF Drain, processes, RunnerInv, TypeOK, Teardowns,
                      LeavesNoStray, ZeroMeansFinished
<1>7. CASE UNCHANGED vars
  BY <1>7 DEF vars, processes, program, RunnerInv, TypeOK, Teardowns,
              LeavesNoStray, ZeroMeansFinished
<1>8. QED
  BY <1>1, <1>2, <1>3, <1>4, <1>5, <1>6, <1>7 DEF Next

(* The Set of children lacks exactly those whose exit was handled, and the *)
(* flags, the timer and the exit code have their types.                    *)
THEOREM TypeCorrect == Spec => []TypeOK
<1>1. RunnerInv => TypeOK
  BY DEF RunnerInv
<1>2. QED
  BY <1>1, RunnerInit, RunnerStep, PTL DEF Spec

(* After a teardown no child outlives the runner, and a sibling that may   *)
(* still run after the end of a child has been asked to stop.              *)
THEOREM NoStrays == Spec => []LeavesNoStray
<1>1. RunnerInv => LeavesNoStray
  BY DEF RunnerInv
<1>2. QED
  BY <1>1, RunnerInit, RunnerStep, PTL DEF Spec

(* Exit code 0 is reported only for a child that ended by itself with 0.   *)
THEOREM ZeroIsFinished == Spec => []ZeroMeansFinished
<1>1. RunnerInv => ZeroMeansFinished
  BY DEF RunnerInv
<1>2. QED
  BY <1>1, RunnerInit, RunnerStep, PTL DEF Spec

-----------------------------------------------------------------------------
(* The demo seed: a run that has come to an insert has its earlier rows,   *)
(* each under the key it looks for; the rows every period shares have one  *)
(* key; and until the balance is there nobody decides the seeded request.  *)
SeedFits ==
  /\ run.pc = "inserting" =>
       /\ run.next <= Len(Order)
       /\ \A j \in 1 .. run.next - 1 : Seeded(Order[j])
  /\ \A id \in Ids \ Dated : row[id] \in {Absent, 0}
  /\ status[Taken] = IF row[Taken] = Absent THEN Absent ELSE "APPROVED"
  /\ row[Asked] = Absent => status[Asked] = Absent
  /\ row[Asked] # Absent => status[Asked] \in Statuses
  /\ row[Asked] # Absent /\ row[Account] = Absent => status[Asked] = "SUBMITTED"

SeedInv ==
  /\ SeedTypeOK
  /\ SeedFits
  /\ SeededBalanceAgrees
  /\ DoneIsSeeded
  /\ RefusedOverOlder

LEMMA SeedConstants ==
  /\ Len(Order) \in Nat /\ DOMAIN Order = 1 .. Len(Order) /\ Len(Order) >= 1
  /\ \A i \in 1 .. Len(Order) : Order[i] \in Ids
  /\ {Taken, Asked, Account} \subseteq Ids /\ {Taken, Asked, Account} \subseteq Dated
  /\ Taken # Asked /\ Account # Taken /\ Account # Asked
  /\ DaysOf[Taken] \in Nat /\ DaysOf[Asked] \in Nat
  /\ 0 \in Periods /\ Periods \subseteq Nat
  /\ Absent \notin Periods /\ Absent \notin Statuses
<1>1. /\ Len(Order) \in Nat /\ DOMAIN Order = 1 .. Len(Order)
      /\ \A i \in 1 .. Len(Order) : Order[i] \in Ids
  BY SeedAssumption
<1>2. /\ {Taken, Asked, Account} \subseteq Ids
      /\ {Taken, Asked, Account} \subseteq Dated
      /\ Taken # Asked /\ Account # Taken /\ Account # Asked
  BY SeedAssumption
<1>3. Len(Order) >= 1
  BY <1>1, <1>2, SeedAssumption
<1>4. DaysOf[Taken] \in Nat /\ DaysOf[Asked] \in Nat
  BY SeedAssumption
<1>5. /\ 0 \in Periods /\ Periods \subseteq Nat
      /\ Absent \notin Periods /\ Absent \notin Statuses
  BY SeedAssumption DEF Periods
<1>6. QED
  BY <1>1, <1>2, <1>3, <1>4, <1>5

LEMMA SeedStarts == SeedInit => SeedInv
<1> SUFFICES ASSUME SeedInit PROVE SeedInv
  OBVIOUS
<1>1. SeedTypeOK
  BY SeedConstants DEF SeedInit, SeedTypeOK, Phases
<1>2. SeedFits
  BY SeedConstants DEF SeedInit, SeedFits
<1>3. SeededBalanceAgrees /\ DoneIsSeeded /\ RefusedOverOlder
  BY SeedConstants DEF SeedInit, SeededBalanceAgrees, DoneIsSeeded, RefusedOverOlder
<1>4. QED
  BY <1>1, <1>2, <1>3 DEF SeedInv

(* The shape of the state.                                                 *)
LEMMA SeedState ==
  ASSUME SeedInv
  PROVE  /\ row \in [Ids -> Periods \cup {Absent}]
         /\ counter \in [used : Nat, pending : Nat]
         /\ counter.used \in Nat /\ counter.pending \in Nat
         /\ today \in Periods /\ run.period \in Periods
         /\ run.next \in 1 .. Len(Order) + 1 /\ run.pc \in Phases
         /\ \A id \in Dated : KeyOf(id) = run.period
         /\ \A id : KeyOf(id) \in Periods
BY SeedConstants DEF SeedInv, SeedTypeOK, KeyOf, PeriodOfRun

(* The run itself has gone on, and the rows are as they were.              *)
LEMMA RunMoves ==
  ASSUME SeedInv, UNCHANGED <<row, status, counter>>, today' \in Periods,
         run' \in [pc : Phases, next : 1 .. Len(Order) + 1, period : Periods],
         run'.pc = "inserting" =>
           /\ run'.next <= Len(Order)
           /\ \A j \in 1 .. run'.next - 1 : Seeded(Order[j])',
         DoneIsSeeded', RefusedOverOlder'
  PROVE  SeedInv'
<1>1. SeedTypeOK'
  BY DEF SeedInv, SeedTypeOK
<1>2. SeedFits'
  BY DEF SeedInv, SeedFits
<1>3. SeededBalanceAgrees'
  BY DEF SeedInv, SeededBalanceAgrees, DaysWith
<1>4. QED
  BY <1>1, <1>2, <1>3 DEF SeedInv

(* After an insert or a skip the row of the statement is there under its   *)
(* key, beside the earlier ones.                                           *)
LEMMA Advanced ==
  ASSUME SeedInv, run.pc = "inserting", Advance,
         row' \in [Ids -> Periods \cup {Absent}],
         \A id \in Ids : row[id] # Absent => row'[id] = row[id],
         row'[Order[run.next]] = KeyOf(Order[run.next])
  PROVE  /\ run' \in [pc : Phases, next : 1 .. Len(Order) + 1, period : Periods]
         /\ run'.pc = "inserting" =>
              /\ run'.next <= Len(Order)
              /\ \A j \in 1 .. run'.next - 1 : Seeded(Order[j])'
         /\ DoneIsSeeded' /\ RefusedOverOlder'
         /\ \A id : KeyOf(id)' = KeyOf(id)
<1>1. /\ run.next \in 1 .. Len(Order) /\ run.period \in Periods
      /\ \A j \in 1 .. run.next - 1 : row[Order[j]] # Absent /\ row[Order[j]] = KeyOf(Order[j])
  BY SeedState DEF SeedInv, SeedFits, Seeded
<1>2. PICK pc : pc = IF run.next = Len(Order) THEN "done" ELSE "inserting"
  OBVIOUS
<1>3. /\ run'.pc = pc /\ run'.next = run.next + 1 /\ run'.period = run.period
      /\ run' \in [pc : Phases, next : 1 .. Len(Order) + 1, period : Periods]
  <2>1. run \in [pc : Phases, next : 1 .. Len(Order) + 1, period : Periods]
    BY DEF SeedInv, SeedTypeOK
  <2>2. run' = [run EXCEPT !.next = run.next + 1, !.pc = pc]
    BY <1>2 DEF Advance
  <2>3. run.next + 1 \in 1 .. Len(Order) + 1 /\ pc \in Phases
    BY <1>1, <1>2, SeedConstants DEF Phases
  <2>4. QED
    BY <2>1, <2>2, <2>3
<1>4. \A id : KeyOf(id)' = KeyOf(id) /\ KeyOf(id) \in Periods
  BY <1>3, SeedState DEF KeyOf, PeriodOfRun
<1>5. \A j \in 1 .. run.next : row'[Order[j]] # Absent /\ row'[Order[j]] = KeyOf(Order[j])
  <2> SUFFICES ASSUME NEW j \in 1 .. run.next
               PROVE  row'[Order[j]] # Absent /\ row'[Order[j]] = KeyOf(Order[j])
    OBVIOUS
  <2>1. Order[j] \in Ids
    BY <1>1, SeedConstants
  <2>2. CASE j = run.next
    BY <1>4, <2>2, SeedConstants
  <2>3. CASE j \in 1 .. run.next - 1
    BY <1>1, <2>1, <2>3
  <2>4. QED
    BY <1>1, <2>2, <2>3
<1>6. \A j \in 1 .. run.next : Seeded(Order[j])'
  BY <1>4, <1>5 DEF Seeded
<1>7. run.next + 1 - 1 = run.next
  BY <1>1
<1>8. DoneIsSeeded'
  <2> SUFFICES ASSUME run'.pc = "done", NEW id \in Ids
               PROVE  row'[id] = IF id \in Dated THEN run'.period ELSE 0
    BY DEF DoneIsSeeded
  <2>1. PICK j \in 1 .. Len(Order) : Order[j] = id
    BY SeedConstants, SeedAssumption
  <2>2. run.next = Len(Order)
    BY <1>2, <1>3
  <2>3. row'[id] = KeyOf(id)
    BY <1>5, <2>1, <2>2
  <2>4. QED
    BY <1>3, <2>3 DEF KeyOf, PeriodOfRun
<1>9. RefusedOverOlder'
  BY <1>2, <1>3 DEF RefusedOverOlder
<1>10. QED
  BY <1>1, <1>2, <1>3, <1>4, <1>6, <1>7, <1>8, <1>9

LEMMA SkipStep == ASSUME SeedInv, Skip PROVE SeedInv'
<1>1. /\ run.pc = "inserting" /\ Advance /\ UNCHANGED <<row, status, counter, today>>
      /\ row[Order[run.next]] = KeyOf(Order[run.next])
  BY DEF Skip, Seeded
<1>2. /\ run' \in [pc : Phases, next : 1 .. Len(Order) + 1, period : Periods]
      /\ run'.pc = "inserting" =>
           /\ run'.next <= Len(Order)
           /\ \A j \in 1 .. run'.next - 1 : Seeded(Order[j])'
      /\ DoneIsSeeded' /\ RefusedOverOlder'
  BY <1>1, Advanced, SeedState
<1>3. QED
  BY <1>1, <1>2, RunMoves, SeedState

LEMMA InsertStep == ASSUME SeedInv, Insert PROVE SeedInv'
<1>1. PICK id : id = Order[run.next]
  OBVIOUS
<1>2. /\ run.pc = "inserting" /\ row[id] = Absent /\ Advance /\ today' = today
      /\ row' = [row EXCEPT ![id] = KeyOf(id)]
      /\ status' = CASE id = Taken -> [status EXCEPT ![id] = "APPROVED"]
                     [] id = Asked -> [status EXCEPT ![id] = "SUBMITTED"]
                     [] OTHER      -> status
      /\ counter' = IF id = Account THEN SeedCounters ELSE counter
  BY <1>1 DEF Insert
<1>3. /\ run.next \in 1 .. Len(Order)
      /\ \A j \in 1 .. run.next - 1 : Seeded(Order[j])
  BY <1>2, SeedState DEF SeedInv, SeedFits
<1>4. id \in Ids
  BY <1>1, <1>3, SeedConstants
<1>5. /\ row \in [Ids -> Periods \cup {Absent}] /\ KeyOf(id) \in Periods
      /\ status \in [{Taken, Asked} -> Statuses \cup {Absent}]
      /\ counter \in [used : Nat, pending : Nat] /\ today \in Periods
  BY SeedState DEF SeedInv, SeedTypeOK
<1>6. /\ row' \in [Ids -> Periods \cup {Absent}] /\ row'[id] = KeyOf(id)
      /\ \A i \in Ids : i # id => row'[i] = row[i]
  BY <1>2, <1>4, <1>5
<1>7. /\ run' \in [pc : Phases, next : 1 .. Len(Order) + 1, period : Periods]
      /\ run'.pc = "inserting" =>
           /\ run'.next <= Len(Order)
           /\ \A j \in 1 .. run'.next - 1 : Seeded(Order[j])'
      /\ DoneIsSeeded' /\ RefusedOverOlder'
  BY <1>1, <1>2, <1>6, Advanced
<1>8. /\ status'[Taken] = IF id = Taken THEN "APPROVED" ELSE status[Taken]
      /\ status'[Asked] = IF id = Asked THEN "SUBMITTED" ELSE status[Asked]
      /\ status' \in [{Taken, Asked} -> Statuses \cup {Absent}]
  BY <1>2, <1>5, SeedConstants DEF Statuses
<1>9. counter' \in [used : Nat, pending : Nat]
  BY <1>2, <1>5, SeedConstants DEF SeedCounters
<1>10. SeedTypeOK'
  BY <1>2, <1>5, <1>6, <1>7, <1>8, <1>9 DEF SeedTypeOK
<1>11. SeedFits'
  <2>1. \A i \in Ids \ Dated : row'[i] \in {Absent, 0}
    BY <1>6 DEF SeedInv, SeedFits, KeyOf
  <2>2. status'[Taken] = IF row'[Taken] = Absent THEN Absent ELSE "APPROVED"
    BY <1>5, <1>6, <1>8, SeedConstants DEF SeedInv, SeedFits
  <2>3. /\ row'[Asked] = Absent => status'[Asked] = Absent
        /\ row'[Asked] # Absent => status'[Asked] \in Statuses
        /\ row'[Asked] # Absent /\ row'[Account] = Absent => status'[Asked] = "SUBMITTED"
    BY <1>2, <1>5, <1>6, <1>8, SeedConstants DEF SeedInv, SeedFits, Statuses
  <2>4. QED
    BY <1>7, <2>1, <2>2, <2>3 DEF SeedFits
<1>12. SeededBalanceAgrees'
  <2>1. CASE id = Account
    <3>1. PICK i \in 1 .. Len(Order) : i = run.next /\ Order[i] = Account
      BY <1>1, <1>3, <2>1
    <3>2. {Taken, Asked} \subseteq {Order[j] : j \in 1 .. i - 1}
      BY <3>1, SeedConstants, SeedAssumption
    <3>3. Seeded(Taken) /\ Seeded(Asked)
      BY <1>3, <3>1, <3>2
    <3>4. /\ row[Taken] # Absent /\ row[Asked] # Absent
          /\ row'[Taken] = row'[Account] /\ row'[Asked] = row'[Account]
      BY <1>6, <2>1, <3>3, SeedConstants, SeedState DEF Seeded
    <3>5. status'[Taken] = "APPROVED" /\ status'[Asked] = "SUBMITTED"
      BY <1>2, <1>8, <2>1, <3>4, SeedConstants DEF SeedInv, SeedFits
    <3>6. counter'.used = DaysOf[Taken] /\ counter'.pending = DaysOf[Asked]
      BY <1>2, <2>1 DEF SeedCounters
    <3>7. QED
      BY <3>4, <3>5, <3>6, SeedConstants DEF SeededBalanceAgrees, DaysWith
  <2>2. CASE id # Account
    <3>1. row'[Account] = row[Account] /\ counter' = counter
      BY <1>2, <1>6, <2>2, SeedConstants
    <3>2. row[Account] # Absent => id # Taken /\ id # Asked
      BY <1>2 DEF SeedInv, SeededBalanceAgrees
    <3>3. row[Account] # Absent =>
            /\ row'[Taken] = row[Taken] /\ row'[Asked] = row[Asked]
            /\ status'[Taken] = status[Taken] /\ status'[Asked] = status[Asked]
      BY <1>6, <1>8, <3>2, SeedConstants
    <3>4. QED
      BY <3>1, <3>3 DEF SeedInv, SeededBalanceAgrees, DaysWith
  <2>3. QED
    BY <2>1, <2>2
<1>13. QED
  BY <1>7, <1>10, <1>11, <1>12 DEF SeedInv

LEMMA DecideStep ==
  ASSUME SeedInv, NEW decision \in {"APPROVED", "REJECTED", "CANCELLED"},
         Decide(decision)
  PROVE  SeedInv'
<1>1. /\ status[Asked] = "SUBMITTED" /\ row[Account] # Absent
      /\ status' = [status EXCEPT ![Asked] = decision]
      /\ counter' =
           [used |-> counter.used + IF decision = "APPROVED" THEN DaysOf[Asked] ELSE 0,
            pending |-> counter.pending - DaysOf[Asked]]
      /\ UNCHANGED <<row, today, run>>
  BY DEF Decide
<1>2. /\ status \in [{Taken, Asked} -> Statuses \cup {Absent}]
      /\ counter.used \in Nat /\ counter.pending \in Nat
  BY SeedState DEF SeedInv, SeedTypeOK
<1>3. /\ row[Taken] = row[Account] /\ row[Asked] = row[Account]
      /\ counter.used = DaysWith("APPROVED") /\ counter.pending = DaysWith("SUBMITTED")
      /\ status[Taken] = "APPROVED"
  BY <1>1 DEF SeedInv, SeedFits, SeededBalanceAgrees
<1>4. counter.used = DaysOf[Taken] /\ counter.pending = DaysOf[Asked]
  BY <1>1, <1>3, SeedConstants DEF DaysWith
<1>5. /\ status'[Asked] = decision /\ status'[Taken] = "APPROVED"
      /\ status' \in [{Taken, Asked} -> Statuses \cup {Absent}]
  BY <1>1, <1>2, <1>3, SeedConstants DEF Statuses
<1>6. /\ counter'.used = DaysOf[Taken] + (IF decision = "APPROVED" THEN DaysOf[Asked] ELSE 0)
      /\ counter'.pending = 0
      /\ counter' \in [used : Nat, pending : Nat]
  BY <1>1, <1>4, SeedConstants
<1>7. SeedTypeOK'
  BY <1>1, <1>5, <1>6 DEF SeedInv, SeedTypeOK
<1>8. SeedFits'
  <2>1. \A id : Seeded(id)' = Seeded(id)
    BY <1>1 DEF Seeded, KeyOf, PeriodOfRun
  <2>2. QED
    BY <1>1, <1>3, <1>5, <2>1 DEF SeedInv, SeedFits, Statuses
<1>9. SeededBalanceAgrees'
  <2>1. DaysWith("APPROVED")' = counter'.used
    BY <1>5, <1>6, SeedConstants DEF DaysWith
  <2>2. DaysWith("SUBMITTED")' = 0
    BY <1>5, SeedConstants DEF DaysWith
  <2>3. QED
    BY <1>1, <1>3, <1>6, <2>1, <2>2 DEF SeededBalanceAgrees
<1>10. DoneIsSeeded' /\ RefusedOverOlder'
  BY <1>1 DEF SeedInv, DoneIsSeeded, RefusedOverOlder
<1>11. QED
  BY <1>7, <1>8, <1>9, <1>10 DEF SeedInv

LEMMA SeedStep == SeedInv /\ [SeedNext]_seedVars => SeedInv'
<1> SUFFICES ASSUME SeedInv, [SeedNext]_seedVars PROVE SeedInv'
  OBVIOUS
<1>1. CASE Start
  <2>1. /\ run' = [pc |-> "inserting", next |-> 1, period |-> today]
        /\ UNCHANGED <<row, status, counter, today>>
    BY <1>1 DEF Start
  <2>2. run' \in [pc : Phases, next : 1 .. Len(Order) + 1, period : Periods]
    BY <2>1, SeedConstants, SeedState DEF Phases
  <2>3. run'.pc = "inserting" /\ run'.next = 1
    BY <2>1
  <2>4. DoneIsSeeded' /\ RefusedOverOlder'
    BY <2>3 DEF DoneIsSeeded, RefusedOverOlder
  <2>5. QED
    BY <2>1, <2>2, <2>3, <2>4, RunMoves, SeedConstants, SeedState
<1>2. CASE Skip
  BY <1>2, SkipStep
<1>3. CASE Insert
  BY <1>3, InsertStep
<1>4. CASE RefusedById
  <2>1. /\ run' = [run EXCEPT !.pc = "failed"]
        /\ UNCHANGED <<row, status, counter, today>>
        /\ run.pc = "inserting"
        /\ row[Order[run.next]] # Absent /\ ~Seeded(Order[run.next])
    BY <1>4 DEF RefusedById
  <2>2. /\ run' \in [pc : Phases, next : 1 .. Len(Order) + 1, period : Periods]
        /\ run'.pc = "failed" /\ run'.period = run.period
    BY <2>1 DEF SeedInv, SeedTypeOK, Phases
  <2>3. PICK id : id = Order[run.next]
    OBVIOUS
  <2>4. id \in Ids /\ row[id] # Absent /\ row[id] # KeyOf(id)
    BY <2>1, <2>3, SeedConstants, SeedState DEF SeedInv, SeedFits, Seeded
  <2>5. id \in Dated /\ row[id] # run.period
    BY <2>4 DEF SeedInv, SeedFits, KeyOf, PeriodOfRun
  <2>6. RefusedOverOlder'
    BY <2>1, <2>2, <2>4, <2>5 DEF RefusedOverOlder
  <2>7. DoneIsSeeded'
    BY <2>2 DEF DoneIsSeeded
  <2>8. QED
    BY <2>1, <2>2, <2>6, <2>7, RunMoves, SeedState
<1>5. CASE Cut
  <2>1. run' = [run EXCEPT !.pc = "off"] /\ UNCHANGED <<row, status, counter, today>>
    BY <1>5 DEF Cut
  <2>2. /\ run' \in [pc : Phases, next : 1 .. Len(Order) + 1, period : Periods]
        /\ run'.pc = "off"
    BY <2>1 DEF SeedInv, SeedTypeOK, Phases
  <2>3. DoneIsSeeded' /\ RefusedOverOlder'
    BY <2>2 DEF DoneIsSeeded, RefusedOverOlder
  <2>4. QED
    BY <2>1, <2>2, <2>3, RunMoves, SeedState
<1>6. CASE \E decision \in {"APPROVED", "REJECTED", "CANCELLED"} : Decide(decision)
  BY <1>6, DecideStep
<1>7. CASE NextPeriod \/ UNCHANGED seedVars
  <2>1. UNCHANGED <<row, status, counter, run>> /\ today' \in Periods
    <3>1. today \in Periods /\ LastPeriod \in Nat
      BY SeedState, SeedAssumption
    <3>2. QED
      BY <1>7, <3>1 DEF NextPeriod, seedVars, Periods
  <2>2. \A id : Seeded(id)' = Seeded(id)
    BY <2>1 DEF Seeded, KeyOf, PeriodOfRun
  <2>3. DoneIsSeeded' /\ RefusedOverOlder'
    BY <2>1 DEF SeedInv, DoneIsSeeded, RefusedOverOlder
  <2>4. run' \in [pc : Phases, next : 1 .. Len(Order) + 1, period : Periods]
    BY <2>1 DEF SeedInv, SeedTypeOK
  <2>5. run'.pc = "inserting" =>
          /\ run'.next <= Len(Order)
          /\ \A j \in 1 .. run'.next - 1 : Seeded(Order[j])'
    BY <2>1, <2>2 DEF SeedInv, SeedFits
  <2>6. QED
    BY <2>1, <2>3, <2>4, <2>5, RunMoves
<1>8. QED
  BY <1>1, <1>2, <1>3, <1>4, <1>5, <1>6, <1>7 DEF SeedNext

LEMMA SeedInvariant == SeedSpec => []SeedInv
BY SeedStarts, SeedStep, PTL DEF SeedSpec

(* Every reachable state of the seed is well typed: no interleaving of     *)
(* seeds and decisions takes a counter below zero.                         *)
THEOREM SeedTypeCorrect == SeedSpec => []SeedTypeOK
BY SeedInvariant, PTL DEF SeedInv

(* countersFor derives the counters from the requests it is about to seed, *)
(* which are those stored: whatever rows the seed has and wherever it is   *)
(* cut off, the balance it leaves is that of the requests of its period.   *)
THEOREM BalanceFollowsRequests == SeedSpec => []SeededBalanceAgrees
BY SeedInvariant, PTL DEF SeedInv

(* A run that ends without an error has seeded everything for its period.  *)
THEOREM DoneMeansSeeded == SeedSpec => []DoneIsSeeded
BY SeedInvariant, PTL DEF SeedInv

(* A run is refused by a primary key only over rows of another period.     *)
THEOREM OnlyOlderRefuse == SeedSpec => []RefusedOverOlder
BY SeedInvariant, PTL DEF SeedInv
=============================================================================
