------------------------------ MODULE DevRunner ------------------------------
(***************************************************************************)
(* scripts/dev.js: one Node process that starts the API and the web dev    *)
(* server, and stops when either stops, fails to start, or the user says   *)
(* so.  Its event handlers run one at a time, in any order the events come *)
(* in; the children are processes of their own, end when they like and may *)
(* ignore SIGTERM.  What a child has started itself (npm starts the actual *)
(* server) may outlive it and then keeps its output pipes open.            *)
(***************************************************************************)
EXTENDS Integers

CONSTANTS
  Children,   \* the processes of CHILDREN
  None        \* no exit code: ended by a signal, or not ended

ASSUME ChildrenAssumption == Children # {} /\ None \notin Int

VARIABLES
  proc,          \* [Children -> {"up", "failed", "ended"}], the processes
  code,          \* [Children -> ExitCodes \cup {None}], how they ended
  told,          \* [Children -> SUBSET Signals], the signals they were sent
  orphan,        \* the children whose descendants hold their pipes open
  event,         \* the children whose 'error' or 'exit' is still to handle
  children,      \* the Set of dev.js
  shuttingDown,
  forceTimer,    \* "off", "armed" or "fired"
  exitCode,      \* process.exitCode
  runner         \* "up" or "down", the Node process

processes == <<proc, code, told, orphan, event>>
program   == <<children, shuttingDown, forceTimer, exitCode, runner>>
vars      == <<processes, program>>

Signals   == {"SIGTERM", "SIGKILL"}
ExitCodes == {0, 1}
SIGINT    == 2
SIGTERM   == 15

(* Both children are spawned before the first event is handled.            *)
Init ==
  /\ proc \in [Children -> {"up", "failed"}]
  /\ code = [c \in Children |-> None]
  /\ told = [c \in Children |-> {}]
  /\ orphan = {}
  /\ event = {c \in Children : proc[c] = "failed"}
  /\ children = Children
  /\ shuttingDown = FALSE
  /\ forceTimer = "off"
  /\ exitCode = None
  /\ runner = "up"

-----------------------------------------------------------------------------
(* The processes                                                           *)

Ended(c, how) ==
  /\ proc[c] = "up"
  /\ proc' = [proc EXCEPT ![c] = "ended"]
  /\ code' = [code EXCEPT ![c] = how]
  /\ event' = event \cup {c}
  /\ orphan' \in {orphan, orphan \cup {c}}
  /\ UNCHANGED <<told, program>>

(* By itself, on a signal of somebody else, or on the runner's SIGTERM.    *)
ChildEnds(c) == \E how \in ExitCodes \cup {None} : Ended(c, how)

KillTakes(c) == "SIGKILL" \in told[c] /\ Ended(c, None)

OrphanEnds(c) ==
  /\ c \in orphan
  /\ orphan' = orphan \ {c}
  /\ UNCHANGED <<proc, code, told, event, program>>

(* child.kill on each of a set of children: one that has ended is spared.  *)
Kill(targets, signal) ==
  told' = [c \in Children |->
             IF c \in targets /\ proc[c] = "up" THEN told[c] \cup {signal}
                                               ELSE told[c]]

-----------------------------------------------------------------------------
(* The handlers                                                            *)

Teardown ==
  /\ shuttingDown' = TRUE
  /\ Kill(children, "SIGTERM")
  /\ forceTimer' = "armed"

(* SIGINT or SIGTERM; a second one finds shuttingDown set.                 *)
OnSignal(number) ==
  /\ runner = "up"
  /\ ~shuttingDown
  /\ Teardown
  /\ exitCode' = 128 + number
  /\ UNCHANGED <<proc, code, orphan, event, children, runner>>

(* Mutant: the exit code stays the one teardown(0) set.                    *)
OnErrorZero(c) ==
  /\ runner = "up"
  /\ c \in event /\ proc[c] = "failed"
  /\ event' = event \ {c}
  /\ IF shuttingDown
     THEN UNCHANGED <<told, shuttingDown, forceTimer, exitCode>>
     ELSE Teardown /\ exitCode' = 0
  /\ UNCHANGED <<proc, code, orphan, children, runner>>

(* A child that could not be spawned: it stays in the Set of children.     *)
OnError(c) ==
  /\ runner = "up"
  /\ c \in event /\ proc[c] = "failed"
  /\ event' = event \ {c}
  /\ IF shuttingDown THEN UNCHANGED <<told, shuttingDown, forceTimer>>
                     ELSE Teardown
  /\ exitCode' = 1
  /\ UNCHANGED <<proc, code, orphan, children, runner>>

(* Mutant: a child that ends during a teardown ends the runner.            *)
OnExitAnyTime(c) ==
  /\ runner = "up"
  /\ c \in event /\ proc[c] = "ended"
  /\ event' = event \ {c}
  /\ children' = children \ {c}
  /\ shuttingDown' = TRUE
  /\ Kill(children', "SIGTERM")
  /\ exitCode' = IF code[c] = None THEN 1 ELSE code[c]
  /\ runner' = "down"
  /\ UNCHANGED <<proc, code, orphan, forceTimer>>

(* Mutant: during a teardown the exit of a child is ignored altogether.    *)
OnExitIgnored(c) ==
  /\ runner = "up"
  /\ c \in event /\ proc[c] = "ended"
  /\ event' = event \ {c}
  /\ IF shuttingDown
     THEN UNCHANGED <<told, children, shuttingDown, exitCode, runner>>
     ELSE /\ children' = children \ {c}
          /\ shuttingDown' = TRUE
          /\ Kill(children', "SIGTERM")
          /\ exitCode' = IF code[c] = None THEN 1 ELSE code[c]
          /\ runner' = "down"
  /\ UNCHANGED <<proc, code, orphan, forceTimer>>

(* The first child to end takes the runner with it: process.exit follows   *)
(* the SIGTERM to the sibling at once, with no force timer.                *)
OnExit(c) ==
  /\ runner = "up"
  /\ c \in event /\ proc[c] = "ended"
  /\ event' = event \ {c}
  /\ children' = children \ {c}
  /\ IF shuttingDown
     THEN UNCHANGED <<told, shuttingDown, exitCode, runner>>
     ELSE /\ shuttingDown' = TRUE
          /\ Kill(children', "SIGTERM")
          /\ exitCode' = IF code[c] = None THEN 1 ELSE code[c]
          /\ runner' = "down"
  /\ UNCHANGED <<proc, code, orphan, forceTimer>>

(* Mutant: the timer sends the signal the children did not heed.           *)
ForceKillAgain ==
  /\ runner = "up"
  /\ forceTimer = "armed"
  /\ Kill(children, "SIGTERM")
  /\ forceTimer' = "fired"
  /\ UNCHANGED <<proc, code, orphan, event, children, shuttingDown, exitCode,
                 runner>>

(* Two seconds later, if anything has kept the process alive till then.    *)
ForceKill ==
  /\ runner = "up"
  /\ forceTimer = "armed"
  /\ Kill(children, "SIGKILL")
  /\ forceTimer' = "fired"
  /\ UNCHANGED <<proc, code, orphan, event, children, shuttingDown, exitCode,
                 runner>>

(* Node exits when nothing is left to wait for: no child, no event and no  *)
(* open pipe.  The timer is unref'd and does not count.                    *)
Drain ==
  /\ runner = "up"
  /\ event = {} /\ orphan = {}
  /\ \A c \in Children : proc[c] # "up"
  /\ runner' = "down"
  /\ UNCHANGED <<processes, children, shuttingDown, forceTimer, exitCode>>

Next ==
  \/ \E c \in Children :
       \/ ChildEnds(c) \/ KillTakes(c) \/ OrphanEnds(c)
       \/ OnError(c) \/ OnExit(c)
  \/ OnSignal(SIGINT) \/ OnSignal(SIGTERM)
  \/ ForceKill
  \/ Drain

(* The loop handles events that are due and the timer fires; SIGKILL ends  *)
(* a process.  Nothing makes a child heed SIGTERM.                         *)
Fairness ==
  /\ \A c \in Children :
       WF_vars(OnError(c)) /\ WF_vars(OnExit(c)) /\ WF_vars(KillTakes(c))
  /\ WF_vars(ForceKill)
  /\ WF_vars(Drain)

Spec == Init /\ [][Next]_vars /\ Fairness

-----------------------------------------------------------------------------

(* The Set of children lacks exactly those whose exit has been handled.    *)
TypeOK ==
  /\ proc \in [Children -> {"up", "failed", "ended"}]
  /\ code \in [Children -> ExitCodes \cup {None}]
  /\ told \in [Children -> SUBSET Signals]
  /\ orphan \subseteq Children /\ event \subseteq Children
  /\ children = {c \in Children : proc[c] = "ended" => c \in event}
  /\ shuttingDown \in BOOLEAN
  /\ forceTimer \in {"off", "armed", "fired"}
  /\ exitCode \in ExitCodes \cup {None, 128 + SIGINT, 128 + SIGTERM}
  /\ runner \in {"up", "down"}

(* "SIGINT/SIGTERM (Ctrl-C) tear down both children before exiting": after *)
(* a teardown no child outlives the runner, whatever order the exits come  *)
(* in.  When a child's own end stops the runner, the sibling may still run *)
(* but has been asked to stop.                                             *)
LeavesNoStray ==
  runner = "down" =>
    \A c \in Children : proc[c] = "up" =>
      forceTimer = "off" /\ told[c] # {}

(* The runner reports success only for a child that ended by itself and    *)
(* successfully: a failed spawn, a signal or a killed child is an error,   *)
(* also when several of them come together.                                *)
ZeroMeansFinished ==
  runner = "down" /\ exitCode \in {0, None} =>
    \E c \in Children : proc[c] = "ended" /\ code[c] = 0 /\ told[c] = {}

(* A shutdown ends, even when the children ignore SIGTERM, unless what a   *)
(* child had started outlives it: the force kill reaches only the child.   *)
ShutdownEnds == shuttingDown ~> runner = "down" \/ orphan # {}
=============================================================================
