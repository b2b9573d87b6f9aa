---------------------------- MODULE LeaveLifecycle ----------------------------
(***************************************************************************)
(* The life of a leave request, without employees, days and balances: the  *)
(* phases it passes and the moves between them.  A decision is final but   *)
(* for one thing: approved leave may be released, once, which leaves the   *)
(* approval itself as it was.  LeaveLedger implements it, and through the  *)
(* ledger so does LeaveService.                                            *)
(***************************************************************************)
CONSTANT Requests

Phases == {"none", "draft", "submitted", "approved", "rejected", "cancelled",
           "released"}

(* The phases a request can enter next.                                    *)
After ==
  [none      |-> {"draft"},
   draft     |-> {"submitted", "cancelled"},
   submitted |-> {"approved", "rejected", "cancelled"},
   approved  |-> {"released"},
   rejected  |-> {},
   cancelled |-> {},
   released  |-> {}]

VARIABLE phase   \* [Requests -> Phases]

Init == phase = [r \in Requests |-> "none"]

Move(r, next) ==
  /\ next \in After[phase[r]]
  /\ phase' = [phase EXCEPT ![r] = next]

Next == \E r \in Requests : \E next \in Phases : Move(r, next)

Spec == Init /\ [][Next]_phase
=============================================================================
