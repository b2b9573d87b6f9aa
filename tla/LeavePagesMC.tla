---------------------------- MODULE LeavePagesMC ----------------------------
(* An employee, her manager and the manager of that one: three roles in the *)
(* places that differ for the pages.                                        *)
EXTENDS LeavePages, TLC

CONSTANTS emp, mgr, oth, acc1, acc2, acc3, r1, r2, k1, k2

RoleMC      == (emp :> "EMPLOYEE") @@ (mgr :> "MANAGER") @@ (oth :> "MANAGER")
ManagerOfMC == (emp :> mgr) @@ (mgr :> oth) @@ (oth :> None)
OwnerOfMC   == (acc1 :> emp) @@ (acc2 :> mgr) @@ (acc3 :> oth)

Symmetry == Permutations(Requests) \cup Permutations(Sends)

(* The bounds: one of the requests is written over, any number of times; a  *)
(* request gets two of the three last statuses; the answers to one form are *)
(* lost once.                                                               *)
MaxOvertaken == 1
MaxPast      == 4
MaxLost      == 1

Bounds == /\ Cardinality(overtaken) <= MaxOvertaken
          /\ \A r \in Requests : Cardinality(past[r]) <= MaxPast
          /\ form.lost <= MaxLost
=============================================================================
