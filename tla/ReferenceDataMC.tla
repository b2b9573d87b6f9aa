--------------------------- MODULE ReferenceDataMC ---------------------------
(* Employees that share a number or an address, one with a manager, and     *)
(* three policies of one leave type: two in force together for a time, one  *)
(* that never is.                                                           *)
EXTENDS ReferenceData, TLC

CONSTANTS c1, c2, n1, n2, m1, m2, annual

HiresMC == {[number |-> n1, email |-> m1, manager |-> None],
            [number |-> n1, email |-> m2, manager |-> n2],
            [number |-> n2, email |-> m1, manager |-> None]}

ProposalsMC ==
  {[code |-> annual, months |-> 2, from |-> 0, to |-> 2, status |-> "ACTIVE"],
   [code |-> annual, months |-> 3, from |-> 1, to |-> None, status |-> "ACTIVE"],
   [code |-> annual, months |-> 1, from |-> 0, to |-> None, status |-> "DRAFT"]}

Symmetry == Permutations(Calls)
=============================================================================
