------------------------------ MODULE SeedDataMC ------------------------------
(* The employee's rows, one of each kind, in the order of the seed.         *)
EXTENDS SeedData

CONSTANTS employee, policy, approved, submitted, rejected, annual, sick

OrderMC  == <<employee, policy, approved, submitted, rejected, annual, sick>>
DaysOfMC == [id \in {approved, submitted} |-> IF id = approved THEN 4 ELSE 2]
=============================================================================
