--------------------------- MODULE LeaveServiceMC ---------------------------
(* Small instances of LeaveService: an administrator with one balance row,  *)
(* who may reverse but not decide her own leave, and her manager.           *)
EXTENDS LeaveService, TLC

CONSTANTS emp, mgr, acc1, r1, r2, r3, r4, r5, h1, h2, h3

RoleTwo      == (emp :> "ADMIN") @@ (mgr :> "MANAGER")
ManagerOfTwo == (emp :> mgr) @@ (mgr :> None)
OwnerOne     == (acc1 :> emp)
EntitledOne  == (acc1 :> 3)

RowSymmetry == Permutations(Creatable) \cup Permutations(Requests \ Creatable)
HandlerSymmetry == Permutations(Handlers)
Symmetry == RowSymmetry \cup HandlerSymmetry
=============================================================================
