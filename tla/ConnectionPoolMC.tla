-------------------------- MODULE ConnectionPoolMC --------------------------
(* Pools of two clients, with as many calls as clients or one more.         *)
EXTENDS ConnectionPool

CONSTANTS c1, c2, c3, p1
=============================================================================
