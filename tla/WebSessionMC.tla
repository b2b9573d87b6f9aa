---------------------------- MODULE WebSessionMC ----------------------------
(* Three logins of one tab, two login forms and one or two page calls.      *)
EXTENDS WebSession, TLC

CONSTANTS t1, t2, t3, l1, l2, f1, f2

Symmetry == Permutations(Tokens) \cup Permutations(Logins) \cup Permutations(Fetches)
=============================================================================
