--------------------------- MODULE BalancePeriodsMC ---------------------------
(* Two calls at once on three periods of a one-day grant with a one-day cap.*)
EXTENDS BalancePeriods, TLC

CONSTANTS h1, h2

TwoHandlers == {h1, h2}

Symmetric == Permutations(TwoHandlers)
=============================================================================
