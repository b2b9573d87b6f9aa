----------------------------- MODULE DevRunnerMC -----------------------------
(* The two children of dev.js.                                             *)
EXTENDS DevRunner

CONSTANTS api, web
=============================================================================
