----------------------------- MODULE MCRecovery -----------------------------
(* Small instances of ExecutionRecovery for TLC.                             *)
EXTENDS ExecutionRecovery
=============================================================================
