--------------------------- MODULE MCTaskRecovery ---------------------------
(* Small instances of TaskRecovery for TLC. *)
EXTENDS TaskRecovery
CONSTANTS w, c, x
=============================================================================
