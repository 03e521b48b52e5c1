----------------------------- MODULE MCFileLock -----------------------------
(* Small instances of FileLock for TLC. *)
EXTENDS FileLock
CONSTANTS p, q, r
=============================================================================
