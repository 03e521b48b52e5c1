--------------------------- MODULE MCRunnerInbox ---------------------------
(* Small instances of RunnerInbox for TLC. *)
EXTENDS RunnerInbox, TLC

UnitBytes == [u \in Inputs |-> 1]
WideCaps == [l \in Lanes |-> 9]
=============================================================================
