------------------------- MODULE MCTrainSupervisor -------------------------
(* Small instances of TrainSupervisor for TLC. *)
EXTENDS TrainSupervisor
=============================================================================
