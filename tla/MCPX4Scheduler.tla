--------------------------- MODULE MCPX4Scheduler ---------------------------
(* Instances of PX4Scheduler for TLC. *)
EXTENDS PX4Scheduler
=============================================================================
