--------------------------- MODULE MCMainPriority ---------------------------
(* Instances of MainPriority for TLC. *)
EXTENDS MainPriority
=============================================================================
