------------------------------ MODULE MCHrTimer ------------------------------
(* Instances of HrTimer for TLC. *)
EXTENDS HrTimer
=============================================================================
