----------------------------- MODULE MCDeviceBus -----------------------------
(* Instances of DeviceBus for TLC. *)
EXTENDS DeviceBus

Periods == [c \in Callbacks |-> IF c = "imu" THEN 2 ELSE 4]
=============================================================================
