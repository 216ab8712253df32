---------------------------- MODULE MCUARTDriver ----------------------------
(* Instances of UARTDriver for TLC. *)
EXTENDS UARTDriver
=============================================================================
