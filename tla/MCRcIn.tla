-------------------------------- MODULE MCRcIn --------------------------------
(* Instances of RcIn for TLC. *)
EXTENDS RcIn

\* The decoder by itself, before PX4RCInput::init() has run.
DecoderSpec == Init /\ [][Next /\ ~initialized']_vars
=============================================================================
